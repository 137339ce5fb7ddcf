------------------------- MODULE SocketTableProofs --------------------------
(***************************************************************************)
(* Proofs about the sockets of the shell (SocketTable), for any number of  *)
(* records and descriptors, any sockets, sizes and failed closes: every    *)
(* open socket of the shell has its record, no command touches a socket of *)
(* another thread, and a bulk transfer moves every unit once and in order. *)
(*                                                                         *)
(* The argument: a record is spent only by a close that fails, so that     *)
(* there are at most as many open records as sockets of the shell and      *)
(* failed closes.  A descriptor that can still be opened therefore leaves  *)
(* a record free, as long as there are enough of them.  A bulk transfer of *)
(* a size has less to do after each step of its own.                       *)
(***************************************************************************)
EXTENDS SocketTable, FiniteSetTheorems, SequenceTheorems, TLAPS

\* The sockets of the shell, the sockets there are, and the records of the table.
ShellSockets == [owner : {"shell"}, kind : Kinds, connected : BOOLEAN]
Sockets == {Closed, OtherSocket} \cup ShellSockets
Records == [sd : Fds, dev : {0} \cup Ifaces, flags : SUBSET Flags]

\* The open records, and the descriptors of the shell.
OpenRecs == {i \in Recs : "open" \in socks[i].flags}
ShellFds == {sd \in Fds : fds[sd].owner = "shell"}

\* Only a failed close leaves an open record without a socket.
Accounted == Cardinality(OpenRecs) <= Cardinality(ShellFds) + lost

\* A socket of the shell is found, while the records suffice.
Reachable == MaxFds + lost <= MaxSockRec => \A sd \in ShellFds : Matches(sd) # {}

\* Before a close has failed, the open records describe their sockets, each its own.
Described ==
    lost = 0 => /\ \A i \in OpenRecs : Describes(socks[i])
                /\ \A i, j \in OpenRecs : socks[i].sd = socks[j].sd => i = j

\* The inductive invariant.
IInv == TypeOK /\ BulkInOrder /\ Accounted /\ Reachable /\ Described

-----------------------------------------------------------------------------
(* Operators                                                               *)

\* A set of numbers that is not empty has a least member.
LEMMA LeastProperties ==
    ASSUME NEW S \in SUBSET Nat, S # {}
    PROVE  Least(S) \in S /\ \A j \in S : Least(S) <= j
  <1>1. \E i \in S : \A j \in S : i <= j
    <2> DEFINE T == {0 .. i : i \in S}
    <2>1. T \subseteq FiniteSubsetsOf(Nat)
      <3> SUFFICES ASSUME NEW i \in S PROVE 0 .. i \in FiniteSubsetsOf(Nat)
        OBVIOUS
      <3>1. IsFiniteSet(0 .. i)
        BY FS_Interval
      <3>2. 0 .. i \subseteq Nat
        OBVIOUS
      <3> QED
        BY <3>1, <3>2 DEF FiniteSubsetsOf
    <2>2. T # {}
      OBVIOUS
    <2> HIDE DEF T
    <2>3. PICK x \in T : \A y \in T : <<y, x>> \notin StrictSubsetOrdering(Nat)
      BY <2>1, <2>2, WFMin, FS_StrictSubsetOrderingWellFounded
    <2>4. PICK i \in S : x = 0 .. i
      BY DEF T
    <2>5. ASSUME NEW j \in S, j < i PROVE FALSE
      <3>1. 0 .. j \subseteq 0 .. i /\ i \in 0 .. i /\ i \notin 0 .. j
        BY <2>5
      <3>2. 0 .. j \in SUBSET Nat /\ 0 .. i \in SUBSET Nat
        OBVIOUS
      <3>3. <<0 .. j, 0 .. i>> \in StrictSubsetOrdering(Nat)
        BY <3>1, <3>2, Zenon DEF StrictSubsetOrdering
      <3> QED
        BY <2>3, <2>4, <3>3 DEF T
    <2> QED
      BY <2>5
  <1> QED
    BY <1>1 DEF Least

\* The socket of a descriptor is known by its owner, and connecting one of the shell
\* makes another socket of the shell.
LEMMA SocketKinds ==
    /\ \A s \in Sockets :
          /\ s.owner = "none" <=> s = Closed
          /\ s.owner = "other" <=> s = OtherSocket
          /\ s.owner = "shell" <=> s \in ShellSockets
          /\ s.owner \in {"none", "other", "shell"}
    /\ \A s \in ShellSockets :
          /\ [s EXCEPT !.connected = TRUE] \in ShellSockets
          /\ [s EXCEPT !.connected = TRUE].kind = s.kind
          /\ [s EXCEPT !.connected = TRUE].connected
    /\ \A k \in Kinds : Socket(k) \in ShellSockets /\ Socket(k).kind = k /\ ~Socket(k).connected
  <1>1. /\ \A s \in ShellSockets : s.owner = "shell"
        /\ Closed.owner = "none" /\ OtherSocket.owner = "other"
    BY DEF ShellSockets, Closed, OtherSocket
  <1>2. \A s \in ShellSockets :
          /\ [s EXCEPT !.connected = TRUE] \in ShellSockets
          /\ [s EXCEPT !.connected = TRUE].kind = s.kind
          /\ [s EXCEPT !.connected = TRUE].connected
    BY DEF ShellSockets
  <1>3. \A k \in Kinds :
          Socket(k) \in ShellSockets /\ Socket(k).kind = k /\ ~Socket(k).connected
    BY DEF ShellSockets, Socket
  <1> QED
    BY <1>1, <1>2, <1>3 DEF Sockets

\* There are finitely many records and descriptors.
LEMMA FiniteTable ==
    /\ IsFiniteSet(OpenRecs) /\ Cardinality(OpenRecs) \in Nat
    /\ IsFiniteSet(ShellFds) /\ Cardinality(ShellFds) \in Nat
    /\ IsFiniteSet(Recs) /\ Cardinality(Recs) = MaxSockRec
    /\ IsFiniteSet(Fds) /\ Cardinality(Fds) = MaxFds
  <1>1. IsFiniteSet(Recs) /\ Cardinality(Recs) = MaxSockRec
    BY ConstAssumption, FS_Interval DEF Recs
  <1>2. IsFiniteSet(Fds) /\ Cardinality(Fds) = MaxFds
    BY ConstAssumption, FS_Interval DEF Fds
  <1>3. OpenRecs \in SUBSET Recs /\ ShellFds \in SUBSET Fds
    BY DEF OpenRecs, ShellFds
  <1> QED
    BY <1>1, <1>2, <1>3, FS_Subset, FS_CardinalityType

\* While the records suffice, one of them is free if a descriptor is.
LEMMA RecordForSocket ==
    ASSUME Accounted, TypeOK, MaxFds + lost <= MaxSockRec, NEW sd \in Fds, sd \notin ShellFds
    PROVE  FreeRecs # {}
  <1>1. ShellFds \in SUBSET (Fds \ {sd})
    BY DEF ShellFds
  <1>2. IsFiniteSet(Fds \ {sd}) /\ Cardinality(Fds \ {sd}) = MaxFds - 1
    BY FiniteTable, FS_RemoveElement
  <1>3. Cardinality(ShellFds) <= MaxFds - 1
    BY <1>1, <1>2, FS_Subset
  <1>4. Cardinality(OpenRecs) < MaxSockRec
    BY <1>3, FiniteTable, ConstAssumption DEF Accounted, TypeOK
  <1>5. OpenRecs # Recs
    BY <1>4, FiniteTable, ConstAssumption
  <1> QED
    BY <1>5 DEF OpenRecs, FreeRecs

-----------------------------------------------------------------------------
(* The steps of the table                                                  *)

\* The flags of a record just made.
FirstFlags(k) == {"open", k.proto} \cup (IF k.v6 THEN {"v6"} ELSE {})

\* A socket of kind k is made for sd, and recorded in the free record i.
MadeIn(k, sd, i) ==
    /\ fds[sd] = Closed /\ fds' = [fds EXCEPT ![sd] = Socket(k)]
    /\ socks' = [socks EXCEPT ![i] = [sd |-> sd, dev |-> k.dev, flags |-> FirstFlags(k)]]
    /\ UNCHANGED <<max_fragment, xfer, moved, lost>>

\* A socket of kind k is made for sd, and no record is free.
MadeUnrecorded(k, sd) ==
    /\ fds[sd] = Closed /\ fds' = [fds EXCEPT ![sd] = Socket(k)]
    /\ socks' \in [Recs -> Records]
    /\ OpenRecs' = OpenRecs /\ \A i \in Recs : socks'[i].sd = socks[i].sd
    /\ UNCHANGED <<max_fragment, xfer, moved, lost>>

\* The four commands that create a socket do one of the two.
LEMMA CreateStep ==
    ASSUME TypeOK, NEW k \in Kinds, PlainCreate(k) \/ SecureCreate(k)
    PROVE  \E sd \in Fds :
              \/ FreeRecs = {} /\ MadeUnrecorded(k, sd)
              \/ \E i \in FreeRecs : MadeIn(k, sd, i)
  <1>1. PICK sd \in Fds :
            /\ Opens(sd, Socket(k))
            /\ \/ socks' = Recorded(sd, k)
               \/ LET idx == IF FreeRecs = {} THEN k.dev ELSE Least(FreeRecs)
                  IN  socks' = [Recorded(sd, k) EXCEPT ![idx].flags = @ \cup {k.proto}]
    BY DEF PlainCreate, SecureCreate
  <1>2. fds[sd] = Closed /\ fds' = [fds EXCEPT ![sd] = Socket(k)]
    <2>1. {d \in Fds : fds[d] = Closed} \in SUBSET Nat /\ {d \in Fds : fds[d] = Closed} # {}
      BY <1>1 DEF Opens, Fds
    <2> QED
      BY <1>1, <2>1, LeastProperties DEF Opens
  <1>3. UNCHANGED <<max_fragment, xfer, moved, lost>>
    BY DEF PlainCreate, SecureCreate
  <1>4. k.dev \in Ifaces /\ k.dev \in Recs /\ k.proto \in Protos /\ k.proto # "open"
    BY ConstAssumption DEF Ifaces, Recs, Protos
  <1>5. socks \in [Recs -> Records]
    BY DEF TypeOK, Records
  <1>6. CASE FreeRecs = {}
    <2>1. socks' = socks \/ socks' = [socks EXCEPT ![k.dev].flags = @ \cup {k.proto}]
      BY <1>1, <1>6 DEF Recorded
    <2>2. /\ \A i \in Recs : socks'[i].sd = socks[i].sd
          /\ \A i \in Recs : "open" \in socks'[i].flags <=> "open" \in socks[i].flags
          /\ socks' \in [Recs -> Records]
      BY <1>4, <1>5, <2>1 DEF Records, Flags
    <2> QED
      BY <1>2, <1>3, <1>6, <2>2 DEF MadeUnrecorded, OpenRecs
  <1>7. CASE FreeRecs # {}
    <2> DEFINE i == Least(FreeRecs)
               new == [sd |-> sd, dev |-> k.dev, flags |-> FirstFlags(k)]
    <2>1. i \in FreeRecs
      BY <1>7, LeastProperties DEF FreeRecs, Recs
    <2>2. Recorded(sd, k) = [socks EXCEPT ![i] = new]
      BY <1>7 DEF Recorded, NewFlags, FirstFlags
    <2>3. FirstFlags(k) \cup {k.proto} = FirstFlags(k)
      BY DEF FirstFlags
    <2> HIDE DEF i
    <2>4. [[socks EXCEPT ![i] = new] EXCEPT ![i].flags = @ \cup {k.proto}]
             = [socks EXCEPT ![i] = new]
      <3>1. [new EXCEPT !.flags = new.flags \cup {k.proto}] = new
        BY <2>3
      <3>2. [socks EXCEPT ![i] = new] \in [Recs -> Records \cup {new}]
            /\ [socks EXCEPT ![i] = new][i] = new
        BY <1>5, <2>1 DEF FreeRecs
      <3> HIDE DEF new
      <3> QED
        BY <2>1, <3>1, <3>2 DEF FreeRecs
    <2>5. socks' = [socks EXCEPT ![i] = new]
      BY <1>1, <1>7, <2>2, <2>4 DEF i
    <2>6. MadeIn(k, sd, i)
      BY <1>2, <1>3, <2>5 DEF MadeIn
    <2> QED
      BY <2>1, <2>6
  <1> QED
    BY <1>6, <1>7

\* Whoever leaves the table and the descriptors alone keeps what is said of them.
LEMMA TableUndisturbed ==
    ASSUME IInv, UNCHANGED <<socks, fds, lost>>
    PROVE  Accounted' /\ Reachable' /\ Described'
  BY DEF IInv, Accounted, Reachable, Described, Describes, Matches, OpenRecs, ShellFds

\* A new socket in a free record.
LEMMA MadeInKeeps ==
    ASSUME IInv, NEW k \in Kinds, NEW sd \in Fds, NEW i \in FreeRecs, MadeIn(k, sd, i)
    PROVE  Accounted' /\ Reachable' /\ Described'
  <1> DEFINE new == [sd |-> sd, dev |-> k.dev, flags |-> FirstFlags(k)]
  <1>1. /\ fds \in [Fds -> Sockets] /\ socks \in [Recs -> Records] /\ lost \in Nat
        /\ i \in Recs /\ i \notin OpenRecs /\ sd \notin ShellFds
    BY SocketKinds, ConstAssumption
       DEF IInv, TypeOK, Sockets, Records, ShellSockets, FreeRecs, OpenRecs, ShellFds, MadeIn
  <1>2. /\ socks'[i] = new /\ \A j \in Recs \ {i} : socks'[j] = socks[j]
        /\ fds'[sd] = Socket(k) /\ \A d \in Fds \ {sd} : fds'[d] = fds[d]
        /\ lost' = lost
    BY <1>1 DEF MadeIn
  <1>3. "open" \in new.flags /\ new.sd = sd
    BY DEF FirstFlags
  <1>4. OpenRecs' = OpenRecs \cup {i}
    BY <1>1, <1>2, <1>3 DEF OpenRecs
  <1>5. ShellFds' = ShellFds \cup {sd}
    BY <1>1, <1>2, SocketKinds DEF ShellFds, ShellSockets
  <1>6. Accounted'
    <2>1. Cardinality(OpenRecs') = Cardinality(OpenRecs) + 1
      BY <1>1, <1>4, FiniteTable, FS_AddElement
    <2>2. Cardinality(ShellFds') = Cardinality(ShellFds) + 1
      BY <1>1, <1>5, FiniteTable, FS_AddElement
    <2>3. Cardinality(OpenRecs') \in Nat
      BY <1>4, FiniteTable, FS_AddElement, FS_CardinalityType
    <2> QED
      BY <1>1, <1>2, <2>1, <2>2, <2>3, FiniteTable DEF IInv, Accounted
  <1>7. Reachable'
    <2> SUFFICES ASSUME MaxFds + lost <= MaxSockRec, NEW d \in ShellFds \cup {sd}
                 PROVE  Matches(d)' # {}
      BY <1>2, <1>5 DEF Reachable
    <2>1. CASE d = sd
      BY <1>1, <1>2, <1>3, <2>1 DEF Matches
    <2>2. CASE d # sd
      <3>1. PICK j \in Recs : j \in Matches(d)
        BY <2>2 DEF IInv, Reachable, Matches
      <3>2. j # i
        BY <1>1, <3>1 DEF Matches, OpenRecs
      <3> QED
        BY <1>2, <3>1, <3>2 DEF Matches
    <2> QED
      BY <2>1, <2>2
  <1>8. Described'
    <2> SUFFICES ASSUME lost = 0 PROVE Described'
      BY <1>2 DEF Described
    <2>1. \A j \in OpenRecs : Describes(socks[j]) /\ socks[j].sd \in ShellFds
      BY <1>1 DEF IInv, Described, Describes, OpenRecs, ShellFds, Records
    <2>2. \A j \in OpenRecs : socks[j].sd # sd /\ j # i
      BY <1>1, <2>1
    <2>3. \A j \in OpenRecs : Describes(socks[j])'
      <3> SUFFICES ASSUME NEW j \in OpenRecs PROVE Describes(socks[j])'
        OBVIOUS
      <3>1. socks'[j] = socks[j] /\ j \in Recs
        BY <1>2, <2>2 DEF OpenRecs
      <3>2. fds'[socks[j].sd] = fds[socks[j].sd]
        BY <1>2, <2>1, <2>2 DEF ShellFds
      <3> QED
        BY <2>1, <3>1, <3>2 DEF Describes
    <2>4. Describes(socks[i])'
      BY <1>2, SocketKinds DEF Describes, ShellSockets, FirstFlags
    <2>5. \A j, l \in OpenRecs' : socks'[j].sd = socks'[l].sd => j = l
      <3>1. \A j \in OpenRecs : socks'[j].sd = socks[j].sd
        BY <1>2, <2>2 DEF OpenRecs
      <3> QED
        BY <1>2, <1>3, <1>4, <2>2, <3>1 DEF IInv, Described
    <2> QED
      BY <1>4, <2>3, <2>4, <2>5 DEF Described
  <1> QED
    BY <1>6, <1>7, <1>8

\* A new socket without a record: the records no longer suffice.
LEMMA MadeUnrecordedKeeps ==
    ASSUME IInv, NEW k \in Kinds, NEW sd \in Fds, FreeRecs = {}, MadeUnrecorded(k, sd)
    PROVE  Accounted' /\ Reachable' /\ Described'
  <1>1. fds \in [Fds -> Sockets] /\ lost \in Nat /\ sd \notin ShellFds
    BY SocketKinds, ConstAssumption
       DEF IInv, TypeOK, Sockets, ShellSockets, ShellFds, MadeUnrecorded
  <1>2. ~(MaxFds + lost <= MaxSockRec)
    BY <1>1, RecordForSocket DEF IInv
  <1>3. lost' = lost /\ OpenRecs' = OpenRecs
    BY DEF MadeUnrecorded
  <1>4. ShellFds' = ShellFds \cup {sd}
    BY <1>1, SocketKinds DEF ShellFds, ShellSockets, MadeUnrecorded
  <1>5. Accounted'
    <2>1. Cardinality(ShellFds') = Cardinality(ShellFds) + 1
      BY <1>1, <1>4, FiniteTable, FS_AddElement
    <2> QED
      BY <1>1, <1>3, <2>1, FiniteTable DEF IInv, Accounted
  <1>6. lost # 0
    BY <1>2, ConstAssumption
  <1> QED
    BY <1>2, <1>3, <1>5, <1>6 DEF Reachable, Described

\* The record a command takes is an open one of its descriptor.  Before a close has
\* failed it is the only one, and the socket is one of the shell.
LEMMA FirstMatch ==
    ASSUME IInv, NEW sd \in Fds, Matches(sd) # {}
    PROVE  /\ sock_idx(sd) \in OpenRecs /\ socks[sock_idx(sd)].sd = sd
           /\ lost = 0 => /\ sd \in ShellFds
                          /\ \A j \in OpenRecs : socks[j].sd = sd => j = sock_idx(sd)
  <1>1. sock_idx(sd) \in Matches(sd)
    BY LeastProperties DEF sock_idx, Matches, Recs
  <1>2. sock_idx(sd) \in OpenRecs /\ socks[sock_idx(sd)].sd = sd
    BY <1>1 DEF Matches, OpenRecs
  <1> QED
    BY <1>2 DEF IInv, Described, Describes, ShellFds

\* A socket that is not the shell's is opened or closed.
LEMMA OtherKeeps ==
    ASSUME IInv, NEW sd \in Fds, sd \notin ShellFds, NEW s \in {Closed, OtherSocket},
           fds' = [fds EXCEPT ![sd] = s], UNCHANGED <<socks, lost>>
    PROVE  Accounted' /\ Reachable' /\ Described'
  <1>1. fds \in [Fds -> Sockets] /\ s.owner # "shell"
    BY DEF IInv, TypeOK, Sockets, ShellSockets, Closed, OtherSocket
  <1>2. ShellFds' = ShellFds /\ OpenRecs' = OpenRecs
    BY <1>1 DEF ShellFds, OpenRecs
  <1>3. Accounted' /\ Reachable'
    BY <1>2 DEF IInv, Accounted, Reachable, Matches
  <1>4. lost = 0 => \A j \in OpenRecs : fds'[socks[j].sd] = fds[socks[j].sd]
    <2> SUFFICES ASSUME lost = 0, NEW j \in OpenRecs PROVE fds'[socks[j].sd] = fds[socks[j].sd]
      OBVIOUS
    <2>1. socks[j].sd \in Fds /\ fds[socks[j].sd].owner = "shell"
      BY DEF IInv, TypeOK, Described, Describes, OpenRecs
    <2> QED
      BY <1>1, <2>1 DEF ShellFds
  <1>5. Described'
    BY <1>2, <1>4 DEF IInv, Described, Describes
  <1> QED
    BY <1>3, <1>5

\* A socket is connected, and so is its record.
LEMMA ConnectKeeps ==
    ASSUME IInv, NEW sd \in Fds, sock_connect(sd)
    PROVE  Accounted' /\ Reachable' /\ Described'
  <1> DEFINE i == sock_idx(sd)
  <1>1. /\ fds \in [Fds -> Sockets] /\ socks \in [Recs -> Records]
        /\ i \in Recs /\ i \in OpenRecs /\ socks[i].sd = sd
    BY FirstMatch DEF IInv, TypeOK, Sockets, Records, ShellSockets, OpenRecs, sock_connect
  <1>2. /\ socks' = [socks EXCEPT ![i].flags = @ \cup {"connected"}]
        /\ fds' = IF fds[sd] = OtherSocket THEN fds ELSE [fds EXCEPT ![sd].connected = TRUE]
        /\ lost' = lost /\ fds[sd] # Closed
    BY DEF sock_connect
  <1> HIDE DEF i
  <1>3. /\ \A j \in Recs : socks'[j].sd = socks[j].sd /\ socks'[j].dev = socks[j].dev
        /\ \A j \in Recs \ {i} : socks'[j].flags = socks[j].flags
        /\ socks'[i].flags = socks[i].flags \cup {"connected"}
    BY <1>1, <1>2 DEF Records
  <1>4. /\ \A d \in Fds \ {sd} : fds'[d] = fds[d]
        /\ fds[sd] = OtherSocket => fds'[sd] = fds[sd]
        /\ fds[sd] # OtherSocket => /\ fds[sd] \in ShellSockets
                                    /\ fds'[sd] = [fds[sd] EXCEPT !.connected = TRUE]
    BY <1>1, <1>2 DEF Sockets
  <1>5. ShellFds' = ShellFds /\ OpenRecs' = OpenRecs
    <2>1. \A d \in Fds : fds'[d].owner = "shell" <=> fds[d].owner = "shell"
      BY <1>1, <1>4, SocketKinds DEF ShellSockets
    <2>2. \A j \in Recs : "open" \in socks'[j].flags <=> "open" \in socks[j].flags
      BY <1>3
    <2> QED
      BY <2>1, <2>2 DEF ShellFds, OpenRecs
  <1>6. \A d \in Fds : Matches(d)' = Matches(d)
    BY <1>3 DEF Matches
  <1>7. Accounted' /\ Reachable'
    BY <1>2, <1>5, <1>6 DEF IInv, Accounted, Reachable, ShellFds
  <1>8. Described'
    <2> SUFFICES ASSUME lost = 0, NEW j \in OpenRecs PROVE Describes(socks[j])'
      BY <1>2, <1>3, <1>5 DEF IInv, Described, OpenRecs
    <2>1. Describes(socks[j]) /\ j \in Recs /\ socks[j].sd \in Fds
      BY <1>1 DEF IInv, Described, OpenRecs, Records
    <2>2. CASE j # i
      <3>1. socks[j].sd # sd
        BY <1>1, <2>2 DEF IInv, Described
      <3>2. fds'[socks[j].sd] = fds[socks[j].sd]
        BY <1>4, <2>1, <3>1
      <3> QED
        BY <1>3, <2>1, <2>2, <3>2 DEF Describes
    <2>3. CASE j = i
      <3>1. /\ fds[sd] \in ShellSockets /\ fds'[sd].owner = "shell"
            /\ fds'[sd].kind = fds[sd].kind /\ fds'[sd].connected
        BY <1>1, <1>4, <2>1, <2>3, SocketKinds DEF Describes, ShellSockets
      <3>2. fds[sd].connected \in BOOLEAN
        BY <3>1 DEF ShellSockets
      <3> QED
        BY <1>1, <1>3, <2>1, <2>3, <3>1, <3>2 DEF Describes
    <2> QED
      BY <2>2, <2>3
  <1> QED
    BY <1>7, <1>8

\* A socket is closed and its record freed.
LEMMA CloseKeeps ==
    ASSUME IInv, NEW sd \in Fds, sock_close(sd)
    PROVE  Accounted' /\ Reachable' /\ Described'
  <1> DEFINE i == sock_idx(sd)
  <1>1. /\ fds \in [Fds -> Sockets] /\ socks \in [Recs -> Records] /\ lost \in Nat
        /\ i \in Recs /\ i \in OpenRecs /\ socks[i].sd = sd
    BY FirstMatch, ConstAssumption
       DEF IInv, TypeOK, Sockets, Records, ShellSockets, OpenRecs, sock_close
  <1>2. lost = 0 => \A j \in OpenRecs : socks[j].sd = sd => j = i
    BY FirstMatch DEF sock_close
  <1>3. /\ socks' = [socks EXCEPT ![i].flags = @ \ {"open"}]
        /\ fds' = [fds EXCEPT ![sd] = Closed] /\ lost' = lost
    BY DEF sock_close, AfterClose
  <1> HIDE DEF i
  <1>4. /\ \A j \in Recs \ {i} : socks'[j] = socks[j]
        /\ "open" \notin socks'[i].flags
        /\ \A d \in Fds \ {sd} : fds'[d] = fds[d]
        /\ fds'[sd] = Closed /\ Closed.owner # "shell"
    BY <1>1, <1>3 DEF Records, Closed
  <1>5. ShellFds' = ShellFds \ {sd} /\ OpenRecs' = OpenRecs \ {i}
    BY <1>1, <1>4 DEF ShellFds, OpenRecs
  <1>6. Accounted'
    <2>1. Cardinality(OpenRecs') = Cardinality(OpenRecs) - 1
      BY <1>1, <1>5, FiniteTable, FS_RemoveElement
    <2>2. Cardinality(ShellFds') \in {Cardinality(ShellFds), Cardinality(ShellFds) - 1}
      BY <1>5, FiniteTable, FS_RemoveElement
    <2> QED
      BY <1>1, <1>3, <2>1, <2>2, FiniteTable DEF IInv, Accounted
  <1>7. Reachable'
    <2>1. \A d \in Fds \ {sd} : Matches(d)' = Matches(d)
      BY <1>1, <1>4 DEF Matches
    <2> QED
      BY <1>3, <1>5, <2>1 DEF IInv, Reachable, ShellFds
  <1>8. Described'
    <2> SUFFICES ASSUME lost = 0, NEW j \in OpenRecs', NEW l \in OpenRecs'
                 PROVE  Describes(socks[j])' /\ (socks'[j].sd = socks'[l].sd => j = l)
      BY <1>3 DEF Described
    <2>1. /\ j \in OpenRecs /\ l \in OpenRecs /\ j \in Recs
          /\ socks'[j] = socks[j] /\ socks'[l] = socks[l] /\ socks[j].sd # sd
      BY <1>2, <1>4, <1>5 DEF OpenRecs
    <2>2. fds'[socks[j].sd] = fds[socks[j].sd]
      BY <1>1, <1>4, <2>1 DEF Records
    <2> QED
      BY <2>1, <2>2 DEF IInv, Described, Describes
  <1> QED
    BY <1>6, <1>7, <1>8

\* A close fails: the socket is gone, the record is not.
LEMMA CloseFailsKeeps ==
    ASSUME IInv, NEW sd \in Fds, CloseFails(sd)
    PROVE  Accounted' /\ Reachable' /\ Described'
  <1>1. fds \in [Fds -> Sockets] /\ lost \in Nat /\ MaxFds \in Nat /\ MaxSockRec \in Nat
    BY ConstAssumption DEF IInv, TypeOK, Sockets, ShellSockets
  <1>2. /\ fds' = [fds EXCEPT ![sd] = Closed] /\ Closed.owner # "shell"
        /\ lost' = lost + 1 /\ socks' = socks
    BY DEF CloseFails, Closed
  <1>3. ShellFds' = ShellFds \ {sd} /\ OpenRecs' = OpenRecs
    BY <1>1, <1>2 DEF ShellFds, OpenRecs
  <1>4. Accounted'
    <2>1. Cardinality(ShellFds') \in {Cardinality(ShellFds), Cardinality(ShellFds) - 1}
      BY <1>3, FiniteTable, FS_RemoveElement
    <2> QED
      BY <1>1, <1>2, <1>3, <2>1, FiniteTable DEF IInv, Accounted
  <1>5. Reachable'
    BY <1>1, <1>2, <1>3 DEF IInv, Reachable, Matches
  <1>6. Described'
    BY <1>1, <1>2 DEF Described
  <1> QED
    BY <1>4, <1>5, <1>6

-----------------------------------------------------------------------------
(* The transfers                                                           *)

\* What was moved so far and n units more are the first units, in order.
LEMMA InOrderProperties ==
    ASSUME NEW m \in Nat, NEW n \in Nat
    PROVE  [i \in 1 .. m |-> i] \o [i \in 1 .. n |-> m + i] = [i \in 1 .. m + n |-> i]
  <1> DEFINE s == [i \in 1 .. m |-> i]
             t == [i \in 1 .. n |-> m + i]
             u == [i \in 1 .. m + n |-> i]
  <1>1. /\ s \in Seq(Nat) /\ Len(s) = m
        /\ t \in Seq(Nat) /\ Len(t) = n
        /\ u \in Seq(Nat) /\ Len(u) = m + n
    OBVIOUS
  <1>2. /\ s \o t \in Seq(Nat) /\ Len(s \o t) = m + n
        /\ \A i \in 1 .. m + n : (s \o t)[i] = IF i <= m THEN s[i] ELSE t[i - m]
    BY <1>1, ConcatProperties
  <1>3. \A i \in 1 .. m + n : (s \o t)[i] = u[i]
    BY <1>2
  <1> HIDE DEF s, t, u
  <1>4. s \o t = u
    BY <1>1, <1>2, <1>3, SeqEqual
  <1> QED
    BY <1>4 DEF s, t, u

\* What a transfer is asked for fits what is left of it.
LEMMA AskedFits ==
    ASSUME TypeOK, BulkInOrder, GoesOn
    PROVE  Asked \in Nat /\ xfer.total + Asked <= xfer.size
  BY ConstAssumption DEF TypeOK, BulkInOrder, GoesOn, Asked, AtMost

\* A part of a transfer is sent or received.
LEMMA PartStep ==
    ASSUME TypeOK, BulkInOrder, NEW n \in 0 .. XferSize, SendPart(n) \/ RecvPart(n)
    PROVE  /\ xfer' \in [op : {"none", "sendb", "recvb"}, sd : Fds, size : 0 .. XferSize,
                         total : 0 .. XferSize, again : BOOLEAN, eof : BOOLEAN,
                         phase : {"idle", "loop", "sleep", "failed", "complete"}]
           /\ moved' \in Seq(Nat) /\ BulkInOrder'
           /\ UNCHANGED <<socks, fds, max_fragment, lost>>
  <1> DEFINE total == xfer.total + n
  <1>1. GoesOn /\ n \in 0 .. Asked /\ moved' = moved \o [i \in 1 .. n |-> xfer.total + i]
        /\ UNCHANGED <<socks, fds, max_fragment, lost>>
    BY DEF SendPart, RecvPart, Crossing
  <1>2. /\ xfer.total \in Nat /\ xfer.size \in 0 .. XferSize /\ XferSize \in Nat
        /\ n \in Nat /\ total \in 0 .. XferSize /\ total <= xfer.size
    BY <1>1, AskedFits, ConstAssumption DEF TypeOK
  <1>3. /\ xfer'.total = total /\ xfer'.size = xfer.size /\ xfer'.phase = "loop"
        /\ xfer' \in [op : {"none", "sendb", "recvb"}, sd : Fds, size : 0 .. XferSize,
                      total : 0 .. XferSize, again : BOOLEAN, eof : BOOLEAN,
                      phase : {"idle", "loop", "sleep", "failed", "complete"}]
    BY <1>2 DEF SendPart, RecvPart, InLoop, Advance, TypeOK
  <1>4. moved' = [i \in 1 .. total |-> i]
    BY <1>1, <1>2, InOrderProperties DEF BulkInOrder
  <1>5. moved' \in Seq(Nat)
    BY <1>2, <1>4
  <1> QED
    BY <1>1, <1>2, <1>3, <1>4, <1>5 DEF BulkInOrder

-----------------------------------------------------------------------------
(* The types and the transfers                                             *)

\* The transfers there are.
Xfers == [op : {"none", "sendb", "recvb"}, sd : Fds, size : 0 .. XferSize,
          total : 0 .. XferSize, again : BOOLEAN, eof : BOOLEAN,
          phase : {"idle", "loop", "sleep", "failed", "complete"}]

\* The types of TypeOK by name.
LEMMA TypesByName ==
    TypeOK <=> /\ socks \in [Recs -> Records] /\ fds \in [Fds -> Sockets]
               /\ max_fragment \in 1 .. MaxFragment /\ xfer \in Xfers
               /\ moved \in Seq(Nat) /\ lost \in 0 .. MaxLost
               /\ strayed \in {"none", "sms", "socket"}
  BY DEF TypeOK, Records, Sockets, ShellSockets, Xfers

\* Whose descriptor a step calls the driver for.
LEMMA StrayedType == TypeOK /\ [Next]_vars => strayed' \in {"none", "sms", "socket"}
  BY DEF TypeOK, Next, vars, Create, Use, Other, Transfer, tcp_create_core, udp_create_core,
         tcp_create_tls_core, udp_create_dtls_core, PlainCreate, SecureCreate, sock_connect,
         sock_close, CloseFails, sock_sendsms, sock_recvsms, TextMessage, OtherOpens,
         OtherCloses, sock_mxfragment, sock_sendb, sock_recvb, Bulk, SendPart, RecvPart,
         Crossing, RecvAgain, Wakes, BulkFails, BulkComplete, Ends, BulkReturns, CallFor,
         NoCall

\* Every step keeps the types, and the order of what is moved.
LEMMA TypeStep == IInv /\ [Next]_vars => TypeOK' /\ BulkInOrder'
  <1> SUFFICES ASSUME IInv, [Next]_vars PROVE TypeOK' /\ BulkInOrder'
    OBVIOUS
  <1>20. strayed' \in {"none", "sms", "socket"}
    BY StrayedType DEF IInv
  <1>1. /\ socks \in [Recs -> Records] /\ fds \in [Fds -> Sockets]
        /\ max_fragment \in 1 .. MaxFragment /\ xfer \in Xfers
        /\ moved \in Seq(Nat) /\ lost \in 0 .. MaxLost
    BY TypesByName DEF IInv
  <1>2. ASSUME socks' \in [Recs -> Records], fds' \in [Fds -> Sockets],
               lost' \in 0 .. MaxLost, UNCHANGED <<max_fragment, xfer, moved>>
        PROVE  TypeOK' /\ BulkInOrder'
    BY <1>1, <1>20, <1>2, TypesByName DEF IInv, BulkInOrder, TypeOK, Records, Sockets, ShellSockets,
                                   Xfers
  <1>3. ASSUME xfer' \in Xfers, xfer'.total = xfer.total, xfer'.size = xfer.size,
               xfer'.phase = "complete" => xfer'.total = xfer'.size,
               UNCHANGED <<socks, fds, max_fragment, moved, lost>>
        PROVE  TypeOK' /\ BulkInOrder'
    BY <1>1, <1>20, <1>3 DEF IInv, BulkInOrder, TypeOK, Records, Sockets, ShellSockets, Xfers
  <1>4. ASSUME xfer' \in Xfers, xfer'.total = 0, xfer'.phase # "complete", moved' = <<>>,
               UNCHANGED <<socks, fds, max_fragment, lost>>
        PROVE  TypeOK' /\ BulkInOrder'
    <2>1. xfer'.size \in Nat /\ moved' \in Seq(Nat)
      BY <1>4, ConstAssumption DEF Xfers
    <2>2. moved' = [i \in 1 .. xfer'.total |-> i]
      BY <1>4
    <2> QED
      BY <1>1, <1>20, <1>4, <2>1, <2>2
         DEF BulkInOrder, TypeOK, Records, Sockets, ShellSockets, Xfers
  <1>5. ASSUME NEW k \in Kinds, PlainCreate(k) \/ SecureCreate(k)
        PROVE  TypeOK' /\ BulkInOrder'
    <2>1. PICK sd \in Fds : MadeUnrecorded(k, sd) \/ \E i \in FreeRecs : MadeIn(k, sd, i)
      BY <1>5, CreateStep DEF IInv
    <2>2. fds' \in [Fds -> Sockets] /\ UNCHANGED <<max_fragment, xfer, moved, lost>>
      <3>1. fds \in [Fds -> Sockets] /\ Socket(k) \in Sockets
        BY <1>1, SocketKinds DEF Sockets
      <3>2. /\ fds' = [fds EXCEPT ![sd] = Socket(k)]
            /\ UNCHANGED <<max_fragment, xfer, moved, lost>>
        BY <2>1 DEF MadeUnrecorded, MadeIn
      <3> QED
        BY <3>1, <3>2
    <2>3. ASSUME NEW i \in FreeRecs, MadeIn(k, sd, i) PROVE socks' \in [Recs -> Records]
      <3>1. [sd |-> sd, dev |-> k.dev, flags |-> FirstFlags(k)] \in Records
        BY ConstAssumption DEF Records, FirstFlags, Flags, Protos
      <3> QED
        BY <1>1, <2>3, <3>1 DEF MadeIn
    <2>4. socks' \in [Recs -> Records]
      BY <2>1, <2>3 DEF MadeUnrecorded
    <2> QED
      BY <1>1, <1>2, <2>2, <2>4
  <1>6. ASSUME NEW sd \in Fds, sock_connect(sd) PROVE TypeOK' /\ BulkInOrder'
    <2>1. sock_idx(sd) \in Recs
      BY <1>6, FirstMatch DEF sock_connect, OpenRecs
    <2>2. socks' \in [Recs -> Records]
      BY <1>1, <1>6, <2>1 DEF sock_connect, Records, Flags
    <2>3. fds' \in [Fds -> Sockets]
      <3>1. fds[sd] # OtherSocket => fds[sd] \in ShellSockets
        BY <1>1, <1>6 DEF sock_connect, Sockets
      <3>2. fds[sd] # OtherSocket => [fds[sd] EXCEPT !.connected = TRUE] \in Sockets
        BY <3>1, SocketKinds DEF Sockets
      <3> QED
        BY <1>1, <1>6, <3>2 DEF sock_connect
    <2> QED
      BY <1>1, <1>2, <1>6, <2>2, <2>3 DEF sock_connect
  <1>7. ASSUME NEW sd \in Fds, sock_close(sd) PROVE TypeOK' /\ BulkInOrder'
    <2>1. sock_idx(sd) \in Recs
      BY <1>7, FirstMatch DEF sock_close, OpenRecs
    <2>2. socks' \in [Recs -> Records] /\ fds' \in [Fds -> Sockets]
      BY <1>1, <1>7, <2>1 DEF sock_close, AfterClose, Records, Sockets
    <2> QED
      BY <1>1, <1>2, <1>7, <2>2 DEF sock_close
  <1>8. ASSUME NEW sd \in Fds, CloseFails(sd) PROVE TypeOK' /\ BulkInOrder'
    <2>1. fds' \in [Fds -> Sockets] /\ lost' \in 0 .. MaxLost
      BY <1>1, <1>8, ConstAssumption DEF CloseFails, Sockets
    <2> QED
      BY <1>1, <1>2, <1>8, <2>1 DEF CloseFails
  <1>9. CASE Other
    BY <1>1, <1>2, <1>9 DEF Other, OtherOpens, OtherCloses, Opens, Sockets
  <1>10. ASSUME NEW n \in 0 .. XferSize, SendPart(n) \/ RecvPart(n)
         PROVE  TypeOK' /\ BulkInOrder'
    BY <1>1, <1>20, <1>10, PartStep, TypesByName
       DEF IInv, TypeOK, Records, Sockets, ShellSockets, Xfers
  <1>11. ASSUME NEW op \in {"sendb", "recvb"}, NEW sd \in Fds, NEW size \in Sizes,
                Bulk(op, sd, size)
         PROVE  TypeOK' /\ BulkInOrder'
    <2>1. AtMost(size, XferSize) \in 0 .. XferSize
      BY ConstAssumption DEF AtMost
    <2>2. NoXfer.total = 0 /\ 0 \in 0 .. XferSize
      BY ConstAssumption DEF NoXfer
    <2>3. xfer' \in Xfers /\ xfer'.total = 0 /\ xfer'.phase # "complete"
      BY <1>11, <2>1, <2>2 DEF Bulk, NoXfer, Xfers
    <2> QED
      BY <1>4, <1>11, <2>3 DEF Bulk
  <1>12. CASE RecvAgain
    BY <1>1, <1>3, <1>12 DEF RecvAgain, Xfers
  <1>13. CASE Wakes
    BY <1>1, <1>3, <1>13 DEF Wakes, Waited, Xfers
  <1>14. CASE BulkFails
    BY <1>1, <1>3, <1>14 DEF BulkFails, Ends, Xfers
  <1>15. CASE BulkComplete
    <2>1. xfer.total = xfer.size
      BY <1>1, <1>15, ConstAssumption DEF BulkComplete, GoesOn, IInv, BulkInOrder, Xfers
    <2> QED
      BY <1>1, <1>3, <1>15, <2>1 DEF BulkComplete, Ends, Xfers
  <1>16. CASE BulkReturns
    <2>1. NoXfer \in Xfers /\ NoXfer.total = 0 /\ NoXfer.phase = "idle"
      BY ConstAssumption DEF NoXfer, Xfers, Fds
    <2> QED
      BY <1>4, <1>16, <2>1 DEF BulkReturns
  <1>17. ASSUME NEW arg \in FragmentArgs, sock_mxfragment(arg) PROVE TypeOK' /\ BulkInOrder'
    <2>1. Fragment(arg) \in 1 .. MaxFragment
      BY ConstAssumption DEF Fragment, AtMost
    <2> QED
      BY <1>1, <1>20, <1>17, <2>1 DEF sock_mxfragment, IInv, BulkInOrder, TypeOK, Records, Sockets,
                              ShellSockets, Xfers
  <1>18. CASE UNCHANGED vars
    BY <1>1, <1>2, <1>18 DEF vars
  <1>19. ASSUME NEW sd \in Fds, TextMessage(sd) PROVE TypeOK' /\ BulkInOrder'
    BY <1>1, <1>2, <1>19 DEF TextMessage
  <1> QED
    BY <1>5, <1>6, <1>7, <1>8, <1>9, <1>10, <1>11, <1>12, <1>13, <1>14, <1>15, <1>16, <1>17,
       <1>18, <1>19
       DEF Next, Create, Use, Transfer, tcp_create_core, udp_create_core, tcp_create_tls_core,
           udp_create_dtls_core, sock_sendb, sock_recvb, sock_sendsms, sock_recvsms

-----------------------------------------------------------------------------
(* The theorems                                                            *)

\* At first nothing is open, and nothing recorded.
LEMMA InitInv == Init => IInv
  <1> SUFFICES ASSUME Init PROVE IInv
    OBVIOUS
  <1>1. OpenRecs = {} /\ ShellFds = {} /\ lost = 0
    BY DEF Init, OpenRecs, ShellFds, Closed
  <1>2. socks \in [Recs -> Records] /\ fds \in [Fds -> Sockets] /\ max_fragment \in 1 .. MaxFragment
    <2>1. 0 \in Fds
      BY ConstAssumption DEF Fds
    <2> QED
      BY <2>1, ConstAssumption DEF Init, Records, Sockets
  <1>3. xfer \in Xfers /\ xfer.total = 0 /\ xfer.size = 0 /\ xfer.phase = "idle" /\ moved = <<>>
    <2>1. NoXfer \in Xfers /\ NoXfer.total = 0 /\ NoXfer.size = 0 /\ NoXfer.phase = "idle"
      BY ConstAssumption DEF NoXfer, Xfers, Fds
    <2> QED
      BY <2>1 DEF Init
  <1>4. TypeOK
    BY <1>1, <1>2, <1>3, ConstAssumption, TypesByName DEF Init
  <1>5. BulkInOrder
    <2>1. moved = [i \in 1 .. xfer.total |-> i]
      BY <1>3
    <2> QED
      BY <1>3, <2>1 DEF BulkInOrder
  <1>6. Accounted
    BY <1>1, FS_EmptySet DEF Accounted
  <1> QED
    BY <1>1, <1>4, <1>5, <1>6 DEF IInv, Reachable, Described

\* Every step keeps the inductive invariant.
LEMMA InvStep == IInv /\ [Next]_vars => IInv'
  <1> SUFFICES ASSUME IInv, [Next]_vars PROVE Accounted' /\ Reachable' /\ Described'
    BY TypeStep DEF IInv
  <1>1. ASSUME NEW k \in Kinds, PlainCreate(k) \/ SecureCreate(k)
        PROVE  Accounted' /\ Reachable' /\ Described'
    <2>1. PICK sd \in Fds :
              \/ FreeRecs = {} /\ MadeUnrecorded(k, sd)
              \/ \E i \in FreeRecs : MadeIn(k, sd, i)
      BY <1>1, CreateStep DEF IInv
    <2> QED
      BY <2>1, MadeInKeeps, MadeUnrecordedKeeps
  <1>2. ASSUME NEW sd \in Fds, sock_connect(sd) \/ sock_close(sd) \/ CloseFails(sd)
        PROVE  Accounted' /\ Reachable' /\ Described'
    BY <1>2, ConnectKeeps, CloseKeeps, CloseFailsKeeps
  <1>3. CASE OtherOpens
    <2>1. PICK sd \in Fds : Opens(sd, OtherSocket)
      BY <1>3 DEF OtherOpens
    <2>2. {d \in Fds : fds[d] = Closed} \in SUBSET Nat /\ {d \in Fds : fds[d] = Closed} # {}
      BY <2>1 DEF Opens, Fds
    <2>3. fds[sd] = Closed /\ sd \notin ShellFds
      BY <2>1, <2>2, LeastProperties DEF Opens, ShellFds, Closed
    <2> QED
      BY <1>3, <2>1, <2>3, OtherKeeps DEF OtherOpens, Opens
  <1>4. ASSUME NEW sd \in Fds, OtherCloses(sd)
        PROVE  Accounted' /\ Reachable' /\ Described'
    BY <1>4, OtherKeeps DEF OtherCloses, ShellFds
  <1>5. CASE Transfer
    <2>1. UNCHANGED <<socks, fds, lost>>
      BY <1>5 DEF Transfer, SendPart, RecvPart, Crossing, RecvAgain, Wakes, BulkFails,
                  BulkComplete, Ends, BulkReturns
    <2> QED
      BY <2>1, TableUndisturbed
  <1>6. ASSUME NEW sd \in Fds, NEW size \in Sizes, sock_sendb(sd, size) \/ sock_recvb(sd, size)
        PROVE  Accounted' /\ Reachable' /\ Described'
    BY <1>6, TableUndisturbed DEF sock_sendb, sock_recvb, Bulk
  <1>7. ASSUME NEW arg \in FragmentArgs, sock_mxfragment(arg)
        PROVE  Accounted' /\ Reachable' /\ Described'
    BY <1>7, TableUndisturbed DEF sock_mxfragment
  <1>8. CASE UNCHANGED vars
    BY <1>8, TableUndisturbed DEF vars
  <1>9. ASSUME NEW sd \in Fds, TextMessage(sd) PROVE Accounted' /\ Reachable' /\ Described'
    BY <1>9, TableUndisturbed DEF TextMessage
  <1> QED
    BY <1>1, <1>2, <1>3, <1>4, <1>5, <1>6, <1>7, <1>8, <1>9
       DEF Next, Create, Use, Other, tcp_create_core, udp_create_core, tcp_create_tls_core,
           udp_create_dtls_core, sock_sendsms, sock_recvsms

\* The inductive invariant holds in every run of the shell.
THEOREM SocketInvariant == Spec => []IInv
  <1> QED
    BY InitInv, InvStep, PTL DEF Spec

\* Every open socket of the shell is in exactly one record, which describes it, until a
\* close fails; and from then on in one at least, while there are enough records.
THEOREM EverySocketRecorded == Spec => []OneRecord
  <1>1. IInv => OneRecord
    <2> SUFFICES ASSUME IInv PROVE OneRecord
      OBVIOUS
    <2>1. ASSUME NEW sd \in Fds, fds[sd].owner = "shell", MaxFds + lost <= MaxSockRec
          PROVE  Matches(sd) # {}
      BY <2>1 DEF IInv, Reachable, ShellFds
    <2>2. ASSUME NEW sd \in Fds, fds[sd].owner = "shell", lost = 0
          PROVE  \E i \in Recs : Matches(sd) = {i}
      <3>1. Matches(sd) # {}
        BY <2>1, <2>2, ConstAssumption
      <3>2. PICK i \in Recs : i \in Matches(sd)
        BY <3>1 DEF Matches
      <3>3. \A j \in Matches(sd) : j = i
        BY <2>2, <3>2 DEF IInv, Described, Matches, OpenRecs
      <3> QED
        BY <3>2, <3>3
    <2> QED
      BY <2>1, <2>2 DEF OneRecord, IInv, Described, OpenRecs
  <1> QED
    BY <1>1, SocketInvariant, PTL

\* However a bulk transfer is cut into pieces, every unit crosses the socket once and in
\* order, and all of them have when the command ends without an error.
THEOREM EveryUnitInOrder == Spec => []BulkInOrder
  <1> QED
    BY SocketInvariant, PTL DEF IInv

\* The socket of a bulk transfer stays the shell's while it goes on.
OwnTransfer == ~Idle => xfer.sd \in ShellFds

\* A descriptor that is opened by another thread was free.
LEMMA OpensFree ==
    ASSUME NEW sd \in Fds, NEW s, Opens(sd, s)
    PROVE  fds[sd] = Closed /\ fds' = [fds EXCEPT ![sd] = s]
  <1>1. {d \in Fds : fds[d] = Closed} \in SUBSET Nat /\ {d \in Fds : fds[d] = Closed} # {}
    BY DEF Opens, Fds
  <1> QED
    BY <1>1, LeastProperties DEF Opens

\* A transfer is given a socket of the shell, and no other thread takes it away.
LEMMA OwnTransferStep == ASSUME IInv, OwnTransfer, [Next]_vars PROVE OwnTransfer'
  <1>1. fds \in [Fds -> Sockets] /\ xfer \in Xfers
    BY TypesByName DEF IInv
  <1>2. ASSUME xfer' = xfer, Idle PROVE OwnTransfer'
    BY <1>2 DEF OwnTransfer, Idle
  <1>3. CASE Create
    BY <1>2, <1>3 DEF Create, tcp_create_core, udp_create_core, tcp_create_tls_core,
                      udp_create_dtls_core, PlainCreate, SecureCreate
  <1>4. ASSUME NEW sd \in Fds, \/ sock_connect(sd) \/ sock_close(sd) \/ CloseFails(sd)
                                \/ TextMessage(sd)
        PROVE  OwnTransfer'
    BY <1>2, <1>4 DEF sock_connect, sock_close, CloseFails, TextMessage
  <1>5. ASSUME NEW sd \in Fds, NEW size \in Sizes, sock_sendb(sd, size) \/ sock_recvb(sd, size)
        PROVE  OwnTransfer'
    <2>1. Matches(sd) # {} /\ lost = 0 /\ xfer'.sd = sd /\ fds' = fds
      BY <1>5 DEF sock_sendb, sock_recvb, Bulk, BulkBound, NoXfer
    <2>2. sd \in ShellFds
      BY <2>1, FirstMatch
    <2> QED
      BY <2>1, <2>2 DEF OwnTransfer, ShellFds
  <1>6. CASE Other
    <2>1. PICK sd \in Fds : (OtherOpens /\ Opens(sd, OtherSocket)) \/ OtherCloses(sd)
      BY <1>6 DEF Other, OtherOpens
    <2>2. sd \notin ShellFds /\ \E s : fds' = [fds EXCEPT ![sd] = s]
      BY <2>1, OpensFree DEF OtherCloses, ShellFds, Closed
    <2>3. xfer' = xfer
      BY <2>1 DEF OtherOpens, OtherCloses
    <2> QED
      BY <1>1, <2>2, <2>3 DEF OwnTransfer, Idle, ShellFds
  <1>7. CASE Transfer
    <2>1. fds' = fds
      BY <1>7 DEF Transfer, SendPart, RecvPart, Crossing, RecvAgain, Wakes, BulkFails,
                  BulkComplete, Ends, BulkReturns
    <2>2. CASE BulkReturns
      BY <2>2 DEF BulkReturns, NoXfer, OwnTransfer, Idle
    <2>3. ASSUME ~BulkReturns PROVE xfer'.sd = xfer.sd /\ ~Idle
      <3>1. \/ \E n \in 0 .. XferSize : SendPart(n) \/ RecvPart(n)
            \/ RecvAgain \/ Wakes \/ BulkFails \/ BulkComplete
        BY <1>7, <2>3 DEF Transfer
      <3>2. ~Idle
        BY <3>1 DEF SendPart, RecvPart, InLoop, RecvAgain, Wakes, BulkFails, BulkComplete, Idle
      <3>3. ASSUME NEW n \in 0 .. XferSize, SendPart(n) PROVE xfer'.sd = xfer.sd
        BY <1>1, <3>3 DEF SendPart, Xfers
      <3>4. ASSUME NEW n \in 0 .. XferSize, RecvPart(n) PROVE xfer'.sd = xfer.sd
        BY <1>1, <3>4 DEF RecvPart, Xfers
      <3>5. RecvAgain \/ Wakes \/ BulkFails \/ BulkComplete => xfer'.sd = xfer.sd
        BY <1>1 DEF RecvAgain, Wakes, BulkFails, BulkComplete, Ends, Xfers
      <3> QED
        BY <3>1, <3>2, <3>3, <3>4, <3>5
    <2> QED
      BY <2>1, <2>2, <2>3 DEF OwnTransfer, ShellFds
  <1>8. CASE (\E arg \in FragmentArgs : sock_mxfragment(arg)) \/ UNCHANGED vars
    BY <1>8 DEF sock_mxfragment, vars, OwnTransfer, Idle, ShellFds
  <1> QED
    BY <1>3, <1>4, <1>5, <1>6, <1>7, <1>8 DEF Next, Use, sock_sendsms, sock_recvsms

\* Until a close fails, no command but those for text messages calls the driver for a
\* socket of another thread: a command is given a socket of the shell, and a bulk
\* transfer keeps its own.
THEOREM NoCommandTouchesOthers == Spec => []OthersUntouched
  <1>1. Init => OwnTransfer /\ OthersUntouched
    BY DEF Init, OwnTransfer, Idle, NoXfer, OthersUntouched
  <1>2. ASSUME IInv, OwnTransfer, OthersUntouched, [Next]_vars PROVE OthersUntouched'
    <2> SUFFICES ASSUME lost' = 0 PROVE strayed' # "socket"
      BY DEF OthersUntouched
    <2>1. ASSUME NEW sd \in Fds, sock_connect(sd) \/ sock_close(sd) PROVE strayed' # "socket"
      <3>1. Matches(sd) # {} /\ lost = 0 /\ CallFor("socket", sd)
        BY <2>1 DEF sock_connect, sock_close
      <3>2. fds[sd].owner = "shell"
        BY <1>2, <3>1, FirstMatch DEF ShellFds
      <3> QED
        BY <3>1, <3>2 DEF CallFor
    <2>2. ASSUME NEW sd \in Fds, CloseFails(sd) PROVE FALSE
      BY <1>2, <2>2, ConstAssumption DEF CloseFails, IInv, TypeOK
    <2>3. CASE Transfer
      <3>1. /\ NoCall \/ CallFor("socket", xfer.sd)
            /\ NoCall \/ ~Idle
        BY <2>3 DEF Transfer, SendPart, RecvPart, Crossing, InLoop, RecvAgain, Wakes, BulkFails,
                    BulkComplete, Ends, BulkReturns, Idle
      <3> QED
        BY <1>2, <3>1 DEF NoCall, CallFor, OwnTransfer, ShellFds
    <2>4. CASE UNCHANGED vars
      BY <1>2, <2>4 DEF vars, OthersUntouched
    <2>5. ASSUME NEW sd \in Fds, TextMessage(sd) PROVE strayed' # "socket"
      BY <2>5 DEF TextMessage, CallFor, NoCall
    <2>6. CASE \/ Create \/ Other \/ \E arg \in FragmentArgs : sock_mxfragment(arg)
               \/ \E sd \in Fds, size \in Sizes : sock_sendb(sd, size) \/ sock_recvb(sd, size)
      BY <2>6 DEF Create, Other, tcp_create_core, udp_create_core, tcp_create_tls_core,
                  udp_create_dtls_core, PlainCreate, SecureCreate, OtherOpens, OtherCloses,
                  sock_mxfragment, sock_sendb, sock_recvb, Bulk, NoCall
    <2> QED
      BY <1>2, <2>1, <2>2, <2>3, <2>4, <2>5, <2>6 DEF Next, Use, sock_sendsms, sock_recvsms
  <1>3. IInv /\ OwnTransfer /\ [Next]_vars => OwnTransfer'
    BY OwnTransferStep
  <1> QED
    BY <1>1, <1>2, <1>3, SocketInvariant, PTL DEF Spec

-----------------------------------------------------------------------------
(* Progress of a transfer                                                  *)

\* The turns a transfer may spend before the next unit: a wait, and the call after it,
\* come at most once for each time something was received; then there is the end.
Waits ==
    CASE xfer.phase = "loop" -> IF xfer.again THEN 4 ELSE 2
      [] xfer.phase = "sleep" -> 3
      [] OTHER -> 1

\* What is left of a transfer: every unit missing may be waited for.
BulkLeft == 4 * (xfer.size - xfer.total) + Waits

\* A transfer of a size, with a peer that has not closed, comes nearer to its end with
\* each step of its own, and no other step takes it back: calls that accept or bring
\* less than they were asked for, and the waits between them, are used up.
BulkAdvances ==
    [][~Idle /\ xfer.size # 0 /\ ~xfer.eof =>
           /\ BulkLeft \in Nat
           /\ \/ xfer' = xfer \/ Idle' \/ xfer'.eof
              \/ xfer'.size = xfer.size /\ BulkLeft' < BulkLeft]_vars

\* What is left of a transfer is a number.
LEMMA LeftIsNumber == TypeOK /\ BulkInOrder => BulkLeft \in Nat
  <1> SUFFICES ASSUME TypeOK, BulkInOrder PROVE BulkLeft \in Nat
    OBVIOUS
  <1>1. xfer.size \in Nat /\ xfer.total \in Nat /\ xfer.total <= xfer.size
    BY ConstAssumption DEF TypeOK, BulkInOrder
  <1>2. Waits \in Nat
    BY DEF Waits
  <1> QED
    BY <1>1, <1>2 DEF BulkLeft

\* A call moves at least one unit of what is missing, unless the peer has closed.
LEMMA CallMoves ==
    ASSUME TypeOK, BulkInOrder, NEW n \in 0 .. XferSize, SendPart(n) \/ RecvPart(n),
           xfer.size # 0, ~xfer.eof
    PROVE  xfer'.eof \/ (xfer'.size = xfer.size /\ BulkLeft' < BulkLeft)
  <1>1. /\ xfer.size \in Nat /\ xfer.total \in Nat /\ n \in Nat
        /\ xfer.again \in BOOLEAN /\ xfer.phase = "loop" /\ DOMAIN xfer =
             {"op", "sd", "size", "total", "again", "eof", "phase"}
    BY ConstAssumption DEF TypeOK, SendPart, RecvPart, InLoop
  <1>2. GoesOn /\ xfer.total < xfer.size
    BY <1>1 DEF SendPart, RecvPart, Crossing, GoesOn
  <1>3. Asked \in Nat /\ Asked > 0
    BY <1>1, <1>2, AskedFits, ConstAssumption DEF TypeOK, Asked, AtMost
  <1>4. xfer'.eof \/ n > 0
    <2>1. CASE SendPart(n)
      BY <1>1, <1>3, <2>1 DEF SendPart
    <2>2. CASE RecvPart(n)
      <3> SUFFICES ASSUME n = 0 PROVE xfer'.eof
        BY <1>1
      <3>1. (xfer.eof \/ (n = 0 /\ Asked > 0)) = TRUE
        BY <1>3
      <3>2. xfer' = [xfer EXCEPT !.total = Advance(n), !.again = TRUE, !.eof = TRUE]
        BY <2>2, <3>1, Zenon DEF RecvPart
      <3> QED
        BY <1>1, <3>2
    <2> QED
      BY <2>1, <2>2
  <1>5. /\ xfer'.size = xfer.size /\ xfer'.total = xfer.total + n /\ xfer'.phase = "loop"
        /\ xfer'.again \in BOOLEAN
    BY <1>1 DEF SendPart, RecvPart, Advance
  <1>6. Waits \in 2 .. 4 /\ Waits' \in 2 .. 4
    BY <1>1, <1>5 DEF Waits
  <1> QED
    BY <1>1, <1>4, <1>5, <1>6 DEF BulkLeft

\* Every bulk transfer of a size is cut short or runs out of work: what remains of
\* BulkEnds is that the shell goes on with it.
THEOREM BulkShrinks == Spec => BulkAdvances
  <1> DEFINE Advances ==
        ~Idle /\ xfer.size # 0 /\ ~xfer.eof =>
            /\ BulkLeft \in Nat
            /\ \/ xfer' = xfer \/ Idle' \/ xfer'.eof
               \/ xfer'.size = xfer.size /\ BulkLeft' < BulkLeft
  <1>1. IInv /\ [Next]_vars => [Advances]_vars
    <2> SUFFICES ASSUME IInv, Next, ~Idle, xfer.size # 0, ~xfer.eof,
                        xfer' # xfer, ~Idle', ~xfer'.eof
                 PROVE  xfer'.size = xfer.size /\ BulkLeft' < BulkLeft
      BY LeftIsNumber DEF IInv, vars
    <2>1. ASSUME NEW m \in Nat, NEW n \in Nat, m > n, Waits = m, Waits' = n,
                 xfer'.size = xfer.size, xfer'.total = xfer.total
          PROVE  BulkLeft' < BulkLeft
      <3>1. xfer.size \in Nat /\ xfer.total \in Nat
        BY ConstAssumption DEF IInv, TypeOK
      <3> QED
        BY <2>1, <3>1 DEF BulkLeft
    <2>2. /\ xfer.size \in Nat /\ xfer.total \in Nat /\ xfer.again \in BOOLEAN
          /\ DOMAIN xfer = {"op", "sd", "size", "total", "again", "eof", "phase"}
      BY ConstAssumption DEF IInv, TypeOK
    <2>3. Transfer
      <3>1. ASSUME NEW k \in Kinds, PlainCreate(k) \/ SecureCreate(k) PROVE xfer' = xfer
        <4>1. PICK sd \in Fds : MadeUnrecorded(k, sd) \/ \E i \in FreeRecs : MadeIn(k, sd, i)
          BY <3>1, CreateStep DEF IInv
        <4> QED
          BY <4>1 DEF MadeUnrecorded, MadeIn
      <3>2. ASSUME NEW sd \in Fds, \/ sock_connect(sd) \/ sock_close(sd) \/ CloseFails(sd)
                                    \/ TextMessage(sd)
            PROVE  xfer' = xfer
        BY <3>2 DEF sock_connect, sock_close, CloseFails, TextMessage
      <3>3. ASSUME NEW sd \in Fds, NEW size \in Sizes, sock_sendb(sd, size) \/ sock_recvb(sd, size)
            PROVE  FALSE
        BY <3>3 DEF sock_sendb, sock_recvb, Bulk
      <3>4. ~Other
        BY DEF Other, OtherOpens, OtherCloses
      <3>5. ASSUME NEW arg \in FragmentArgs, sock_mxfragment(arg) PROVE xfer' = xfer
        BY <3>5 DEF sock_mxfragment
      <3> QED
        BY <3>1, <3>2, <3>3, <3>4, <3>5
           DEF Next, Create, Use, tcp_create_core, udp_create_core, tcp_create_tls_core,
               udp_create_dtls_core, sock_sendsms, sock_recvsms
    <2>4. ASSUME NEW n \in 0 .. XferSize, SendPart(n) \/ RecvPart(n)
          PROVE  xfer'.size = xfer.size /\ BulkLeft' < BulkLeft
      BY <2>4, CallMoves DEF IInv
    <2>5. CASE RecvAgain
      <3>1. /\ xfer.phase = "loop" /\ xfer.again /\ xfer'.phase = "sleep"
            /\ xfer'.size = xfer.size /\ xfer'.total = xfer.total
        BY <2>2, <2>5 DEF RecvAgain, InLoop, CanWait
      <3>2. Waits = 4 /\ Waits' = 3
        BY <3>1 DEF Waits
      <3> QED
        BY <2>1, <3>1, <3>2
    <2>6. CASE Wakes
      <3>1. /\ xfer.phase = "sleep" /\ ~xfer'.again /\ xfer'.phase = "loop"
            /\ xfer'.size = xfer.size /\ xfer'.total = xfer.total
        BY <2>2, <2>6 DEF Wakes, Waited
      <3>2. Waits = 3 /\ Waits' = 2
        BY <3>1 DEF Waits
      <3> QED
        BY <2>1, <3>1, <3>2
    <2>7. CASE BulkFails \/ BulkComplete
      <3>1. /\ xfer.phase = "loop" /\ xfer'.phase \in {"failed", "complete"}
            /\ xfer'.size = xfer.size /\ xfer'.total = xfer.total
        BY <2>2, <2>7 DEF BulkFails, BulkComplete, Ends
      <3>2. Waits \in 2 .. 4 /\ Waits' = 1
        BY <2>2, <3>1 DEF Waits
      <3> QED
        BY <2>1, <3>1, <3>2
    <2>8. ~BulkReturns
      BY DEF BulkReturns, NoXfer, Idle
    <2> QED
      BY <2>3, <2>4, <2>5, <2>6, <2>7, <2>8 DEF Transfer
  <1> QED
    BY <1>1, SocketInvariant, PTL DEF BulkAdvances, Spec
=============================================================================
