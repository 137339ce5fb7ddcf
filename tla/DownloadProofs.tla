--------------------------- MODULE DownloadProofs ---------------------------
(***************************************************************************)
(* Proofs about the way of a firmware image of the WiFi coprocessor: into  *)
(* the file system (HttpDownload), and from there to the bootloader        *)
(* (Rs9116Dfu).                                                            *)
(*                                                                         *)
(* A file that is taken up again after every break holds what was          *)
(* received, in order; success means the whole resource; five fruitless    *)
(* attempts are the only reason to give up; and no descriptor is left      *)
(* open.  Every command comes nearer to its end with every step.           *)
(*                                                                         *)
(* The bootloader has taken the whole image when its update is declared    *)
(* complete, and an update is an image transfer.  The header is chunk 0    *)
(* and is read before the loop, so that turn 0 sends what is in the buffer *)
(* and every later turn reads: in a proper update the position in the file *)
(* is the number of the chunk that comes next, and every step leaves less  *)
(* to do.                                                                  *)
(*                                                                         *)
(* The two share no variables: what the file holds is a constant of        *)
(* Rs9116Dfu, any length and any header.                                   *)
(***************************************************************************)
EXTENDS HttpDownload, Rs9116Dfu, SequenceTheorems, TLAPS

-----------------------------------------------------------------------------
(* The inductive invariant                                                 *)

\* The socket is the only descriptor, and there is none between downloads.
OneSocket ==
    /\ sockets = IF sock THEN 1 ELSE 0
    /\ pc \in {"idle", "call", "returned"} => ~sock

\* What the file and the answer under way are made of: the units received so
\* far are stored, and those to come are the next ones up to the end.
InStep ==
    status = "clean" /\ Transferring =>
        /\ http_total_received <= Length[file]
        /\ pc = "request" /\ fail_count = 0 =>
               http_total_received = 0 /\ http_content_length = 0
        /\ pc # "request" \/ fail_count > 0 => http_content_length = Length[file]
        /\ stored => /\ Len(fs[file]) = http_total_received
                     /\ \A i \in 1 .. http_total_received : fs[file][i] = <<file, i>>
        /\ pc = "response" =>
               /\ Len(reply) <= Length[file] - http_total_received
               /\ \A i \in 1 .. Len(reply) : reply[i] = <<file, http_total_received + i>>

\* Before a download is connected nothing of it counts.
Unconnected == pc = "call" => status = "none"

\* A failure was counted for every attempt since the last unit, unless a unit
\* came in this one.
Counted ==
    /\ Transferring =>
           /\ last_rcvd_cnt <= http_total_received
           /\ ret # -EAGAIN
           /\ fail_count <= dry \/ (pc = "response" /\ last_rcvd_cnt < http_total_received)
    /\ pc \in {"exit", "returned"} /\ ret = -EAGAIN => dry = MaxAttempts

\* A download left without an error has stored the whole resource.
Complete ==
    pc \in {"exit", "returned"} /\ status = "clean" /\ ret >= 0 =>
        /\ http_total_received = Length[file]
        /\ stored => /\ Len(fs[file]) = Length[file]
                     /\ \A i \in 1 .. Length[file] : fs[file][i] = <<file, i>>

IInv == TypeOK /\ OneSocket /\ InStep /\ Unconnected /\ Counted /\ Complete

-----------------------------------------------------------------------------
(* Types                                                                   *)

FileTypes == fs \in [Files -> Seq(Units)] /\ reply \in Seq(Units)

CallTypes == list \in Seq(Files) /\ file \in Files /\ stored \in BOOLEAN

CountTypes ==
    /\ http_total_received \in Nat /\ http_content_length \in Nat
    /\ fail_count \in 0 .. MaxAttempts /\ last_rcvd_cnt \in Nat
    /\ dry \in 0 .. MaxAttempts

LabelTypes ==
    /\ ret \in {0, -1, -EAGAIN}
    /\ pc \in {"idle", "call", "request", "response", "check", "exit", "returned"}
    /\ status \in {"none", "clean", "disturbed"}

SockTypes == sock \in BOOLEAN /\ sockets \in 0 .. 1

LEMMA TypeParts ==
    /\ TypeOK <=> FileTypes /\ CallTypes /\ CountTypes /\ LabelTypes /\ SockTypes
    /\ TypeOK' <=> FileTypes' /\ CallTypes' /\ CountTypes' /\ LabelTypes' /\ SockTypes'
  BY DEF TypeOK, FileTypes, CallTypes, CountTypes, LabelTypes, SockTypes

\* The resource of a file is a sequence of its units.
LEMMA ResourceFact ==
  ASSUME NEW f \in Files
  PROVE  /\ Length[f] \in Nat /\ Length[f] > 0
         /\ Resource(f) \in Seq(Units) /\ Len(Resource(f)) = Length[f]
         /\ \A i \in 1 .. Length[f] : Resource(f)[i] = <<f, i>>
  <1>1. Length[f] \in Nat /\ Length[f] > 0
    BY ConstAssumption
  <1>2. \A i \in 1 .. Length[f] : <<f, i>> \in Units
    BY <1>1 DEF Units
  <1>3. QED
    BY <1>1, <1>2 DEF Resource

\* What is left of a resource behind its first `at` units.
LEMMA RangeFact ==
  ASSUME NEW f \in Files, NEW at \in Nat, at <= Length[f]
  PROVE  LET s == SubSeq(Resource(f), at + 1, Length[f]) IN
         /\ s \in Seq(Units) /\ Len(s) = Length[f] - at
         /\ \A i \in 1 .. Len(s) : s[i] = <<f, at + i>>
  <1> DEFINE s == SubSeq(Resource(f), at + 1, Length[f])
             n == Length[f] - at
  <1>1. Length[f] \in Nat /\ n \in Nat
    BY ResourceFact
  <1>2. s \in Seq(Units) /\ Len(s) = n /\ \A i \in 1 .. n : s[i] = Resource(f)[at + i]
    <2> DEFINE r == Resource(f)
    <2>1. r \in Seq(Units) /\ Len(r) = Length[f]
      BY ResourceFact
    <2> HIDE DEF r
    <2>2. /\ SubSeq(r, at + 1, Length[f]) \in Seq(Units)
          /\ Len(SubSeq(r, at + 1, Length[f])) = n
          /\ \A i \in 1 .. n : SubSeq(r, at + 1, Length[f])[i] = r[at + i]
      BY <1>1, <2>1
    <2>3. QED
      BY <2>2 DEF r
  <1> HIDE DEF s
  <1>3. \A i \in 1 .. n : at + i \in 1 .. Length[f]
    BY <1>1
  <1>4. \A i \in 1 .. n : s[i] = <<f, at + i>>
    BY <1>2, <1>3, ResourceFact
  <1> USE DEF s
  <1>5. QED
    BY <1>2, <1>4

\* An answer is a sequence of units, whatever the server sends.
LEMMA AnswerType ==
  ASSUME IInv, NEW kind \in {"range", "all", "error"}, NEW at \in Nat
  PROVE  Answer(kind, at) \in Seq(Units) /\ Len(Answer(kind, at)) \in Nat
  <1>1. file \in Files
    BY DEF IInv, TypeOK
  <1>2. Resource(file) \in Seq(Units) /\ Length[file] \in Nat
        /\ Len(Resource(file)) = Length[file]
    BY <1>1, ResourceFact
  <1>3. CASE kind = "range"
    <2> DEFINE r == Resource(file)
    <2>1. r \in Seq(Units) /\ Len(r) = Length[file]
      BY <1>2
    <2> HIDE DEF r
    <2>2. SubSeq(r, at + 1, Length[file]) \in Seq(Units)
      BY <1>2, <2>1
    <2>3. Answer(kind, at) = SubSeq(r, at + 1, Length[file])
      BY <1>3 DEF Answer, r
    <2>4. QED
      BY <2>2, <2>3
  <1>4. CASE kind = "all"
    BY <1>2, <1>4 DEF Answer
  <1>5. CASE kind = "error"
    <2>1. ErrorPage(file) \in Seq(Units)
      BY <1>1 DEF ErrorPage, Units
    <2>2. Answer(kind, at) = ErrorPage(file)
      BY <1>5 DEF Answer
    <2>3. QED
      BY <2>1, <2>2
  <1>6. QED
    BY <1>3, <1>4, <1>5

LEMMA TypeStep == ASSUME IInv, [Next]_vars, SockTypes' PROVE TypeOK'
  <1> USE DEF MaxAttempts, EAGAIN, statics, call, retry, socket, ghosts
  <1>1. FileTypes /\ CallTypes /\ CountTypes /\ LabelTypes
    BY TypeParts DEF IInv
  <1>2. SUFFICES FileTypes' /\ CallTypes' /\ CountTypes' /\ LabelTypes'
    BY TypeParts
  <1>3. ASSUME NEW f \in Files, NEW named \in BOOLEAN, NEW l \in Seq(Files),
               Call(f, named), list' = l
        PROVE  FileTypes' /\ CallTypes' /\ CountTypes' /\ LabelTypes'
    BY <1>1, <1>3 DEF Call, FileTypes, CallTypes, CountTypes, LabelTypes
  <1>4. CASE \E f \in Files, named \in BOOLEAN : HttpCommand(f, named)
    <2>1. <<>> \in Seq(Files)
      OBVIOUS
    <2>2. QED
      BY <1>3, <1>4, <2>1 DEF HttpCommand
  <1>5. CASE (\E l \in Lists : DfuCommand(l)) \/ NextFile
    <2>1. PICK l \in Seq(Files) : l # <<>> /\ Call(Head(l), TRUE) /\ list' = Tail(l)
      BY <1>1, <1>5, ConstAssumption DEF CallTypes, DfuCommand, NextFile
    <2>2. Head(l) \in Files /\ Tail(l) \in Seq(Files)
      BY <2>1
    <2>3. QED
      BY <1>3, <2>1, <2>2
  <1>6. CASE \/ Unresolved \/ SocketFails \/ EndCommand \/ Finish \/ Exit
             \/ UNCHANGED vars
             \/ \E created \in BOOLEAN : ConnectFails(created)
    BY <1>1, <1>6 DEF Unresolved, SocketFails, EndCommand, Finish, Exit, vars, ConnectFails,
       FileTypes, CallTypes, CountTypes, LabelTypes
  <1>7. CASE OpenFails \/ Open
    <2>1. Connected
      BY <1>7 DEF OpenFails, Open
    <2>2. <<>> \in Seq(Units)
      OBVIOUS
    <2>3. fs' \in [Files -> Seq(Units)]
      BY <1>1, <1>7, <2>2 DEF OpenFails, Open, FileTypes, CallTypes
    <2>4. CallTypes' /\ CountTypes' /\ LabelTypes' /\ reply' = reply
      BY <1>1, <1>7, <2>1 DEF OpenFails, Open, Connected, CallTypes, CountTypes, LabelTypes
    <2>5. QED
      BY <1>1, <2>3, <2>4 DEF FileTypes
  <1>8. ASSUME NEW kind \in {"range", "all", "error"}, NEW sized \in BOOLEAN,
               SendRequest(kind, sized)
        PROVE  FileTypes' /\ CallTypes' /\ CountTypes' /\ LabelTypes'
    <2>1. RangeStart \in Nat
      BY <1>1 DEF RangeStart, CountTypes
    <2>2. Answer(kind, RangeStart) \in Seq(Units) /\ Len(Answer(kind, RangeStart)) \in Nat
      BY <2>1, AnswerType
    <2>3. FileTypes' /\ CallTypes'
      BY <1>1, <1>8, <2>2 DEF SendRequest, FileTypes, CallTypes
    <2>4. CountTypes' /\ LabelTypes'
      BY <1>1, <1>8, <2>2 DEF SendRequest, CountTypes, LabelTypes
    <2>5. QED
      BY <2>3, <2>4
  <1>9. ASSUME NEW written \in BOOLEAN, response_cb_download(written)
        PROVE  FileTypes' /\ CallTypes' /\ CountTypes' /\ LabelTypes'
    <2>1. Head(reply) \in Units /\ Tail(reply) \in Seq(Units)
      BY <1>1, <1>9 DEF response_cb_download, FileTypes
    <2>2. file \in Files /\ fs[file] \in Seq(Units)
      BY <1>1 DEF FileTypes, CallTypes
    <2>3. Append(fs[file], Head(reply)) \in Seq(Units)
      BY <2>1, <2>2
    <2>4. FileTypes'
      BY <1>1, <1>9, <2>1, <2>2, <2>3 DEF response_cb_download, FileTypes
    <2>5. QED
      BY <1>1, <1>9, <2>4 DEF response_cb_download, CallTypes, CountTypes, LabelTypes
  <1>10. CASE \E res \in {-1, 0} : EndResponse(res)
    <2>1. <<>> \in Seq(Units)
      OBVIOUS
    <2>2. FileTypes'
      BY <1>1, <1>10, <2>1 DEF EndResponse, FileTypes
    <2>3. QED
      BY <1>1, <1>10, <2>2 DEF EndResponse, FailCount, CallTypes, CountTypes, LabelTypes
  <1>11. CASE \/ \E res \in {-1, 0} : RequestFails(res)
              \/ \E created \in BOOLEAN : Retry(created)
    <2>1. ASSUME NEW res \in {-1, 0}, RequestFails(res)
          PROVE  FileTypes' /\ CallTypes' /\ CountTypes' /\ LabelTypes'
      BY <1>1, <2>1 DEF RequestFails, FileTypes, CallTypes, CountTypes, LabelTypes
    <2>2. ASSUME NEW created \in BOOLEAN, Retry(created)
          PROVE  FileTypes' /\ CallTypes' /\ CountTypes' /\ LabelTypes'
      <3>1. FileTypes' /\ CallTypes' /\ LabelTypes'
        BY <1>1, <2>2 DEF Retry, FileTypes, CallTypes, LabelTypes
      <3>2. CountTypes'
        BY <1>1, <2>2 DEF Retry, Incomplete, CountTypes
      <3> QED
        BY <3>1, <3>2
    <2>3. QED
      BY <1>11, <2>1, <2>2
  <1>12. QED
    BY <1>4, <1>5, <1>6, <1>7, <1>8, <1>9, <1>10, <1>11
       DEF Next, Command, Download, Setup, Attempt

-----------------------------------------------------------------------------
(* The socket                                                              *)

\* Every path out of the function closes what is open, and a retry closes the
\* old socket before it creates the next one.
LEMMA SocketStep == ASSUME IInv, [Next]_vars PROVE SockTypes' /\ OneSocket'
  <1> USE DEF socket, OneSocket, SockTypes
  <1>1. SockTypes /\ OneSocket
    BY TypeParts DEF IInv
  <1>2. CASE \/ \E f \in Files, named \in BOOLEAN : HttpCommand(f, named)
             \/ \E l \in Lists : DfuCommand(l)
             \/ NextFile \/ EndCommand
    BY <1>1, <1>2 DEF HttpCommand, DfuCommand, NextFile, Call, EndCommand
  <1>3. CASE Unresolved \/ SocketFails
    BY <1>1, <1>3 DEF Unresolved, SocketFails
  <1>4. CASE OpenFails \/ Open
    <2>1. pc = "call" /\ sock' = TRUE /\ sockets' = sockets + 1
          /\ pc' \in {"exit", "request"}
      BY <1>4 DEF OpenFails, Open, Connected
    <2>2. sockets' = 1 /\ sock' \in BOOLEAN /\ sock'
      BY <1>1, <2>1
    <2>3. QED
      BY <2>1, <2>2
  <1>5. ASSUME NEW created \in BOOLEAN, ConnectFails(created)
         PROVE  SockTypes' /\ OneSocket'
    <2>1. /\ pc = "call" /\ pc' = "exit" /\ sock' = created
          /\ sockets' = IF created THEN sockets + 1 ELSE sockets
      BY <1>5 DEF ConnectFails
    <2>2. sockets' = IF created THEN 1 ELSE 0
      BY <1>1, <2>1
    <2>3. QED
      BY <2>1, <2>2
  <1>6. CASE \/ \E kind \in {"range", "all", "error"}, sized \in BOOLEAN :
                    SendRequest(kind, sized)
             \/ \E res \in {-1, 0} : RequestFails(res) \/ EndResponse(res)
             \/ \E written \in BOOLEAN : response_cb_download(written)
             \/ Finish
    BY <1>1, <1>6 DEF SendRequest, RequestFails, response_cb_download, EndResponse, Finish
  <1>7. CASE \E created \in BOOLEAN : Retry(created)
    BY <1>1, <1>7 DEF Retry, OpenAfterRetry
  <1>8. CASE Exit
    <2>1. /\ sock' = FALSE /\ pc' = "returned"
          /\ sockets' = IF sock THEN sockets - 1 ELSE sockets
      BY <1>8 DEF Exit
    <2>2. sockets' = 0
      BY <1>1, <2>1
    <2>3. sock' \in BOOLEAN /\ ~sock'
      BY <2>1
    <2>4. QED
      BY <2>2, <2>3
  <1>9. CASE UNCHANGED vars
    BY <1>1, <1>9 DEF vars
  <1>10. QED
    BY <1>2, <1>3, <1>4, <1>5, <1>6, <1>7, <1>8, <1>9
       DEF Next, Command, Download, Setup, Attempt

-----------------------------------------------------------------------------
(* The content                                                             *)

LEMMA InitInv == Init => IInv
  <1> SUFFICES ASSUME Init PROVE IInv
    OBVIOUS
  <1> USE DEF Init, MaxAttempts, EAGAIN
  <1>1. <<>> \in Seq(Units) /\ <<>> \in Seq(Files)
    OBVIOUS
  <1>2. FileTypes /\ CallTypes
    BY <1>1 DEF FileTypes, CallTypes
  <1>3. CountTypes /\ LabelTypes
    BY DEF CountTypes, LabelTypes
  <1>4. SockTypes
    <2>1. sock = FALSE /\ sockets = 0
      OBVIOUS
    <2>2. sock \in BOOLEAN
      BY <2>1
    <2>3. sockets \in 0 .. 1
      BY <2>1
    <2>4. QED
      BY <2>2, <2>3 DEF SockTypes
  <1>5. OneSocket /\ InStep /\ Unconnected /\ Counted /\ Complete
    BY DEF OneSocket, InStep, Unconnected, Counted, Complete, Transferring
  <1>6. QED
    BY <1>2, <1>3, <1>4, <1>5, TypeParts DEF IInv

\* An answer arrives.  If it is what was asked for, it is what the file still
\* lacks, and the length announced first is that of the resource.
LEMMA InStepRequest ==
  ASSUME IInv, NEW kind \in {"range", "all", "error"}, NEW sized \in BOOLEAN,
         SendRequest(kind, sized)
  PROVE  InStep'
  <1>1. /\ InStep /\ pc = "request" /\ pc' = "response"
        /\ UNCHANGED <<fs, file, stored, fail_count, http_total_received>>
        /\ reply' = Answer(kind, RangeStart)
        /\ http_content_length' = IF http_content_length = 0 /\ sized
                                  THEN Len(Answer(kind, RangeStart))
                                  ELSE http_content_length
        /\ status' = IF kind = "range" /\ http_content_length' # 0
                     THEN status ELSE "disturbed"
    BY DEF IInv, SendRequest, call, retry
  <1>2. SUFFICES ASSUME status' = "clean" PROVE InStep'
    BY DEF InStep
  <1>3. status = "clean" /\ kind = "range" /\ http_content_length' # 0
    BY <1>1, <1>2
  <1>4. /\ http_total_received <= Length[file]
        /\ fail_count = 0 => http_total_received = 0 /\ http_content_length = 0
        /\ fail_count > 0 => http_content_length = Length[file]
        /\ stored => /\ Len(fs[file]) = http_total_received
                     /\ \A i \in 1 .. http_total_received : fs[file][i] = <<file, i>>
    BY <1>1, <1>3 DEF InStep, Transferring
  <1>5. /\ http_total_received \in Nat /\ fail_count \in Nat
        /\ file \in Files /\ Length[file] \in Nat /\ Length[file] > 0
    BY ResourceFact DEF IInv, TypeOK, MaxAttempts
  <1>6. RangeStart = http_total_received
    BY <1>4, <1>5 DEF RangeStart, Retrying
  <1>7. /\ Len(reply') = Length[file] - http_total_received
        /\ \A i \in 1 .. Len(reply') : reply'[i] = <<file, http_total_received + i>>
    <2>1. reply' = SubSeq(Resource(file), http_total_received + 1, Length[file])
      BY <1>1, <1>3, <1>6 DEF Answer
    <2>2. QED
      BY <1>4, <1>5, <2>1, RangeFact
  <1>8. http_content_length' = Length[file]
    <2>1. CASE fail_count > 0
      BY <1>1, <1>4, <1>5, <2>1
    <2>2. CASE fail_count = 0
      BY <1>1, <1>3, <1>4, <1>5, <1>7, <2>2
    <2>3. QED
      BY <1>5, <2>1, <2>2
  <1>9. QED
    BY <1>1, <1>4, <1>5, <1>7, <1>8 DEF InStep

\* A unit arrives and is written behind the others.
LEMMA InStepUnit ==
  ASSUME IInv, NEW written \in BOOLEAN, response_cb_download(written)
  PROVE  InStep'
  <1>1. /\ InStep /\ pc = "response" /\ pc' = "response"
        /\ UNCHANGED <<file, stored, fail_count, http_content_length>>
        /\ reply # <<>> /\ reply' = Tail(reply)
        /\ http_total_received' = http_total_received + 1
        /\ fs' = IF stored /\ written THEN [fs EXCEPT ![file] = Append(@, Head(reply))]
                                      ELSE fs
        /\ status' = IF stored /\ ~written THEN "disturbed" ELSE status
    BY DEF IInv, response_cb_download, call, retry
  <1>2. SUFFICES ASSUME status' = "clean" PROVE InStep'
    BY DEF InStep
  <1>3. status = "clean"
    BY <1>1, <1>2
  <1>4. stored => fs' = [fs EXCEPT ![file] = Append(@, Head(reply))]
    BY <1>1, <1>2
  <1>5. /\ http_total_received <= Length[file]
        /\ http_content_length = Length[file]
        /\ stored => /\ Len(fs[file]) = http_total_received
                     /\ \A i \in 1 .. http_total_received : fs[file][i] = <<file, i>>
        /\ Len(reply) <= Length[file] - http_total_received
        /\ \A i \in 1 .. Len(reply) : reply[i] = <<file, http_total_received + i>>
    BY <1>1, <1>3 DEF InStep, Transferring
  <1>6. /\ http_total_received \in Nat /\ file \in Files /\ Length[file] \in Nat
        /\ fs \in [Files -> Seq(Units)] /\ reply \in Seq(Units)
    BY ResourceFact DEF IInv, TypeOK
  <1>7. /\ Len(reply) >= 1 /\ Head(reply) = reply[1]
        /\ Len(reply') = Len(reply) - 1
        /\ \A i \in 1 .. Len(reply') : reply'[i] = reply[i + 1] /\ i + 1 \in 1 .. Len(reply)
    BY <1>1, <1>6
  <1>8. Head(reply) = <<file, http_total_received + 1>>
    <2>1. 1 \in 1 .. Len(reply)
      BY <1>6, <1>7
    <2>2. QED
      BY <1>5, <1>7, <2>1
  <1>9. /\ Len(reply') <= Length[file] - http_total_received'
        /\ http_total_received' <= Length[file]
    BY <1>1, <1>5, <1>6, <1>7
  <1>10. \A i \in 1 .. Len(reply') : reply'[i] = <<file, http_total_received' + i>>
    <2> TAKE i \in 1 .. Len(reply')
    <2>1. reply'[i] = <<file, http_total_received + (i + 1)>>
      BY <1>5, <1>7
    <2>2. http_total_received + (i + 1) = http_total_received' + i
      BY <1>1, <1>6
    <2>3. QED
      BY <2>1, <2>2
  <1>11. ASSUME stored
         PROVE  /\ Len(fs'[file]) = http_total_received'
                /\ \A i \in 1 .. http_total_received' : fs'[file][i] = <<file, i>>
    <2> DEFINE r == fs[file]
    <2>1. fs'[file] = Append(r, Head(reply)) /\ r \in Seq(Units)
      BY <1>4, <1>6, <1>11
    <2>2. /\ Len(r) = http_total_received
          /\ \A i \in 1 .. http_total_received : r[i] = <<file, i>>
      BY <1>5, <1>11
    <2> HIDE DEF r
    <2>3. /\ Len(Append(r, Head(reply))) = Len(r) + 1
          /\ Append(r, Head(reply))[Len(r) + 1] = Head(reply)
          /\ \A i \in 1 .. Len(r) : Append(r, Head(reply))[i] = r[i]
      BY <2>1
    <2>4. \A i \in 1 .. http_total_received' :
              i \in 1 .. http_total_received \/ i = http_total_received + 1
      BY <1>1, <1>6
    <2>5. QED
      BY <1>1, <1>8, <2>1, <2>2, <2>3, <2>4
  <1>12. QED
    BY <1>1, <1>5, <1>9, <1>10, <1>11 DEF InStep

\* The units stored and those under way stay the ones of the resource.
LEMMA InStepStep == ASSUME IInv, [Next]_vars PROVE InStep'
  <1> USE DEF call, statics, retry
  <1>1. InStep /\ CountTypes /\ CallTypes /\ LabelTypes /\ Unconnected
    BY TypeParts DEF IInv
  <1>2. ASSUME ~Transferring' PROVE InStep'
    BY <1>2 DEF InStep
  <1>3. CASE Command \/ NextFile \/ EndCommand \/ Exit \/ Finish
    BY <1>2, <1>3 DEF Command, HttpCommand, DfuCommand, NextFile, Call, EndCommand, Exit,
       Finish, Transferring
  <1>4. CASE \/ Unresolved \/ SocketFails \/ OpenFails
             \/ \E created \in BOOLEAN : ConnectFails(created)
    BY <1>2, <1>4 DEF Unresolved, SocketFails, OpenFails, ConnectFails, Transferring
  <1>5. CASE Open
    <2>1. /\ pc' = "request" /\ http_total_received' = 0 /\ http_content_length' = 0
          /\ fail_count' = 0 /\ file' = file /\ stored' = stored
          /\ stored => fs' = [fs EXCEPT ![file] = <<>>]
      BY <1>5 DEF Open, Connected
    <2>2. file \in Files /\ Length[file] \in Nat /\ DOMAIN fs = Files
      BY ResourceFact DEF IInv, TypeOK
    <2>3. stored => Len(fs'[file]) = 0
      <3>1. Len(<<>>) = 0
        OBVIOUS
      <3>2. stored => fs'[file] = <<>>
        BY <2>1, <2>2
      <3>3. QED
        BY <3>1, <3>2
    <2>4. QED
      BY <2>1, <2>2, <2>3 DEF InStep
  <1>6. CASE \E kind \in {"range", "all", "error"}, sized \in BOOLEAN :
                 SendRequest(kind, sized)
    BY <1>6, InStepRequest
  <1>7. CASE \E written \in BOOLEAN : response_cb_download(written)
    BY <1>7, InStepUnit
  <1>8. CASE \E res \in {-1, 0} : RequestFails(res)
    <2>1. /\ pc = "request" /\ pc' = "check"
          /\ UNCHANGED <<fs, file, stored, http_total_received, http_content_length,
                         fail_count>>
          /\ status' = IF fail_count > 0 THEN status ELSE "disturbed"
      BY <1>8 DEF RequestFails, Retrying
    <2>2. QED
      BY <1>1, <2>1 DEF InStep, Transferring
  <1>9. CASE \E res \in {-1, 0} : EndResponse(res)
    <2>1. /\ pc = "response" /\ pc' = "check"
          /\ UNCHANGED <<fs, file, stored, http_total_received, http_content_length,
                         status>>
      BY <1>9 DEF EndResponse, ghosts
    <2>2. QED
      BY <1>1, <2>1 DEF InStep, Transferring
  <1>10. CASE \E created \in BOOLEAN : Retry(created)
    <2>1. /\ pc = "check" /\ pc' = "request" /\ fail_count' = fail_count + 1
          /\ UNCHANGED <<fs, file, stored, http_total_received, http_content_length,
                         status>>
      BY <1>10 DEF Retry
    <2>2. fail_count' > 0
      BY <1>1, <2>1 DEF CountTypes, MaxAttempts
    <2>3. fail_count' # 0
      BY <2>2
    <2>4. QED
      BY <1>1, <2>1, <2>2, <2>3 DEF InStep, Transferring
  <1>11. CASE UNCHANGED vars
    BY <1>1, <1>11 DEF vars, ghosts, InStep, Transferring
  <1>12. QED
    BY <1>3, <1>4, <1>5, <1>6, <1>7, <1>8, <1>9, <1>10, <1>11
       DEF Next, Download, Setup, Attempt

-----------------------------------------------------------------------------
(* The end of a download                                                   *)

\* Every attempt since the last unit was counted: the count is reset only by
\* an attempt that brought a unit.
LEMMA CountedStep == ASSUME IInv, [Next]_vars PROVE Counted'
  <1> USE DEF retry, ghosts, MaxAttempts, EAGAIN
  <1>1. Counted /\ CountTypes /\ LabelTypes
    BY TypeParts DEF IInv
  <1>2. CASE Command \/ NextFile \/ EndCommand
    <2>1. pc' \in {"call", "idle"}
      BY <1>2 DEF Command, HttpCommand, DfuCommand, NextFile, Call, EndCommand
    <2>2. QED
      BY <2>1 DEF Counted, Transferring
  <1>3. CASE \/ Unresolved \/ SocketFails \/ OpenFails
             \/ \E created \in BOOLEAN : ConnectFails(created)
    <2>1. pc' \in {"exit", "returned"} /\ ret' \in {0, -1}
      BY <1>3 DEF Unresolved, SocketFails, OpenFails, ConnectFails
    <2>2. QED
      BY <2>1 DEF Counted, Transferring
  <1>4. CASE Open
    <2>1. /\ pc' = "request" /\ ret' = 0 /\ last_rcvd_cnt' = 0
          /\ http_total_received' = 0 /\ fail_count' = 0 /\ dry' = dry
      BY <1>4 DEF Open, Connected
    <2>2. QED
      BY <1>1, <2>1 DEF Counted, CountTypes
  <1>5. CASE \E kind \in {"range", "all", "error"}, sized \in BOOLEAN :
                 SendRequest(kind, sized)
    <2>1. /\ pc = "request" /\ pc' = "response" /\ ret' = ret /\ dry' = dry
          /\ UNCHANGED retry /\ http_total_received' = http_total_received
      BY <1>5 DEF SendRequest
    <2>2. QED
      BY <1>1, <2>1 DEF Counted, Transferring
  <1>6. CASE \E res \in {-1, 0} : RequestFails(res)
    <2>1. /\ pc = "request" /\ pc' = "check" /\ ret' \in {ret, -1, 0} /\ dry' = dry
          /\ UNCHANGED retry /\ http_total_received' = http_total_received
      BY <1>6 DEF RequestFails, statics
    <2>2. QED
      BY <1>1, <2>1 DEF Counted, Transferring
  <1>7. CASE \E written \in BOOLEAN : response_cb_download(written)
    <2>1. /\ pc = "response" /\ pc' = "response" /\ ret' = ret
          /\ UNCHANGED retry /\ http_total_received' = http_total_received + 1
      BY <1>7 DEF response_cb_download
    <2>2. last_rcvd_cnt < http_total_received'
      BY <1>1, <2>1 DEF Counted, Transferring, CountTypes
    <2>3. QED
      BY <1>1, <2>1, <2>2 DEF Counted, Transferring, CountTypes
  <1>8. CASE \E res \in {-1, 0} : EndResponse(res)
    <2>1. /\ pc = "response" /\ pc' = "check" /\ ret' \in {ret, -1, 0} /\ dry' = dry
          /\ fail_count' = FailCount
          /\ last_rcvd_cnt' = last_rcvd_cnt /\ http_total_received' = http_total_received
      BY <1>8 DEF EndResponse, statics
    <2>2. fail_count' <= dry
      BY <1>1, <2>1 DEF Counted, Transferring, CountTypes, FailCount, Retrying
    <2>3. QED
      BY <1>1, <2>1, <2>2 DEF Counted, Transferring
  <1>9. CASE \E created \in BOOLEAN : Retry(created)
    <2>1. /\ pc = "check" /\ pc' = "request" /\ ret' = ret /\ fail_count < 5
          /\ fail_count' = fail_count + 1 /\ dry' = IF dry < 5 THEN dry + 1 ELSE dry
          /\ last_rcvd_cnt' = http_total_received
          /\ http_total_received' = http_total_received
      BY <1>9 DEF Retry, Incomplete, statics
    <2>2. fail_count' <= dry' /\ last_rcvd_cnt' <= http_total_received'
      BY <1>1, <2>1 DEF Counted, Transferring, CountTypes
    <2>3. QED
      BY <1>1, <2>1, <2>2 DEF Counted, Transferring
  <1>10. CASE Finish
    <2>1. /\ pc = "check" /\ pc' = "exit" /\ dry' = dry
          /\ ret' = IF GaveUp THEN -11 ELSE ret
      BY <1>10 DEF Finish
    <2>2. GaveUp => dry = 5
      BY <1>1, <2>1 DEF Counted, Transferring, CountTypes, GaveUp
    <2>3. QED
      BY <1>1, <2>1, <2>2 DEF Counted, Transferring
  <1>11. CASE Exit
    BY <1>1, <1>11 DEF Exit, Counted, Transferring
  <1>12. CASE UNCHANGED vars
    BY <1>1, <1>12 DEF vars, statics, Counted, Transferring
  <1>13. QED
    BY <1>2, <1>3, <1>4, <1>5, <1>6, <1>7, <1>8, <1>9, <1>10, <1>11, <1>12
       DEF Next, Download, Setup, Attempt

\* The loop is left without an error only with the whole resource.
LEMMA CompleteStep == ASSUME IInv, [Next]_vars PROVE Complete' /\ Unconnected'
  <1> USE DEF call, ghosts
  <1>1. Complete /\ Unconnected /\ CountTypes /\ LabelTypes
    BY TypeParts DEF IInv
  <1>2. CASE Command \/ NextFile \/ EndCommand
    <2>1. pc' \in {"call", "idle"} /\ (pc' = "call" => status' = "none")
      BY <1>2 DEF Command, HttpCommand, DfuCommand, NextFile, Call, EndCommand
    <2>2. QED
      BY <2>1 DEF Complete, Unconnected
  <1>3. CASE Unresolved \/ SocketFails \/ \E created \in BOOLEAN : ConnectFails(created)
    <2>1. pc = "call" /\ pc' \in {"exit", "returned"} /\ status' = status
      BY <1>3 DEF Unresolved, SocketFails, ConnectFails
    <2>2. QED
      BY <1>1, <2>1 DEF Complete, Unconnected
  <1>4. CASE OpenFails
    BY <1>4 DEF OpenFails, Complete, Unconnected
  <1>5. CASE Open \/ Attempt
    <2>1. pc' \in {"request", "response", "check"}
      BY <1>5 DEF Open, Attempt, SendRequest, RequestFails, response_cb_download,
         EndResponse, Retry
    <2>2. QED
      BY <2>1 DEF Complete, Unconnected
  <1>6. CASE Finish
    <2>1. /\ pc = "check" /\ pc' = "exit" /\ ~Incomplete
          /\ UNCHANGED <<fs, file, stored, http_total_received, status>>
          /\ ret' = IF GaveUp THEN -EAGAIN ELSE ret
      BY <1>6 DEF Finish, statics
    <2>2. SUFFICES ASSUME status = "clean", ret' >= 0 PROVE Complete'
      BY <2>1 DEF Complete, Unconnected
    <2>3. /\ http_total_received <= Length[file] /\ http_content_length = Length[file]
          /\ stored => /\ Len(fs[file]) = http_total_received
                       /\ \A i \in 1 .. http_total_received : fs[file][i] = <<file, i>>
      BY <2>1, <2>2 DEF IInv, InStep, Transferring
    <2>4. Length[file] \in Nat /\ Length[file] > 0
      BY ResourceFact DEF IInv, TypeOK
    <2>5. ~GaveUp
      BY <2>1, <2>2 DEF EAGAIN
    <2>6. http_total_received = Length[file]
      BY <1>1, <2>1, <2>3, <2>4, <2>5 DEF Incomplete, GaveUp, CountTypes, MaxAttempts
    <2>7. QED
      BY <2>1, <2>3, <2>6 DEF Complete
  <1>7. CASE Exit
    <2>1. /\ pc = "exit" /\ pc' = "returned"
          /\ UNCHANGED <<fs, file, stored, http_total_received, status, ret>>
      BY <1>7 DEF Exit, statics
    <2>2. QED
      BY <1>1, <2>1 DEF Complete, Unconnected
  <1>8. CASE UNCHANGED vars
    BY <1>1, <1>8 DEF vars, statics, Complete, Unconnected
  <1>9. QED
    BY <1>2, <1>3, <1>4, <1>5, <1>6, <1>7, <1>8 DEF Next, Download, Setup

-----------------------------------------------------------------------------
(* The theorems                                                            *)

\* The invariant holds in every reachable state, for all files and lengths.
THEOREM DownloadInvariant == Spec => []IInv
  <1>1. IInv /\ [Next]_vars => IInv'
    BY SocketStep, TypeStep, InStepStep, CountedStep, CompleteStep DEF IInv
  <1>2. QED
    BY <1>1, InitInv, PTL DEF Spec

\* Units with the right content at every place are a part of the resource.
LEMMA PrefixFact ==
  ASSUME NEW f \in Files, NEW s \in Seq(Units), Len(s) <= Length[f],
         \A i \in 1 .. Len(s) : s[i] = <<f, i>>
  PROVE  s = SubSeq(Resource(f), 1, Len(s))
  <1> DEFINE r == Resource(f)
  <1>1. /\ r \in Seq(Units) /\ Len(r) = Length[f] /\ Length[f] \in Nat
        /\ \A i \in 1 .. Length[f] : r[i] = <<f, i>>
    BY ResourceFact
  <1> HIDE DEF r
  <1>2. \A i \in 1 .. Len(s) : i \in 1 .. Length[f]
    BY <1>1
  <1>3. \A i \in 1 .. Len(s) : s[i] = r[i]
    BY <1>1, <1>2
  <1>4. s = SubSeq(r, 1, Len(s))
    BY <1>1, <1>3
  <1>5. QED
    BY <1>4 DEF r

\* However often a transfer breaks off and is taken up again, the file holds
\* the units received so far, each once and in order.
THEOREM ResumedInOrder == Spec => []StoredInOrder
  <1>1. ASSUME IInv PROVE StoredInOrder
    <2> SUFFICES ASSUME Transferring, stored, status = "clean"
                 PROVE  fs[file] = SubSeq(Resource(file), 1, http_total_received)
      BY <1>1 DEF StoredInOrder, IInv
    <2>1. file \in Files /\ fs[file] \in Seq(Units)
      BY <1>1 DEF IInv, TypeOK
    <2>2. /\ http_total_received <= Length[file]
          /\ Len(fs[file]) = http_total_received
          /\ \A i \in 1 .. http_total_received : fs[file][i] = <<file, i>>
      BY <1>1 DEF IInv, InStep
    <2>3. QED
      BY <2>1, <2>2, PrefixFact
  <1>2. QED
    BY <1>1, DownloadInvariant, PTL

\* Sequences of the same length with the same elements are the same.
LEMMA SameSeq ==
  ASSUME NEW s \in Seq(Units), NEW t \in Seq(Units), Len(s) = Len(t),
         \A i \in 1 .. Len(s) : s[i] = t[i]
  PROVE  s = t
  OBVIOUS

\* Success means that the whole resource was stored; giving up, that five
\* attempts in a row brought nothing.
THEOREM SuccessIsWhole == Spec => []WholeOrError
  <1>1. ASSUME IInv PROVE WholeOrError
    <2>1. ASSUME pc = "returned", status = "clean", result >= 0
          PROVE  result = Length[file] /\ (stored => fs[file] = Resource(file))
      <3>1. ret \in {0, -1, -EAGAIN} /\ file \in Files /\ fs[file] \in Seq(Units)
        BY <1>1 DEF IInv, TypeOK
      <3>2. ret >= 0 /\ result = http_total_received
        BY <2>1, <3>1 DEF result, EAGAIN
      <3>3. /\ http_total_received = Length[file]
            /\ stored => /\ Len(fs[file]) = Length[file]
                         /\ \A i \in 1 .. Length[file] : fs[file][i] = <<file, i>>
        BY <1>1, <2>1, <3>2 DEF IInv, Complete
      <3>4. stored => fs[file] = Resource(file)
        <4> SUFFICES ASSUME stored PROVE fs[file] = Resource(file)
          OBVIOUS
        <4> DEFINE r == Resource(file)
                   s == fs[file]
        <4>1. /\ r \in Seq(Units) /\ Len(r) = Length[file]
              /\ \A i \in 1 .. Length[file] : r[i] = <<file, i>>
          BY <3>1, ResourceFact
        <4>2. /\ s \in Seq(Units) /\ Len(s) = Length[file]
              /\ \A i \in 1 .. Length[file] : s[i] = <<file, i>>
          BY <3>1, <3>3
        <4> HIDE DEF r, s
        <4>3. \A i \in 1 .. Len(s) : s[i] = r[i]
          BY <4>1, <4>2
        <4>4. s = r
          BY <4>1, <4>2, <4>3, SameSeq
        <4>5. QED
          BY <4>4 DEF r, s
      <3>5. QED
        BY <3>2, <3>3, <3>4
    <2>2. pc = "returned" /\ ret = -EAGAIN => dry = MaxAttempts
      BY <1>1 DEF IInv, Counted
    <2>3. QED
      BY <2>1, <2>2 DEF WholeOrError
  <1>2. QED
    BY <1>1, DownloadInvariant, PTL

\* No descriptor is left open, by the retries, by the failures or by the
\* certificate profile fallback.
THEOREM SocketClosed == Spec => []NoSocketLeak
  <1>1. ASSUME IInv PROVE NoSocketLeak
    BY <1>1 DEF IInv, OneSocket, NoSocketLeak
  <1>2. QED
    BY <1>1, DownloadInvariant, PTL

-----------------------------------------------------------------------------
(* Progress of a download                                                  *)

\* Where the command is: a request whose answer will set the length comes before those
\* that follow.
CallStage ==
    CASE pc = "call" -> 4
      [] pc = "request" /\ http_content_length = 0 -> 3
      [] pc = "request" /\ http_content_length # 0 -> 2
      [] pc \in {"response", "check"} -> 2
      [] pc = "exit" -> 1
      [] OTHER -> 0

\* Units of the announced length that have not come.
Missing == IF http_content_length > http_total_received
           THEN http_content_length - http_total_received ELSE 0

\* Attempts that are left as it stands, as many as at first once a unit has come.
Chances == IF Missing = 0 \/ (Retrying /\ last_rcvd_cnt < http_total_received)
           THEN MaxAttempts ELSE MaxAttempts - fail_count

\* Where the attempt is.
AttemptStage == CASE pc = "request" -> 2 [] pc = "response" -> 1 [] OTHER -> 0

\* A step lowers the number m, or keeps it and is lower in the rest.
Lower(m, rest) == m' < m \/ (m' = m /\ rest)

\* Every step of a command ends it or brings it down in the lexicographic order of the
\* files to come, the stage, the units that are missing, the attempts that are left, the
\* stage of the attempt, and the answer that is still to come: the reset of fail_count
\* ("Reset count if new data has been transfered") is always paid for with a unit.
CommandAdvances ==
    [][pc # "idle" =>
          /\ {Len(list), CallStage, Missing, Chances, AttemptStage, Len(reply)} \subseteq Nat
          /\ pc' # "idle" =>
                Lower(Len(list), Lower(CallStage, Lower(Missing, Lower(Chances,
                    Lower(AttemptStage, Lower(Len(reply), FALSE))))))]_vars

\* The numbers of the order are natural ones.
LEMMA RankTypes ==
  ASSUME IInv
  PROVE  /\ http_total_received \in Nat /\ http_content_length \in Nat
         /\ fail_count \in 0 .. 5 /\ last_rcvd_cnt \in Nat
         /\ Len(list) \in Nat /\ CallStage \in 0 .. 4 /\ Missing \in Nat
         /\ Chances \in 0 .. 5 /\ AttemptStage \in 0 .. 2 /\ Len(reply) \in Nat
  <1>1. /\ http_total_received \in Nat /\ http_content_length \in Nat
        /\ fail_count \in 0 .. 5 /\ last_rcvd_cnt \in Nat
        /\ list \in Seq(Files) /\ reply \in Seq(Units)
    BY DEF IInv, TypeOK, MaxAttempts
  <1>2. CallStage \in 0 .. 4 /\ AttemptStage \in 0 .. 2
    BY DEF CallStage, AttemptStage
  <1>3. Missing \in Nat
    BY <1>1 DEF Missing
  <1>4. Chances \in 0 .. 5
    BY <1>1 DEF Chances, MaxAttempts
  <1>5. QED
    BY <1>1, <1>2, <1>3, <1>4

\* The steps that leave a stage.
LEMMA StageLeft ==
  ASSUME IInv,
         \/ Setup \/ Finish \/ Exit
         \/ /\ http_content_length = 0
            /\ \/ \E kind \in {"range", "all", "error"}, sized \in BOOLEAN :
                     SendRequest(kind, sized)
               \/ \E res \in {-1, 0} : RequestFails(res)
  PROVE  list' = list /\ CallStage' < CallStage
  <1>1. CASE Setup
    BY <1>1 DEF Setup, Unresolved, SocketFails, ConnectFails, Connected, OpenFails, Open,
       CallStage, call
  <1>2. CASE Finish \/ Exit
    BY <1>2 DEF Finish, Exit, CallStage, call
  <1>3. CASE /\ http_content_length = 0
             /\ \/ \E kind \in {"range", "all", "error"}, sized \in BOOLEAN :
                      SendRequest(kind, sized)
                \/ \E res \in {-1, 0} : RequestFails(res)
    BY <1>3 DEF SendRequest, RequestFails, CallStage, call
  <1>4. QED
    BY <1>1, <1>2, <1>3

\* The steps within an attempt whose length is known, or whose answer has begun.
LEMMA AttemptGoesOn ==
  ASSUME IInv,
         \/ /\ http_content_length # 0
            /\ \/ \E kind \in {"range", "all", "error"}, sized \in BOOLEAN :
                     SendRequest(kind, sized)
               \/ \E res \in {-1, 0} : RequestFails(res)
         \/ \E res \in {-1, 0} : EndResponse(res)
  PROVE  /\ list' = list /\ CallStage' = CallStage /\ Missing' = Missing
         /\ Chances' = Chances /\ AttemptStage' < AttemptStage
  <1>1. CASE /\ http_content_length # 0
             /\ \/ \E kind \in {"range", "all", "error"}, sized \in BOOLEAN :
                      SendRequest(kind, sized)
                \/ \E res \in {-1, 0} : RequestFails(res)
    <2>1. /\ list' = list /\ http_content_length' = http_content_length
          /\ http_total_received' = http_total_received
          /\ fail_count' = fail_count /\ last_rcvd_cnt' = last_rcvd_cnt
          /\ pc = "request" /\ pc' \in {"response", "check"}
      BY <1>1 DEF SendRequest, RequestFails, call, statics, retry
    <2>2. Missing' = Missing /\ Chances' = Chances
      BY <2>1 DEF Missing, Chances, Retrying
    <2>3. CallStage' = CallStage /\ AttemptStage' < AttemptStage
      BY <1>1, <2>1 DEF CallStage, AttemptStage
    <2>4. QED
      BY <2>1, <2>2, <2>3
  <1>2. CASE \E res \in {-1, 0} : EndResponse(res)
    <2>1. /\ list' = list /\ http_content_length' = http_content_length
          /\ http_total_received' = http_total_received
          /\ fail_count' = FailCount /\ last_rcvd_cnt' = last_rcvd_cnt
          /\ pc = "response" /\ pc' = "check"
      BY <1>2 DEF EndResponse, call, statics
    <2>2. Missing' = Missing
      BY <2>1 DEF Missing
    <2>3. Chances' = Chances
      BY <2>1, <2>2, RankTypes DEF Chances, Retrying, FailCount, MaxAttempts
    <2>4. CallStage' = CallStage /\ AttemptStage' < AttemptStage
      BY <2>1 DEF CallStage, AttemptStage
    <2>5. QED
      BY <2>1, <2>2, <2>3, <2>4
  <1>3. QED
    BY <1>1, <1>2

\* A unit comes: one that was missing, or one more than announced.
LEMMA UnitComes ==
  ASSUME IInv, NEW written \in BOOLEAN, response_cb_download(written)
  PROVE  /\ list' = list /\ CallStage' = CallStage
         /\ \/ Missing' < Missing
            \/ /\ Missing' = Missing /\ Chances' = Chances
               /\ AttemptStage' = AttemptStage /\ Len(reply') < Len(reply)
  <1>1. /\ list' = list /\ http_content_length' = http_content_length
        /\ http_total_received' = http_total_received + 1
        /\ pc = "response" /\ pc' = pc /\ reply # <<>> /\ reply' = Tail(reply)
    BY DEF response_cb_download, call
  <1>2. CallStage' = CallStage /\ AttemptStage' = AttemptStage
    BY <1>1 DEF CallStage, AttemptStage
  <1>3. reply \in Seq(Units)
    BY DEF IInv, TypeOK
  <1>4. Len(reply') < Len(reply)
    BY <1>1, <1>3
  <1>5. CASE Missing = 0
    <2>1. Missing' = 0
      BY <1>1, <1>5, RankTypes DEF Missing
    <2>2. Chances' = Chances
      BY <1>5, <2>1 DEF Chances
    <2>3. QED
      BY <1>1, <1>2, <1>4, <1>5, <2>1, <2>2
  <1>6. CASE Missing # 0
    <2>1. Missing' < Missing
      BY <1>1, <1>6, RankTypes DEF Missing
    <2>2. QED
      BY <1>1, <1>2, <2>1
  <1>7. QED
    BY <1>5, <1>6

\* Another attempt is made only while units are missing, and costs a chance.
LEMMA AttemptCounts ==
  ASSUME IInv, NEW created \in BOOLEAN, Retry(created)
  PROVE  /\ list' = list /\ CallStage' = CallStage /\ Missing' = Missing
         /\ Chances' < Chances
  <1>1. /\ list' = list /\ http_content_length' = http_content_length
        /\ http_total_received' = http_total_received
        /\ fail_count' = fail_count + 1 /\ last_rcvd_cnt' = http_total_received
        /\ pc = "check" /\ pc' = "request" /\ http_content_length # 0
        /\ http_content_length > http_total_received
    BY DEF Retry, Incomplete, call, statics
  <1>2. CallStage' = CallStage
    BY <1>1 DEF CallStage
  <1>3. Missing' = Missing /\ Missing # 0
    BY <1>1, RankTypes DEF Missing
  <1>4. Chances' = 5 - (fail_count + 1)
    BY <1>1, <1>3, RankTypes DEF Chances, MaxAttempts
  <1>5. Chances >= 5 - fail_count
    BY RankTypes DEF Chances, MaxAttempts
  <1>6. fail_count \in Int /\ Chances \in Int
    BY RankTypes
  <1>7. Chances' < Chances
    BY <1>4, <1>5, <1>6
  <1>8. QED
    BY <1>1, <1>2, <1>3, <1>7

\* Every command comes nearer to its end with every step, whatever the server and the
\* network do, for lists, resources and answers of any length.
THEOREM DownloadAdvances == Spec => CommandAdvances
  <1> DEFINE Down == Lower(Len(list), Lower(CallStage, Lower(Missing, Lower(Chances,
                         Lower(AttemptStage, Lower(Len(reply), FALSE))))))
             Nats == {Len(list), CallStage, Missing, Chances, AttemptStage, Len(reply)}
                        \subseteq Nat
             Advances == pc # "idle" => Nats /\ (pc' # "idle" => Down)
  <1>1. ASSUME IInv, Next PROVE Advances
    <2>0. Nats
      <3>1. 0 .. 5 \subseteq Nat /\ 0 .. 4 \subseteq Nat /\ 0 .. 2 \subseteq Nat
        OBVIOUS
      <3>2. QED
        BY <1>1, <3>1, RankTypes, Zenon
    <2> HIDE DEF Nats
    <2> SUFFICES ASSUME pc # "idle", pc' # "idle" PROVE Down
      BY <2>0
    <2> USE DEF Lower
    <2>1. CASE \/ Setup \/ Finish \/ Exit
               \/ /\ http_content_length = 0
                  /\ \/ \E kind \in {"range", "all", "error"}, sized \in BOOLEAN :
                           SendRequest(kind, sized)
                     \/ \E res \in {-1, 0} : RequestFails(res)
      <3>1. list' = list /\ CallStage' < CallStage
        BY <1>1, <2>1, StageLeft
      <3>2. QED
        BY <3>1
    <2>2. CASE \/ /\ http_content_length # 0
                  /\ \/ \E kind \in {"range", "all", "error"}, sized \in BOOLEAN :
                           SendRequest(kind, sized)
                     \/ \E res \in {-1, 0} : RequestFails(res)
               \/ \E res \in {-1, 0} : EndResponse(res)
      <3>1. /\ list' = list /\ CallStage' = CallStage /\ Missing' = Missing
            /\ Chances' = Chances /\ AttemptStage' < AttemptStage
        BY <1>1, <2>2, AttemptGoesOn
      <3>2. QED
        BY <3>1
    <2>3. ASSUME NEW written \in BOOLEAN, response_cb_download(written) PROVE Down
      <3>1. /\ list' = list /\ CallStage' = CallStage
            /\ \/ Missing' < Missing
               \/ /\ Missing' = Missing /\ Chances' = Chances
                  /\ AttemptStage' = AttemptStage /\ Len(reply') < Len(reply)
        BY <1>1, <2>3, UnitComes
      <3>2. QED
        BY <3>1
    <2>4. ASSUME NEW created \in BOOLEAN, Retry(created) PROVE Down
      <3>1. /\ list' = list /\ CallStage' = CallStage /\ Missing' = Missing
            /\ Chances' < Chances
        BY <1>1, <2>4, AttemptCounts
      <3>2. QED
        BY <3>1
    <2>5. CASE NextFile
      <3>1. list \in Seq(Files) /\ list # <<>> /\ list' = Tail(list)
        BY <1>1, <2>5 DEF NextFile, IInv, TypeOK
      <3>2. Len(list') < Len(list)
        BY <3>1
      <3>3. QED
        BY <3>2
    <2>6. ~Command /\ ~EndCommand
      BY DEF Command, HttpCommand, DfuCommand, EndCommand
    <2>7. QED
      BY <1>1, <2>1, <2>2, <2>3, <2>4, <2>5, <2>6 DEF Next, Download, Attempt
  <1>2. IInv /\ [Next]_vars => [Advances]_vars
    BY <1>1
  <1>3. QED
    BY <1>2, DownloadInvariant, PTL DEF Spec, CommandAdvances

-----------------------------------------------------------------------------
(* The WiFi writer                                                         *)

\* The constants are as the module assumes.
LEMMA WifiSizes ==
  ASSUME NEW img \in Images
  PROVE  /\ MaxU32 \in Nat \ {0} /\ img # None
         /\ Size[img] \in 0 .. (MaxU32 - 1)
         /\ FileLen[img] \in 0 .. (MaxU32 - 1) /\ FileLen[img] > 0
  <1>1. MaxU32 \in Nat /\ Size[img] \in 0 .. (MaxU32 - 1)
        /\ FileLen[img] \in 0 .. (MaxU32 - 1) /\ FileLen[img] > 0
    BY RpsAssumption
  <1>2. QED
    BY <1>1, RpsAssumption

\* How many chunks an image has, and how many turns read one from its file.
LEMMA WifiChunks ==
  ASSUME NEW n \in Nat
  PROVE  /\ Chunks(n) \in Nat /\ Chunks(n) <= n
         /\ (n + RSI_CHUNK_SIZE - 1) \div RSI_CHUNK_SIZE = Chunks(n)
         /\ n > RSI_CHUNK_SIZE /\ n % RSI_CHUNK_SIZE # 0 =>
                /\ Chunks(n) >= 2
                /\ RSI_CHUNK_SIZE * (Chunks(n) - 1) < n
                /\ n < RSI_CHUNK_SIZE * Chunks(n)
  <1> DEFINE q == n \div 4096
             r == n % 4096
  <1>1. /\ q \in Nat /\ r \in 0 .. 4095 /\ n = 4096 * q + r
        /\ n % 4096 = r /\ n \div 4096 = q
    OBVIOUS
  <1> HIDE DEF q, r
  <1>2. (n + 4095) \div 4096 = IF r = 0 THEN q ELSE q + 1
    BY <1>1
  <1>3. n + 4096 - 1 = n + 4095
    OBVIOUS
  <1>4. QED
    BY <1>1, <1>2, <1>3 DEF Chunks, RSI_CHUNK_SIZE

\* The chunks of the file that is open.
LEMMA WifiFile ==
  ASSUME image \in Images
  PROVE  /\ FileChunks \in 0 .. (MaxU32 - 1)
         /\ Regular(image) => FileChunks = Chunks(Size[image])
  <1>1. FileLen[image] \in 0 .. (MaxU32 - 1) /\ MaxU32 \in Nat
    BY WifiSizes
  <1>2. FileChunks = Chunks(FileLen[image]) /\ Chunks(FileLen[image]) \in Nat
        /\ Chunks(FileLen[image]) <= FileLen[image]
    BY <1>1, WifiChunks DEF FileChunks
  <1>3. QED
    BY <1>1, <1>2 DEF Regular

\* The image of a proper update.
LEMMA WifiProper ==
  ASSUME WifiTypeOK, Proper
  PROVE  /\ image \in Images
         /\ Size[image] \in Nat
         /\ Chunks(Size[image]) \in Nat /\ Chunks(Size[image]) >= 2
         /\ RSI_CHUNK_SIZE * (Chunks(Size[image]) - 1) < Size[image]
         /\ Size[image] < RSI_CHUNK_SIZE * Chunks(Size[image])
         /\ FileChunks = Chunks(Size[image])
  <1>1. image \in Images
    BY DEF WifiTypeOK, Proper
  <1>2. Size[image] \in Nat
    BY <1>1, WifiSizes
  <1>3. Size[image] > RSI_CHUNK_SIZE /\ Size[image] % RSI_CHUNK_SIZE # 0
    BY DEF Proper, Regular
  <1>4. FileChunks = Chunks(Size[image])
    BY <1>1, WifiFile DEF Proper
  <1>5. QED
    BY <1>1, <1>2, <1>3, <1>4, WifiChunks

\* A read of the file moves on by a chunk, or leaves zeros at the end of the file.
LEMMA WifiRead ==
  ASSUME WifiTypeOK, image \in Images, file_read_flash
  PROVE  fpos' \in 0 .. MaxU32 /\ recv_buffer' \in {Zeros} \cup 0 .. MaxU32
  <1>1. FileChunks \in 0 .. (MaxU32 - 1) /\ MaxU32 \in Nat
    BY WifiFile, WifiSizes
  <1>2. fpos \in 0 .. MaxU32 /\ recv_buffer \in {Zeros} \cup 0 .. MaxU32
    BY DEF WifiTypeOK
  <1>3. CASE fpos < FileChunks
    BY <1>1, <1>2, <1>3 DEF file_read_flash
  <1>4. CASE ~(fpos < FileChunks)
    BY <1>2, <1>4 DEF file_read_flash
  <1>5. QED
    BY <1>3, <1>4

\* A size that a chunk may be taken to announce.
LEMMA WifiWord ==
  ASSUME image \in Images, NEW chunk, NEW n \in SizeIn(chunk)
  PROVE  /\ n \in 0 .. (MaxU32 - 1) /\ Chunks(n) \in 0 .. MaxU32
         /\ chunk = 0 => n = Size[image]
  <1>1. MaxU32 \in Nat \ {0} /\ Size[image] \in 0 .. (MaxU32 - 1)
    BY WifiSizes
  <1>2. Words \subseteq 0 .. (MaxU32 - 1)
    BY RpsAssumption
  <1>3. n \in 0 .. (MaxU32 - 1) /\ (chunk = 0 => n = Size[image])
    <2>1. CASE chunk = 0
      BY <1>1, <2>1 DEF SizeIn, Zeros
    <2>2. CASE chunk # 0 /\ chunk = Zeros
      BY <1>1, <2>2 DEF SizeIn
    <2>3. CASE chunk # 0 /\ chunk # Zeros
      BY <1>2, <2>3 DEF SizeIn
    <2>4. QED
      BY <2>1, <2>2, <2>3
  <1>4. n \in Nat
    BY <1>1, <1>3
  <1>5. Chunks(n) \in Nat /\ Chunks(n) <= n
    BY <1>4, WifiChunks
  <1>6. QED
    BY <1>1, <1>3, <1>5

-----------------------------------------------------------------------------
(* The steps of the WiFi writer                                            *)

\* A boot finds nothing open and nothing taken.
LEMMA WifiInitial ==
  /\ WifiInit => WifiIInv
  /\ Restart => WifiIInv'
  <1>1. MaxU32 \in Nat \ {0}
    BY RpsAssumption
  <1>2. <<>> \in Seq(Chunk)
    BY EmptySeq
  <1>3. ASSUME WifiInit PROVE WifiIInv
    <2> USE <1>3 DEF WifiInit
    <2>1. disturbed = FALSE
      OBVIOUS
    <2>2. disturbed \in BOOLEAN /\ ~disturbed
      BY <2>1
    <2>3. WifiTypeOK
      <3>1. taken \in Seq(Chunk)
        BY <1>2
      <3>2. 0 \in 0 .. MaxU32 /\ 0 \in 0 .. (MaxU32 - 1) /\ 0 \in 0 .. (MaxU32 + 4096)
        BY <1>1
      <3>3. QED
        BY <2>2, <3>1, <3>2 DEF WifiTypeOK, RSI_CHUNK_SIZE
    <2>4. Stages /\ Position /\ Content
      BY <2>2 DEF Stages, Position, Content, Proper, RSI_CHUNK_SIZE
    <2>5. QED
      BY <2>3, <2>4 DEF WifiIInv
  <1>4. ASSUME Restart PROVE WifiIInv'
    <2> USE <1>4 DEF Restart
    <2>1. disturbed' = FALSE
      OBVIOUS
    <2>2. disturbed' \in BOOLEAN /\ ~disturbed'
      BY <2>1
    <2>3. WifiTypeOK'
      <3>1. taken' \in Seq(Chunk)
        BY <1>2
      <3>2. 0 \in 0 .. MaxU32 /\ 0 \in 0 .. (MaxU32 - 1) /\ 0 \in 0 .. (MaxU32 + 4096)
        BY <1>1
      <3>3. QED
        BY <2>2, <3>1, <3>2 DEF WifiTypeOK, RSI_CHUNK_SIZE
    <2>4. Stages' /\ Position' /\ Content'
      BY <2>2 DEF Stages, Position, Content, Proper, RSI_CHUNK_SIZE
    <2>5. QED
      BY <2>3, <2>4 DEF WifiIInv
  <1>5. QED
    BY <1>3, <1>4

\* The steps that leave the counters and what was taken alone.
LEMMA WifiQuiet ==
  ASSUME WifiIInv,
         WifiCommand \/ FileMissing \/ ReadFails \/ LeaveLoop
  PROVE  WifiIInv'
  <1> USE DEF counters
  <1>1. /\ UNCHANGED <<fpos, recv_buffer, state, fw_image_size, chunk_check,
                       chunk_cnt, offset, disturbed>>
        /\ \/ /\ dfu_pc = "idle" /\ dfu_pc' = "header"
              /\ image' \in Images /\ taken' = <<>>
           \/ /\ dfu_pc = "idle" /\ dfu_pc' = "reported" /\ UNCHANGED <<image, taken>>
           \/ /\ dfu_pc \in {"header", "loop"} /\ dfu_pc' = "reported"
              /\ UNCHANGED <<image, taken>>
           \/ /\ dfu_pc = "loop" /\ offset > fw_image_size
              /\ UNCHANGED <<image, taken>>
              /\ dfu_pc' = IF state = "done" THEN "done" ELSE "header"
    BY DEF WifiCommand, Start, FileMissing, ReadFails, LeaveLoop,
       Turn
  <1>2. WifiTypeOK /\ Stages /\ Position /\ Content
    BY DEF WifiIInv
  <1>3. WifiTypeOK'
    <2>1. <<>> \in Seq(Chunk)
      BY EmptySeq
    <2>2. QED
      BY <1>1, <1>2, <2>1 DEF WifiTypeOK
  <1>4. Stages'
    BY <1>1, <1>2 DEF Stages
  <1>5. CASE dfu_pc = "idle"
    <2>1. /\ fpos = 0 /\ chunk_cnt = 0
          /\ recv_buffer = Zeros /\ state = "initial"
          /\ taken' = <<>> /\ dfu_pc' \in {"header", "reported"}
      BY <1>1, <1>2, <1>5 DEF Stages
    <2>2. Position'
      BY <1>1, <2>1 DEF Position
    <2>3. Content'
      <3>1. SUFFICES ASSUME Proper' PROVE Chunks(Size[image']) \in Nat
        BY <1>1, <2>1 DEF Content
      <3>2. image' \in Images
        BY <1>3, <3>1 DEF Proper, WifiTypeOK
      <3>3. Size[image'] \in Nat
        BY <3>2, WifiSizes
      <3>4. QED
        BY <3>3, WifiChunks
    <2>4. QED
      BY <1>3, <1>4, <2>2, <2>3 DEF WifiIInv
  <1>6. CASE dfu_pc # "idle"
    <2>1. UNCHANGED <<image, taken>> /\ dfu_pc \in {"header", "loop"}
          /\ dfu_pc' \in {"reported", "done", "header"}
          /\ (dfu_pc' # "reported" => dfu_pc = "loop" /\ offset > fw_image_size)
          /\ (dfu_pc' = "header" => state # "done")
          /\ (dfu_pc' = "done" => state = "done")
      BY <1>1, <1>6
    <2>2. Proper' <=> Proper
      BY <1>1, <2>1 DEF Proper, Regular
    <2>3. Content'
      BY <1>1, <1>2, <2>1, <2>2 DEF Content
    <2>4. ASSUME Proper, dfu_pc' = "header" PROVE FALSE
      <3>1. /\ fw_image_size = Size[image] /\ chunk_check = Chunks(Size[image])
            /\ chunk_cnt # Chunks(Size[image])
            /\ chunk_cnt <= Chunks(Size[image])
            /\ offset = RSI_CHUNK_SIZE * chunk_cnt /\ offset > fw_image_size
            /\ chunk_cnt \in Nat
        BY <1>2, <2>1, <2>4 DEF Position, Content, Stages, WifiTypeOK
      <3>2. /\ RSI_CHUNK_SIZE * (Chunks(Size[image]) - 1) < Size[image]
            /\ Chunks(Size[image]) \in Nat /\ Size[image] \in Nat
        BY <1>2, <2>4, WifiProper
      <3>3. QED
        BY <3>1, <3>2 DEF RSI_CHUNK_SIZE
    <2>5. Position'
      BY <1>1, <1>2, <2>1, <2>2, <2>4 DEF Position
    <2>6. QED
      BY <1>3, <1>4, <2>3, <2>5 DEF WifiIInv
  <1>7. QED
    BY <1>5, <1>6

\* The header of a proper update is chunk 0, which announces the size of the image.
LEMMA WifiHeader ==
  ASSUME WifiIInv, ReadHeader
  PROVE  WifiIInv' /\ (Proper => fw_image_size' = Size[image])
  <1> USE DEF ReadHeader, SetChunks
  <1>1. /\ UNCHANGED <<taken, image, chunk_cnt, offset, disturbed>>
        /\ dfu_pc = "header" /\ dfu_pc' = "loop" /\ state' = "upgrade"
        /\ file_read_flash
        /\ fw_image_size' \in SizeIn(recv_buffer')
        /\ chunk_check' = Chunks(fw_image_size')
    OBVIOUS
  <1>2. WifiTypeOK /\ Stages /\ Position /\ Content
    BY DEF WifiIInv
  <1>3. image \in Images
    BY <1>1, <1>2 DEF Stages
  <1>4. /\ fw_image_size' \in 0 .. (MaxU32 - 1) /\ chunk_check' \in 0 .. MaxU32
        /\ recv_buffer' = 0 => fw_image_size' = Size[image]
    BY <1>1, <1>3, WifiWord
  <1>5. WifiTypeOK'
    BY <1>1, <1>2, <1>3, <1>4, WifiRead DEF WifiTypeOK
  <1>6. Stages'
    BY <1>1, <1>2, <1>3 DEF Stages
  <1>7. Proper' <=> Proper
    BY <1>1 DEF Proper, Regular
  <1>8. Content'
    BY <1>1, <1>2, <1>7 DEF Content
  <1>9. ASSUME Proper
        PROVE  /\ recv_buffer' = 0 /\ fpos' = 1 /\ chunk_cnt = 0
               /\ fw_image_size' = Size[image] /\ Chunks(Size[image]) >= 2
               /\ Chunks(Size[image]) \in Nat
    <2>1. fpos = 0 /\ chunk_cnt = 0
      BY <1>1, <1>2, <1>9 DEF Position
    <2>2. FileChunks >= 2 /\ FileChunks = Chunks(Size[image])
          /\ FileChunks \in Nat
      BY <1>2, <1>9, WifiProper
    <2>3. recv_buffer' = 0 /\ fpos' = 1
      BY <1>1, <2>1, <2>2 DEF file_read_flash
    <2>4. QED
      BY <1>4, <2>1, <2>2, <2>3
  <1>10. Position'
    BY <1>1, <1>7, <1>9 DEF Position
  <1>11. QED
    BY <1>5, <1>6, <1>8, <1>9, <1>10 DEF WifiIInv

\* A turn of a proper update sends the next chunk, with the flag of its place.
LEMMA WifiTurn ==
  ASSUME WifiIInv, Proper, Turn
  PROVE  /\ chunk_cnt \in Nat /\ chunk_check = Chunks(Size[image])
         /\ chunk_check \in Nat /\ chunk_cnt < chunk_check /\ chunk_check >= 2
         /\ Flag = "end" <=> chunk_cnt + 1 = chunk_check
         /\ [chunk |-> IF Reads THEN fpos ELSE recv_buffer, flag |-> Flag]
              = NthChunk(chunk_cnt + 1, chunk_check)
         /\ (IF Reads THEN fpos + 1 ELSE fpos) = chunk_cnt + 1
         /\ state = "upgrade"
  <1>1. /\ chunk_check = Chunks(Size[image]) /\ fw_image_size = Size[image]
        /\ fpos = (IF chunk_cnt = 0 THEN 1 ELSE chunk_cnt)
        /\ chunk_cnt = 0 => recv_buffer = 0
        /\ state \in {"upgrade", "done"}
        /\ state = "done" <=> chunk_cnt = chunk_check
        /\ offset = RSI_CHUNK_SIZE * chunk_cnt /\ offset <= fw_image_size
        /\ chunk_cnt <= chunk_check
        /\ chunk_cnt \in Nat
    BY DEF WifiIInv, Position, Stages, Content, Turn, WifiTypeOK
  <1>2. /\ chunk_check \in Nat /\ chunk_check >= 2 /\ FileChunks = chunk_check
        /\ fw_image_size < RSI_CHUNK_SIZE * chunk_check /\ fw_image_size \in Nat
    BY <1>1, WifiProper DEF WifiIInv
  <1>3. chunk_cnt < chunk_check
    BY <1>1, <1>2 DEF RSI_CHUNK_SIZE
  <1>4. Flag = NthChunk(chunk_cnt + 1, chunk_check).flag
    BY <1>1, <1>2, <1>3 DEF Flag, NthChunk
  <1>5. Flag = "end" <=> chunk_cnt + 1 = chunk_check
    BY <1>1, <1>2, <1>3 DEF Flag
  <1>6. Reads <=> chunk_cnt # 0
    BY <1>1, <1>2, <1>3 DEF Reads
  <1>7. (IF Reads THEN fpos ELSE recv_buffer) = chunk_cnt
    BY <1>1, <1>6
  <1>8. [chunk |-> IF Reads THEN fpos ELSE recv_buffer, flag |-> Flag]
              = NthChunk(chunk_cnt + 1, chunk_check)
    BY <1>1, <1>4, <1>7 DEF NthChunk
  <1>9. (IF Reads THEN fpos + 1 ELSE fpos) = chunk_cnt + 1
    BY <1>1, <1>6
  <1>10. QED
    BY <1>1, <1>2, <1>3, <1>5, <1>8, <1>9

\* What is sent is a chunk with a flag, and the counters stay below the sizes.
LEMMA WifiBounds ==
  ASSUME WifiIInv, Turn
  PROVE  /\ image \in Images
         /\ [chunk |-> IF Reads THEN fpos ELSE recv_buffer, flag |-> Flag]
              \in Chunk
         /\ (IF Reads THEN fpos + 1 ELSE fpos) \in 0 .. MaxU32
         /\ chunk_cnt + 1 \in 0 .. MaxU32
         /\ offset + RSI_CHUNK_SIZE \in 0 .. (MaxU32 + RSI_CHUNK_SIZE)
         /\ offset + RSI_CHUNK_SIZE = RSI_CHUNK_SIZE * (chunk_cnt + 1)
  <1>1. image \in Images
    BY DEF WifiIInv, Stages, Turn
  <1>2. FileChunks \in 0 .. (MaxU32 - 1) /\ MaxU32 \in Nat \ {0}
    BY <1>1, WifiFile, WifiSizes
  <1>3. /\ fpos \in 0 .. MaxU32 /\ recv_buffer \in {Zeros} \cup 0 .. MaxU32
        /\ chunk_cnt \in 0 .. MaxU32 /\ fw_image_size \in 0 .. (MaxU32 - 1)
        /\ offset = RSI_CHUNK_SIZE * chunk_cnt /\ offset <= fw_image_size
    BY DEF WifiIInv, WifiTypeOK, Stages, Turn
  <1>4. Flag \in {"start", "between", "end"}
    BY DEF Flag
  <1>5. (IF Reads THEN fpos ELSE recv_buffer) \in {Zeros} \cup 0 .. MaxU32
    BY <1>3
  <1>6. [chunk |-> IF Reads THEN fpos ELSE recv_buffer,
        flag |-> Flag] \in Chunk
    BY <1>4, <1>5 DEF Chunk
  <1>7. (IF Reads THEN fpos + 1 ELSE fpos) \in 0 .. MaxU32
    BY <1>2, <1>3 DEF Reads
  <1>8. /\ chunk_cnt + 1 \in 0 .. MaxU32
        /\ offset + RSI_CHUNK_SIZE \in 0 .. (MaxU32 + RSI_CHUNK_SIZE)
        /\ offset + RSI_CHUNK_SIZE = RSI_CHUNK_SIZE * (chunk_cnt + 1)
    BY <1>2, <1>3 DEF RSI_CHUNK_SIZE
  <1>9. QED
    BY <1>1, <1>6, <1>7, <1>8

\* A chunk that the bootloader takes is the next one of a proper update.
LEMMA WifiSend ==
  ASSUME WifiIInv, SendChunk
  PROVE  WifiIInv'
  <1> DEFINE sent == [chunk |-> IF Reads THEN fpos ELSE recv_buffer,
                     flag |-> Flag]
  <1>1. /\ Turn /\ dfu_pc = "loop" /\ dfu_pc' = "loop"
        /\ UNCHANGED <<image, fw_image_size, chunk_check, disturbed>>
        /\ taken' = Append(taken, sent)
        /\ fpos' = (IF Reads THEN fpos + 1 ELSE fpos)
        /\ recv_buffer' = Zeros
        /\ state' = (IF Flag = "end" THEN "done" ELSE state)
        /\ offset' = offset + RSI_CHUNK_SIZE
        /\ chunk_cnt' = chunk_cnt + 1
    BY DEF SendChunk, Turn
  <1>2. WifiTypeOK /\ Stages /\ Position /\ Content
    BY DEF WifiIInv
  <1>3. /\ image \in Images /\ sent \in Chunk
        /\ fpos' \in 0 .. MaxU32 /\ chunk_cnt' \in 0 .. MaxU32
        /\ offset' \in 0 .. (MaxU32 + RSI_CHUNK_SIZE)
        /\ offset' = RSI_CHUNK_SIZE * chunk_cnt'
    BY <1>1, WifiBounds
  <1>4. /\ taken' \in Seq(Chunk) /\ Len(taken') = Len(taken) + 1
        /\ \A i \in 1 .. Len(taken) : taken'[i] = taken[i]
        /\ taken'[Len(taken) + 1] = sent
    <2>1. taken \in Seq(Chunk)
      BY <1>2 DEF WifiTypeOK
    <2> HIDE DEF sent
    <2>2. QED
      BY <1>1, <1>3, <2>1, AppendProperties
  <1>5. WifiTypeOK'
    <2>1. state' \in {"initial", "upgrade", "done"} /\ recv_buffer' \in {Zeros}
      BY <1>1, <1>2 DEF WifiTypeOK
    <2>2. QED
      BY <1>1, <1>2, <1>3, <1>4, <2>1 DEF WifiTypeOK
  <1>6. Stages'
    BY <1>1, <1>3 DEF Stages
  <1>7. Proper' <=> Proper
    BY <1>1 DEF Proper, Regular
  <1>8. ASSUME Proper
        PROVE  /\ chunk_cnt \in Nat /\ chunk_check = Chunks(Size[image])
               /\ chunk_check \in Nat /\ chunk_cnt < chunk_check
               /\ Flag = "end" <=> chunk_cnt + 1 = chunk_check
               /\ sent = NthChunk(chunk_cnt + 1, chunk_check)
               /\ fpos' = chunk_cnt + 1
               /\ state = "upgrade"
    BY <1>1, <1>8, WifiTurn
  <1> HIDE DEF sent
  <1>9. Position'
    <2>1. SUFFICES ASSUME Proper PROVE Position'
      BY <1>7 DEF Position
    <2>2. fw_image_size = Size[image]
      BY <1>1, <1>2, <2>1 DEF Position
    <2>3. state' \in {"upgrade", "done"}
          /\ (state' = "done" <=> chunk_cnt' = chunk_check')
      BY <1>1, <1>8, <2>1
    <2>4. chunk_cnt' # 0 /\ fpos' = chunk_cnt'
          /\ chunk_check' = Chunks(Size[image'])
          /\ fw_image_size' = Size[image'] /\ dfu_pc' = "loop"
      BY <1>1, <1>8, <2>1, <2>2
    <2>5. QED
      BY <2>3, <2>4 DEF Position
  <1>10. Content'
    <2>1. SUFFICES ASSUME Proper PROVE Content'
      BY <1>7 DEF Content
    <2>2. Len(taken) = chunk_cnt
          /\ \A i \in 1 .. chunk_cnt :
                 taken[i] = NthChunk(i, Chunks(Size[image]))
      BY <1>2, <2>1 DEF Content
    <2>3. Len(taken') = chunk_cnt' /\ chunk_cnt' <= Chunks(Size[image'])
      BY <1>1, <1>4, <1>8, <2>1, <2>2
    <2>4. \A i \in 1 .. chunk_cnt' :
              taken'[i] = NthChunk(i, Chunks(Size[image']))
      <3>1. TAKE i \in 1 .. chunk_cnt'
      <3>2. CASE i \in 1 .. chunk_cnt
        BY <1>1, <1>4, <2>2, <3>2
      <3>3. CASE i = chunk_cnt + 1
        BY <1>1, <1>4, <1>8, <2>1, <2>2, <3>3
      <3>4. i \in 1 .. chunk_cnt \/ i = chunk_cnt + 1
        BY <1>1, <1>8, <2>1
      <3>5. QED
        BY <3>2, <3>3, <3>4
    <2>5. QED
      BY <2>3, <2>4 DEF Content
  <1>11. QED
    BY <1>5, <1>6, <1>9, <1>10 DEF WifiIInv

\* An update in which a chunk was refused is proper no longer.
LEMMA WifiRefused ==
  ASSUME WifiIInv, ChunkRefused
  PROVE  WifiIInv'
  <1> USE DEF counters
  <1>1. /\ Turn /\ disturbed' = TRUE /\ dfu_pc' \in {"reported", "done", "header"}
        /\ UNCHANGED <<taken, image, state, fw_image_size, chunk_check, chunk_cnt,
                       offset>>
        /\ file_read_flash \/ UNCHANGED <<recv_buffer, fpos>>
    BY DEF ChunkRefused
  <1>2. WifiTypeOK /\ Stages
    BY DEF WifiIInv
  <1>3. image \in Images
    BY <1>1, <1>2 DEF Stages, Turn
  <1>4. disturbed' \in BOOLEAN /\ disturbed'
    BY <1>1
  <1>5. WifiTypeOK'
    <2>1. fpos' \in 0 .. MaxU32 /\ recv_buffer' \in {Zeros} \cup 0 .. MaxU32
      BY <1>1, <1>2, <1>3, WifiRead DEF WifiTypeOK
    <2>2. QED
      BY <1>1, <1>2, <1>4, <2>1 DEF WifiTypeOK
  <1>6. Stages'
    BY <1>1, <1>2, <1>3 DEF Stages
  <1>7. Position' /\ Content'
    BY <1>4 DEF Position, Content, Proper
  <1>8. QED
    BY <1>5, <1>6, <1>7 DEF WifiIInv

\* A step of another component.
LEMMA WifiStutter == ASSUME WifiIInv, UNCHANGED wifiVars PROVE WifiIInv'
  BY DEF wifiVars, counters, WifiIInv, WifiTypeOK, Stages, Position,
     Content, Proper, Regular

-----------------------------------------------------------------------------
(* The theorems on the WiFi writer                                         *)

\* The inductive invariant holds in every run, whatever the bootloader refuses and
\* wherever the power fails.
THEOREM WifiUpdateInvariant == WifiSpec => []WifiIInv
  <1>1. WifiInit => WifiIInv
    BY WifiInitial
  <1>2. ASSUME WifiIInv, [WifiNext]_wifiVars
        PROVE  WifiIInv'
    <2>1. CASE WifiCommand \/ FileMissing \/ ReadFails \/ LeaveLoop
      BY <1>2, <2>1, WifiQuiet
    <2>2. CASE ReadHeader
      BY <1>2, <2>2, WifiHeader
    <2>3. CASE SendChunk
      BY <1>2, <2>3, WifiSend
    <2>4. CASE ChunkRefused
      BY <1>2, <2>4, WifiRefused
    <2>5. CASE Reboot \/ PowerLoss
      BY <2>5, WifiInitial DEF Reboot, PowerLoss
    <2>6. CASE UNCHANGED wifiVars
      BY <1>2, <2>6, WifiStutter
    <2>7. QED
      BY <1>2, <2>1, <2>2, <2>3, <2>4, <2>5, <2>6 DEF WifiNext, Update, Failure
  <1>3. QED
    BY <1>1, <1>2, PTL DEF WifiSpec

\* An update is declared complete only when the bootloader has every chunk of the
\* image, once, in order and flagged, and nothing follows the end, for every size.
THEOREM WifiGetsWholeImage == WifiSpec => []CompleteMeansWhole
  <1>1. WifiIInv => CompleteMeansWhole
    <2> SUFFICES ASSUME WifiIInv PROVE CompleteMeansWhole
      OBVIOUS
    <2>1. WifiTypeOK /\ Position /\ Content
      BY DEF WifiIInv
    <2>2. ASSUME dfu_pc = "done", Proper PROVE Whole
      <3>1. /\ Len(taken) = Chunks(Size[image])
            /\ \A i \in 1 .. Chunks(Size[image]) :
                   taken[i] = NthChunk(i, Chunks(Size[image]))
        BY <2>1, <2>2 DEF Position, Content
      <3>2. taken \in Seq(Chunk)
        BY <2>1 DEF WifiTypeOK
      <3>3. taken = [i \in 1 .. Len(taken) |-> taken[i]]
        BY <3>2
      <3>4. QED
        BY <3>1, <3>3 DEF Whole, NthChunk
    <2>3. ASSUME Proper, NEW i \in 1 .. Len(taken), taken[i].flag = "end"
          PROVE  i = Len(taken)
      <3>1. /\ Len(taken) = chunk_cnt /\ chunk_cnt <= Chunks(Size[image])
            /\ \A k \in 1 .. chunk_cnt :
                   taken[k] = NthChunk(k, Chunks(Size[image]))
            /\ chunk_cnt \in Nat
        BY <2>1, <2>3 DEF Content, WifiTypeOK
      <3>2. Chunks(Size[image]) \in Nat
        BY <2>1, <2>3, WifiProper
      <3>3. i = Chunks(Size[image])
        BY <2>3, <3>1 DEF NthChunk
      <3>4. QED
        BY <3>1, <3>2, <3>3
    <2>4. QED
      BY <2>1, <2>2, <2>3 DEF CompleteMeansWhole
  <1>2. QED
    BY <1>1, WifiUpdateInvariant, PTL

\* What is left of an update of the WiFi firmware: chunks and stages.
WifiStagesLeft == CASE dfu_pc = "header" -> 3 [] dfu_pc = "loop" -> 2 [] OTHER -> 1
WifiStepsLeft == Chunks(Size[image]) - chunk_cnt + WifiStagesLeft

\* Every step of a proper update ends it, meets a refused chunk or brings it nearer to
\* its end: the header is read once, and the loop is left for good.
WifiUpdateAdvances ==
    [][dfu_pc # "idle" /\ Proper =>
          /\ WifiStepsLeft \in Nat
          /\ dfu_pc' # "idle" /\ ~disturbed' =>
                image' = image /\ WifiStepsLeft' < WifiStepsLeft]_wifiVars

\* No proper update goes round its stages for ever, for images of any size.
THEOREM WifiAdvances == WifiSpec => WifiUpdateAdvances
  <1> DEFINE Advances == dfu_pc # "idle" /\ Proper =>
          /\ WifiStepsLeft \in Nat
          /\ dfu_pc' # "idle" /\ ~disturbed' =>
                image' = image /\ WifiStepsLeft' < WifiStepsLeft
  <1>1. ASSUME WifiIInv, WifiNext PROVE Advances
    <2> SUFFICES ASSUME dfu_pc # "idle", Proper
                 PROVE  /\ WifiStepsLeft \in Nat
                        /\ dfu_pc' # "idle" /\ ~disturbed' =>
                              image' = image /\ WifiStepsLeft' < WifiStepsLeft
      OBVIOUS
    <2>1. PICK n \in Nat : /\ n = Chunks(Size[image]) /\ n >= 2
                           /\ RSI_CHUNK_SIZE * (n - 1) < Size[image]
                           /\ Size[image] \in Nat
      BY <1>1, WifiProper DEF WifiIInv
    <2>2. chunk_cnt \in Nat /\ chunk_cnt <= n
      BY <1>1, <2>1 DEF WifiIInv, WifiTypeOK, Content
    <2>3. /\ WifiStepsLeft = (n - chunk_cnt) + WifiStagesLeft
          /\ WifiStagesLeft \in 1 .. 3
      BY <2>1, <2>2 DEF WifiStepsLeft, WifiStagesLeft
    <2>4. WifiStepsLeft \in Nat
      BY <2>2, <2>3
    <2>5. CASE ReadHeader
      <3>1. /\ dfu_pc = "header" /\ dfu_pc' = "loop" /\ image' = image
            /\ chunk_cnt' = chunk_cnt
        BY <2>5 DEF ReadHeader
      <3>2. QED
        BY <2>1, <2>2, <2>3, <2>4, <3>1 DEF WifiStepsLeft, WifiStagesLeft
    <2>6. CASE SendChunk
      <3>1. /\ dfu_pc = "loop" /\ dfu_pc' = "loop" /\ image' = image
            /\ chunk_cnt' = chunk_cnt + 1
        BY <2>6 DEF SendChunk, Turn
      <3>2. QED
        BY <2>1, <2>2, <2>3, <2>4, <3>1 DEF WifiStepsLeft, WifiStagesLeft
    <2>7. CASE LeaveLoop
      <3>1. /\ dfu_pc = "loop" /\ offset > fw_image_size /\ image' = image
            /\ chunk_cnt' = chunk_cnt
        BY <2>7 DEF LeaveLoop, counters
      <3>2. /\ fw_image_size = Size[image] /\ offset = RSI_CHUNK_SIZE * chunk_cnt
            /\ state = "done" <=> chunk_cnt = n
        BY <1>1, <2>1, <3>1 DEF WifiIInv, Position, Stages
      <3>3. chunk_cnt = n
        BY <2>1, <2>2, <3>1, <3>2 DEF RSI_CHUNK_SIZE
      <3>4. dfu_pc' = "done"
        BY <2>7, <3>2, <3>3 DEF LeaveLoop
      <3>5. QED
        BY <2>1, <2>2, <2>3, <2>4, <3>1, <3>4 DEF WifiStepsLeft, WifiStagesLeft
    <2>8. CASE ReadFails
      <3>1. /\ dfu_pc \in {"header", "loop"} /\ dfu_pc' = "reported" /\ image' = image
            /\ chunk_cnt' = chunk_cnt
        BY <2>8 DEF ReadFails, Turn, counters
      <3>2. QED
        BY <2>1, <2>2, <2>3, <2>4, <3>1 DEF WifiStepsLeft, WifiStagesLeft
    <2>9. CASE ChunkRefused \/ Reboot \/ PowerLoss \/ WifiCommand \/ FileMissing
      BY <2>4, <2>9 DEF ChunkRefused, Reboot, PowerLoss, Restart, WifiCommand, Start,
         FileMissing
    <2>10. QED
      BY <1>1, <2>5, <2>6, <2>7, <2>8, <2>9 DEF WifiNext, Update, Failure
  <1>2. WifiIInv /\ [WifiNext]_wifiVars => [Advances]_wifiVars
    BY <1>1
  <1>3. QED
    BY <1>2, WifiUpdateInvariant, PTL DEF WifiSpec, WifiUpdateAdvances

\* An update in which no chunk is refused is an image transfer: Rs9116Dfu implements
\* ImageTransfer, for every size of the images.
THEOREM WifiRefinement == WifiSpec => TransferSpec
  <1>1. WifiInit => Transfer!XferInit
    BY DEF WifiInit, Transfer!XferInit, Sending
  <1>2. ASSUME WifiIInv, [WifiNext]_wifiVars
        PROVE  [Transfer!XferNext]_(Transfer!xferVars)
    <2> USE DEF Transfer!XferNext, Transfer!xferVars
    <2>1. ASSUME ~Sending, ~Sending' PROVE UNCHANGED Transfer!xferVars
      BY <2>1
    <2>2. ASSUME Sending, ~Sending' PROVE Transfer!Leave
      BY <2>2 DEF Transfer!Leave
    <2>3. CASE WifiCommand \/ FileMissing \/ ReadFails \/ ChunkRefused
               \/ Reboot \/ PowerLoss
      <3>1. dfu_pc' \in {"idle", "header", "reported"} \/ disturbed' = TRUE
        BY <2>3 DEF WifiCommand, Start, FileMissing, ReadFails,
           ChunkRefused, Reboot, PowerLoss, Restart
      <3>2. ~Sending'
        BY <3>1 DEF Sending, Proper
      <3>3. QED
        BY <2>1, <2>2, <3>2
    <2>4. CASE ReadHeader
      <3>1. /\ ~Sending /\ dfu_pc = "header" /\ dfu_pc' = "loop"
            /\ state' = "upgrade"
            /\ chunk_check' = Chunks(fw_image_size') /\ chunk_cnt' = chunk_cnt
            /\ image' = image /\ disturbed' = disturbed
        BY <2>4 DEF ReadHeader, SetChunks, Sending
      <3>2. Sending' <=> Proper
        BY <3>1 DEF Sending, Proper, Regular
      <3>3. CASE ~Proper
        BY <2>1, <3>1, <3>2, <3>3
      <3>4. CASE Proper
        <4>1. chunk_cnt = 0
          BY <1>2, <3>1, <3>4 DEF WifiIInv, Position
        <4>2. fw_image_size' = Size[image]
          BY <1>2, <2>4, <3>4, WifiHeader
        <4>3. Chunks(Size[image]) \in Nat \ {0}
          BY <1>2, <3>4, WifiProper DEF WifiIInv
        <4>4. Transfer!Begin
          BY <3>1, <3>2, <3>4, <4>1, <4>2, <4>3 DEF Transfer!Begin
        <4>5. QED
          BY <4>4
      <3>5. QED
        BY <3>3, <3>4
    <2>5. CASE SendChunk
      <3>1. /\ Turn /\ dfu_pc = "loop" /\ dfu_pc' = "loop"
            /\ UNCHANGED <<image, chunk_check, disturbed>>
            /\ state' = (IF Flag = "end" THEN "done" ELSE state)
            /\ chunk_cnt' = chunk_cnt + 1
        BY <2>5 DEF SendChunk, Turn
      <3>2. (Sending' <=> Proper) /\ (Sending <=> Proper)
        BY <3>1 DEF Sending, Proper, Regular
      <3>3. CASE ~Proper
        BY <2>1, <3>2, <3>3
      <3>4. CASE Proper
        <4>1. /\ chunk_cnt \in Nat /\ chunk_check \in Nat /\ chunk_cnt < chunk_check
              /\ Flag = "end" <=> chunk_cnt + 1 = chunk_check
              /\ state = "upgrade"
          BY <1>2, <3>1, <3>4, WifiTurn
        <4>2. CASE Flag = "end"
          <5>1. Transfer!Finish
            BY <3>1, <3>2, <3>4, <4>1, <4>2 DEF Transfer!Finish
          <5>2. QED
            BY <5>1
        <4>3. CASE Flag # "end"
          <5>1. Transfer!Deliver
            BY <3>1, <3>2, <3>4, <4>1, <4>3 DEF Transfer!Deliver
          <5>2. QED
            BY <5>1
        <4>4. QED
          BY <4>2, <4>3
      <3>5. QED
        BY <3>3, <3>4
    <2>6. CASE LeaveLoop
      <3>1. /\ UNCHANGED <<image, disturbed, state, chunk_check, chunk_cnt>>
            /\ dfu_pc = "loop"
            /\ dfu_pc' = IF state = "done" THEN "done" ELSE "header"
        BY <2>6 DEF LeaveLoop, counters
      <3>2. CASE dfu_pc' = "done"
        BY <3>1, <3>2 DEF Sending, Proper, Regular
      <3>3. CASE dfu_pc' # "done"
        <4>1. ~Sending'
          BY <3>1, <3>3 DEF Sending
        <4>2. QED
          BY <2>1, <2>2, <4>1
      <3>4. QED
        BY <3>2, <3>3
    <2>7. CASE UNCHANGED wifiVars
      BY <2>7 DEF wifiVars, counters, Sending, Proper, Regular
    <2>8. QED
      BY <1>2, <2>3, <2>4, <2>5, <2>6, <2>7 DEF WifiNext, Update, Failure
  <1>3. QED
    BY <1>1, <1>2, WifiUpdateInvariant, PTL
       DEF WifiSpec, TransferSpec, Transfer!XferSpec

=============================================================================
