---------------------------- MODULE HttpDownload ----------------------------
(***************************************************************************)
(* Downloads (tmo_shell/src/tmo_http_request.c, tmo_dfu_download.c):       *)
(* tmo_http_download requests a resource and writes what it receives to a  *)
(* file; a transfer that stays short of the announced length is taken up   *)
(* again with a Range request, until five attempts in a row brought        *)
(* nothing.  tmo http downloads one resource, tmo dfu download a list of   *)
(* them, whatever becomes of each.                                         *)
(*                                                                         *)
(* The server and the network are external: a request may fail, be         *)
(* answered with the bytes asked for, with the whole resource or with an   *)
(* error page, with or without a length, and any answer may break off.  A  *)
(* body is counted in units, the smallest piece a transfer can end at.     *)
(***************************************************************************)
EXTENDS Integers, Sequences

CONSTANTS
    Files,         \* files of the file system, each with its resource
    Length,        \* Length[f]: units of the resource of f
    Lists          \* the file lists of the targets of tmo dfu download

ASSUME ConstAssumption ==
    /\ Length \in [Files -> Nat \ {0}]
    /\ Lists \subseteq Seq(Files)

MaxAttempts == 5
EAGAIN == 11

VARIABLES
    fs,            \* fs[f]: the units stored in f
    list,          \* files tmo_dfu_download has still to download
    file,          \* file of the current download
    stored,        \* whether it has a file name
    http_total_received, http_content_length, fail_count, ret,
    last_rcvd_cnt, \* units received before the current attempt
    sock,          \* whether sock is a descriptor
    sockets,       \* number of open descriptors
    reply,         \* units of an answer that are still to come
    pc,            \* where the shell thread is
    status,        \* ghost: "none" until connected, then "clean" as long as the
                   \* answers are the units asked for, have a length, and are written
    dry            \* ghost: attempts since a unit was last received, up to five

statics == <<http_total_received, http_content_length>>
call == <<list, file, stored>>
retry == <<fail_count, last_rcvd_cnt>>
socket == <<sock, sockets>>
ghosts == <<status, dry>>
vars == <<fs, call, statics, retry, ret, socket, reply, pc, ghosts>>

\* What the server has for f, and what it has instead.
Resource(f) == [i \in 1 .. Length[f] |-> <<f, i>>]
ErrorPage(f) == << <<f, 0>> >>

Init ==
    /\ fs = [f \in Files |-> <<>>]
    /\ list = <<>> /\ file \in Files /\ stored = FALSE
    /\ http_total_received = 0 /\ http_content_length = 0
    /\ fail_count = 0 /\ ret = 0 /\ last_rcvd_cnt = 0
    /\ sock = FALSE /\ sockets = 0
    /\ reply = <<>>
    /\ pc = "idle"
    /\ status = "none" /\ dry = 0

-----------------------------------------------------------------------------
(* The commands                                                            *)

\* tmo_http_download is called.
Call(f, named) ==
    /\ file' = f /\ stored' = named
    /\ pc' = "call"
    /\ status' = "none" /\ dry' = 0
    /\ UNCHANGED <<fs, statics, retry, ret, socket, reply>>

\* tmo http, with a file name or without.
HttpCommand(f, named) ==
    /\ pc = "idle"
    /\ Call(f, named)
    /\ list' = <<>>

\* tmo dfu download.
DfuCommand(l) ==
    /\ pc = "idle" /\ l # <<>>
    /\ Call(Head(l), TRUE)
    /\ list' = Tail(l)

\* The caller has the result.  The next file of the list is downloaded: the
\* digest of this one is computed, but nothing depends on it.
NextFile ==
    /\ pc = "returned" /\ list # <<>>
    /\ Call(Head(list), TRUE)
    /\ list' = Tail(list)

\* The command ends.
EndCommand ==
    /\ pc = "returned" /\ list = <<>>
    /\ pc' = "idle"
    /\ UNCHANGED <<fs, call, statics, retry, ret, socket, reply, ghosts>>

-----------------------------------------------------------------------------
(* tmo_http_download                                                       *)

\* The URL is not understood, the name not resolved or the interface not there.
Unresolved ==
    /\ pc = "call"
    /\ ret' = -1
    /\ pc' = "returned"
    /\ UNCHANGED <<fs, call, statics, retry, socket, reply, ghosts>>

\* No socket: ret is still the 0 of the name resolution.
SocketFails ==
    /\ pc = "call"
    /\ ret' = 0
    /\ pc' = "exit"
    /\ UNCHANGED <<fs, call, statics, retry, socket, reply, ghosts>>

\* Connecting fails; the socket is the first or the one created for the user's
\* certificate profile, if it could be.
ConnectFails(created) ==
    /\ pc = "call"
    /\ sock' = created /\ sockets' = IF created THEN sockets + 1 ELSE sockets
    /\ ret' = -1
    /\ pc' = "exit"
    /\ UNCHANGED <<fs, call, statics, retry, reply, ghosts>>

\* Connected: the counts are reset.
Connected ==
    /\ pc = "call"
    /\ sock' = TRUE /\ sockets' = sockets + 1
    /\ http_total_received' = 0 /\ http_content_length' = 0
    /\ fail_count' = 0 /\ last_rcvd_cnt' = 0
    /\ status' = "clean"
    /\ UNCHANGED <<call, reply, dry>>

\* The file cannot be opened or truncated.
OpenFails ==
    /\ Connected /\ stored
    /\ ret' = -1
    /\ pc' = "exit"
    /\ UNCHANGED fs

\* The file, if there is one, is empty.
Open ==
    /\ Connected
    /\ fs' = IF stored THEN [fs EXCEPT ![file] = <<>>] ELSE fs
    /\ ret' = 0
    /\ pc' = "request"

\* fail_count is incremented before every attempt but the first.
Retrying == fail_count > 0

\* Faulty variant: the unit at the end of what was received is asked for again.
F_RangeStart == IF Retrying /\ http_total_received > 0
                THEN http_total_received - 1 ELSE 0

\* "Range: bytes=%d-", in an attempt that is not the first.
RangeStart == IF Retrying THEN http_total_received ELSE 0

\* The answers of the server to a request for all from unit `at` on.
Answer(kind, at) ==
    CASE kind = "range" -> SubSeq(Resource(file), at + 1, Length[file])
      [] kind = "all"   -> Resource(file)
      [] kind = "error" -> ErrorPage(file)

\* The header of an answer arrives; only the first length is kept.
SendRequest(kind, sized) ==
    LET body == Answer(kind, RangeStart) IN
    /\ pc = "request" /\ sock
    /\ reply' = body
    /\ http_content_length' = IF http_content_length = 0 /\ sized THEN Len(body)
                              ELSE http_content_length
    /\ status' = IF kind = "range" /\ http_content_length' # 0 THEN status ELSE "disturbed"
    /\ pc' = "response"
    /\ UNCHANGED <<fs, call, http_total_received, retry, ret, socket, dry>>

\* Nothing comes back: the request could not be sent, or the answer stays out.
\* Only the result of the first attempt is kept.
RequestFails(result) ==
    /\ pc = "request"
    /\ ret' = IF Retrying THEN ret ELSE result
    /\ status' = IF Retrying THEN status ELSE "disturbed"
    /\ pc' = "check"
    /\ UNCHANGED <<fs, call, statics, retry, socket, reply, dry>>

\* response_cb_download: a unit of the body is counted and written; a failed
\* write goes unnoticed.
response_cb_download(written) ==
    /\ pc = "response" /\ reply # <<>>
    /\ reply' = Tail(reply)
    /\ http_total_received' = http_total_received + 1
    /\ fs' = IF stored /\ written THEN [fs EXCEPT ![file] = Append(@, Head(reply))] ELSE fs
    /\ status' = IF stored /\ ~written THEN "disturbed" ELSE status
    /\ dry' = 0
    /\ UNCHANGED <<call, http_content_length, retry, ret, socket, pc>>

\* Faulty variant: the count of failures starts over with every attempt.
F_FailCount == 0

\* "Reset count if new data has been transfered"
FailCount == IF Retrying /\ last_rcvd_cnt < http_total_received THEN 0 ELSE fail_count

\* The answer is complete, or breaks off: with an error or without.  Only the
\* result of the first attempt is kept, whatever becomes of the others.
EndResponse(result) ==
    /\ pc = "response"
    /\ result = 0 \/ reply # <<>> \/ http_content_length = 0
    /\ reply' = <<>>
    /\ ret' = IF Retrying THEN ret ELSE result
    /\ fail_count' = FailCount
    /\ pc' = "check"
    /\ UNCHANGED <<fs, call, statics, last_rcvd_cnt, socket, ghosts>>

\* "Transfer failure detected"
Incomplete == /\ http_content_length # 0
              /\ http_content_length > http_total_received
              /\ fail_count < MaxAttempts

\* Faulty variant: the old socket is not closed.
F_OpenAfterRetry(created) == IF created THEN sockets + 1 ELSE sockets

\* Descriptors after the socket was closed and another one created.
OpenAfterRetry(created) ==
    LET left == IF sock THEN sockets - 1 ELSE sockets IN
    IF created THEN left + 1 ELSE left

\* "reinitializing transfer..."
Retry(created) ==
    /\ pc = "check" /\ Incomplete
    /\ fail_count' = fail_count + 1
    /\ sock' = created
    /\ sockets' = OpenAfterRetry(created)
    /\ last_rcvd_cnt' = http_total_received
    /\ dry' = IF dry < MaxAttempts THEN dry + 1 ELSE dry
    /\ pc' = "request"
    /\ UNCHANGED <<fs, call, statics, ret, reply, status>>

\* Faulty variant: giving up is no error.
F_GaveUp == FALSE

\* "Exceded maximum number of attempts for download"
GaveUp == fail_count = MaxAttempts /\ http_total_received # http_content_length

\* The loop is left.
Finish ==
    /\ pc = "check" /\ ~Incomplete
    /\ ret' = IF GaveUp THEN -EAGAIN ELSE ret
    /\ pc' = "exit"
    /\ UNCHANGED <<fs, call, statics, retry, socket, reply, ghosts>>

\* The exit label: file and socket are closed.
Exit ==
    /\ pc = "exit"
    /\ sock' = FALSE /\ sockets' = IF sock THEN sockets - 1 ELSE sockets
    /\ pc' = "returned"
    /\ UNCHANGED <<fs, call, statics, retry, ret, reply, ghosts>>

result == IF ret < 0 THEN ret ELSE http_total_received

-----------------------------------------------------------------------------
Command ==
    \/ \E f \in Files, named \in BOOLEAN : HttpCommand(f, named)
    \/ \E l \in Lists : DfuCommand(l)

Setup ==
    \/ Unresolved \/ SocketFails \/ OpenFails \/ Open
    \/ \E created \in BOOLEAN : ConnectFails(created)

Attempt ==
    \/ \E kind \in {"range", "all", "error"}, sized \in BOOLEAN : SendRequest(kind, sized)
    \/ \E res \in {-1, 0} : RequestFails(res) \/ EndResponse(res)
    \/ \E written \in BOOLEAN : response_cb_download(written)
    \/ \E created \in BOOLEAN : Retry(created)

Download == Setup \/ Attempt \/ Finish \/ Exit \/ NextFile \/ EndCommand

Next == Command \/ Download

Spec == Init /\ [][Next]_vars

\* The shell thread is scheduled, and every request ends: by
\* HTTP_CLIENT_REQ_TIMEOUT at the latest.
FairSpec == Spec /\ WF_vars(Download)

-----------------------------------------------------------------------------
(* Properties                                                              *)

Units == Files \X Nat

\* The values the variables range over.
TypeOK ==
    /\ fs \in [Files -> Seq(Units)]
    /\ list \in Seq(Files) /\ file \in Files /\ stored \in BOOLEAN
    /\ http_total_received \in Nat /\ http_content_length \in Nat
    /\ fail_count \in 0 .. MaxAttempts /\ last_rcvd_cnt \in Nat
    /\ ret \in {0, -1, -EAGAIN}
    /\ sock \in BOOLEAN /\ sockets \in 0 .. 1
    /\ reply \in Seq(Units)
    /\ pc \in {"idle", "call", "request", "response", "check", "exit", "returned"}
    /\ status \in {"none", "clean", "disturbed"}
    /\ dry \in 0 .. MaxAttempts

Transferring == pc \in {"request", "response", "check"}

\* However often a transfer breaks off and is taken up again, the file holds
\* the units received so far, each once and in order (the Range header, the
\* statics of the callback).
StoredInOrder ==
    /\ TypeOK
    /\ Transferring /\ stored /\ status = "clean" =>
           fs[file] = SubSeq(Resource(file), 1, http_total_received)

\* A download that reports success has stored the whole resource, provided the
\* server announced a length and honoured the ranges and the writes succeeded; and
\* it is reported as given up (-EAGAIN) only after five attempts in a row that
\* brought nothing.  Not the converse: when the first answer breaks off with an
\* error, that error is reported even of a file that the retries made whole.
WholeOrError ==
    /\ pc = "returned" /\ status = "clean" /\ result >= 0 =>
           /\ result = Length[file]
           /\ stored => fs[file] = Resource(file)
    /\ pc = "returned" /\ ret = -EAGAIN => dry = MaxAttempts

\* No descriptor is left open, by the retries, by the failures or by the
\* certificate profile fallback.
NoSocketLeak == /\ sockets = IF sock THEN 1 ELSE 0
                /\ pc \in {"idle", "call", "returned"} => sockets = 0

\* Every command ends, whatever the server and the network do.
CommandEnds == (pc # "idle") ~> (pc = "idle")

=============================================================================
