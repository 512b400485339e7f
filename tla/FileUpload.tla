------------------------------ MODULE FileUpload ------------------------------
(***************************************************************************)
(* Uploading files: qweb_files over files_channel and files_io             *)
(* (files_transfer.h), on one connection to the file server.               *)
(*                                                                         *)
(* The client asks with a length, the server answers with an id, the       *)
(* client opens the file and sends it in segments of Flux bytes, each when *)
(* the server asks for it, and says that it has finished; the server       *)
(* answers with the result.  All handlers run on the libhv thread of the   *)
(* connection, one after the other; what the loop of add_data_send sends   *)
(* is one step per buffer, because the connection can break and the file   *)
(* can change between two of them.                                         *)
(*                                                                         *)
(* Bytes are positions in the file: a data frame says where its bytes were *)
(* read and how many they are; bytes are added to a file and cut from it,  *)
(* not rewritten in place.  The server is not in this repository; it       *)
(* counts what it receives and compares that with the length it was told,  *)
(* as check_length_recv does on the client's side.                         *)
(***************************************************************************)
EXTENDS Naturals, Sequences

CONSTANTS File,         \* local files
          Id,           \* ids the server gives to uploads
          NoId,         \* no upload
          Sizes,        \* sizes a file can have, in bytes
          Buf,          \* bytes of one read (char buf[1024])
          Flux,         \* bytes of one segment (flux of check_linit_flux)
          MaxAsk        \* bound: how often upload_file is called

ASSUME FileUploadAssumption ==
    /\ NoId \notin Id
    /\ Sizes \subseteq Nat
    /\ Buf \in Nat \ {0}
    /\ Flux \in Nat \ {0}
    /\ Flux % Buf = 0
    /\ MaxAsk \in Nat

VARIABLES
    size,       \* size[f]: bytes of file f
    present,    \* the files that can be opened
    asks,       \* number of calls of upload_file
    conn,       \* "none", "open", "broken" (sends fail), "closed", "crash"
    channel,    \* ids registered for the connection (_map_channel), or NoChannel
    send,       \* send[i]: the fs_send of id i (_map_send), or NoSend
    busy,       \* id whose add_data_send is running, or NoId
    result,     \* result[i]: what sn_finish_upload said of i
    toServer, toClient,     \* frames in transit
    srv         \* server: srv[i], the upload with id i

fileVars == <<size, present>>
vars == <<fileVars, asks, conn, channel, send, busy, result, toServer,
          toClient, srv>>

NoSend == [eof |-> "closed"]
NoChannel == {NoId}
FsSend == [file : File, length : Sizes, count : Nat, eof : BOOLEAN]

Free == [state |-> "free"]
Live == [state : {"live", "done"}, declared : Sizes, have : Nat,
         intact : BOOLEAN]

\* send_msg and send_data: a frame goes out if the connection is up.
Send(m) == toServer' = IF conn = "open" THEN Append(toServer, m) ELSE toServer

\* sl_message hands the next frame to the handler of its type.
Dispatch(type) ==
    /\ conn \in {"open", "broken"}
    /\ busy = NoId
    /\ toClient # <<>>
    /\ Head(toClient).type = type
    /\ toClient' = Tail(toClient)
-----------------------------------------------------------------------------
Init ==
    /\ size \in [File -> Sizes]
    /\ present = File
    /\ asks = 0
    /\ conn = "none"
    /\ channel = NoChannel
    /\ send = [i \in Id |-> NoSend]
    /\ busy = NoId
    /\ result = [i \in Id |-> "none"]
    /\ toServer = <<>>
    /\ toClient = <<>>
    /\ srv = [i \in Id |-> Free]

\* Other programs: a file grows or is cut, or is removed.
ChangeFile(f) ==
    /\ \E n \in Sizes : n # size[f] /\ size' = [size EXCEPT ![f] = n]
    /\ UNCHANGED <<present, asks, conn, channel, send, busy, result, toServer,
                   toClient, srv>>

RemoveFile(f) ==
    /\ f \in present
    /\ present' = present \ {f}
    /\ UNCHANGED <<size, asks, conn, channel, send, busy, result, toServer,
                   toClient, srv>>

\* The connection opens: sl_open registers it.
SlOpen ==
    /\ conn = "none"
    /\ conn' = "open"
    /\ channel' = {}
    /\ UNCHANGED <<fileVars, asks, send, busy, result, toServer, toClient, srv>>

\* The connection breaks; frames that have arrived are still handled.
Break ==
    /\ conn = "open"
    /\ conn' = "broken"
    /\ toServer' = <<>>
    /\ UNCHANGED <<fileVars, asks, channel, send, busy, result, toClient, srv>>

\* sl_close: remove_id_channel forgets the channel and its ids, and leaves
\* _map_send alone.
SlClose ==
    /\ conn = "broken"
    /\ busy = NoId
    /\ conn' = "closed"
    /\ channel' = NoChannel
    /\ toClient' = <<>>
    /\ UNCHANGED <<fileVars, asks, send, busy, result, toServer, srv>>

\* upload_file: ask with the size the file has now.
UploadFile(f) ==
    /\ conn = "open"
    /\ f \in present
    /\ asks < MaxAsk
    /\ asks' = asks + 1
    /\ Send([type |-> "create_upload", file |-> f, length |-> size[f]])
    /\ UNCHANGED <<fileVars, conn, channel, send, busy, result, toClient, srv>>
-----------------------------------------------------------------------------
(***************************************************************************)
(* Handlers.                                                               *)
(***************************************************************************)
\* open_file_send_channel: the id must be new, the file must open and the
\* channel must exist; otherwise whatever is open under that id is closed.
OpenFileSendChannel(i, f) ==
    LET ok == send[i] = NoSend /\ f \in present /\ channel # NoChannel
    IN /\ send' = [send EXCEPT ![i] =
              IF ok THEN [file |-> f, length |-> size[f], count |-> 0,
                          eof |-> FALSE]
                    ELSE NoSend]
       /\ channel' = IF channel = NoChannel THEN channel
                     ELSE IF ok THEN channel \union {i} ELSE channel \ {i}
       /\ Send(IF ok THEN [type |-> "begin_upload", id |-> i]
               ELSE [type |-> "finish_upload", id |-> i, finish |-> FALSE])

\* task_files_create_upload_back: open the file and ask to begin, or give up.
\* A refusal is only logged.
TaskFilesCreateUploadBack ==
    /\ Dispatch("create_upload_back")
    /\ LET m == Head(toClient)
       IN IF m.ok THEN OpenFileSendChannel(m.id, m.file)
                  ELSE UNCHANGED <<send, channel, toServer>>
    /\ UNCHANGED <<fileVars, asks, conn, busy, result, srv>>

\* task_files_begin_upload_back: enter the loop of add_data_send.
TaskFilesBeginUploadBack ==
    /\ Dispatch("begin_upload_back")
    /\ busy' = Head(toClient).id
    /\ UNCHANGED <<fileVars, asks, conn, channel, send, result, toServer, srv>>

\* Mutant: segments have no end.
CheckLinitFlux_Never(ok, count) == ok

\* check_linit_flux: a segment ends where the count is a multiple of Flux.
CheckLinitFlux(ok, count) == IF count % Flux = 0 THEN FALSE ELSE ok

\* Mutant: the read trusts that the file is no shorter than before.
ReadSize_Trusting(s) ==
    IF size[s.file] - s.count < Buf THEN size[s.file] - s.count ELSE Buf

\* fstream::read: the bytes read; fewer than asked for is the end of the file.
ReadSize(s) ==
    LET rest == IF size[s.file] > s.count THEN size[s.file] - s.count ELSE 0
    IN IF rest < Buf THEN rest ELSE Buf

\* Mutant: leaving the loop always counts as the end of the file.
SegmentEnd_Finish(i) ==
    <<[type |-> "finish_upload", id |-> i, finish |-> TRUE]>>

\* Mutant: after the segment nothing is asked for.
SegmentEnd_Silent(i) == <<>>

\* task_files_begin_upload_back, when add_data_send has stopped early.
SegmentEnd(i) == <<[type |-> "begin_upload", id |-> i]>>

\* add_data_send, one round: read a buffer, send it, compute the progress in
\* percent of the length (a division by zero for an empty file), and leave the
\* loop, asking for the next segment, if this one is at its end or the send
\* failed.
AddDataSend ==
    /\ busy # NoId
    /\ conn # "crash"
    /\ send[busy] # NoSend
    /\ ~send[busy].eof
    /\ LET s == send[busy]
           n == ReadSize(s)
           data == [type |-> "data", id |-> busy, from |-> s.count, bytes |-> n]
           more == CheckLinitFlux(conn = "open", s.count + n)
       IN /\ send' = [send EXCEPT ![busy].count = s.count + n,
                                  ![busy].eof = n < Buf]
          /\ toServer' = IF conn # "open" THEN toServer
                         ELSE toServer \o <<data>> \o
                              IF more \/ s.length = 0 THEN <<>>
                              ELSE SegmentEnd(busy)
          /\ busy' = IF more THEN busy ELSE NoId
          /\ conn' = IF s.length = 0 THEN "crash" ELSE conn
    /\ UNCHANGED <<fileVars, asks, channel, result, toClient, srv>>

\* The loop ends at the end of the file, or has nothing to loop over, and
\* task_files_begin_upload_back says that the upload is finished.
FinishUpload ==
    /\ busy # NoId
    /\ send[busy] = NoSend \/ send[busy].eof
    /\ conn # "crash"
    /\ Send([type |-> "finish_upload", id |-> busy, finish |-> TRUE])
    /\ busy' = NoId
    /\ UNCHANGED <<fileVars, asks, conn, channel, send, result, toClient, srv>>

\* Mutant: the result the server reports is not looked at.
TaskFilesFinishUploadBack_Blind ==
    /\ Dispatch("finish_upload_back")
    /\ LET m == Head(toClient)
       IN /\ send' = [send EXCEPT ![m.id] = NoSend]
          /\ channel' = channel \ {m.id}
          /\ result' = [result EXCEPT ![m.id] = "ok"]
    /\ UNCHANGED <<fileVars, asks, conn, busy, toServer, srv>>

\* Mutant: the file is closed and stays listed in the channel.
TaskFilesFinishUploadBack_Listed ==
    /\ Dispatch("finish_upload_back")
    /\ LET m == Head(toClient)
       IN /\ send' = [send EXCEPT ![m.id] = NoSend]
          /\ result' = [result EXCEPT ![m.id] = IF m.ok THEN "ok" ELSE "failed"]
    /\ UNCHANGED <<fileVars, asks, conn, channel, busy, toServer, srv>>

\* task_files_finish_upload_back: close the file and report the result.
TaskFilesFinishUploadBack ==
    /\ Dispatch("finish_upload_back")
    /\ LET m == Head(toClient)
       IN /\ send' = [send EXCEPT ![m.id] = NoSend]
          /\ channel' = channel \ {m.id}
          /\ result' = [result EXCEPT ![m.id] = IF m.ok THEN "ok" ELSE "failed"]
    /\ UNCHANGED <<fileVars, asks, conn, busy, toServer, srv>>
-----------------------------------------------------------------------------
(***************************************************************************)
(* The file server (external).                                             *)
(***************************************************************************)
SrvReads(type) ==
    /\ conn = "open"
    /\ toServer # <<>>
    /\ Head(toServer).type = type
    /\ toServer' = Tail(toServer)

\* A request gets an id that is not in use, or is refused.
SrvCreate ==
    /\ SrvReads("create_upload")
    /\ LET m == Head(toServer)
           back(i, ok) == [type |-> "create_upload_back", id |-> i,
                           file |-> m.file, ok |-> ok]
       IN \/ \E i \in Id :
                /\ srv[i] = Free
                /\ srv' = [srv EXCEPT ![i] = [state |-> "live",
                       declared |-> m.length, have |-> 0, intact |-> TRUE]]
                /\ toClient' = Append(toClient, back(i, TRUE))
          \/ /\ toClient' = Append(toClient, back(NoId, FALSE))
             /\ UNCHANGED srv
    /\ UNCHANGED <<fileVars, asks, conn, channel, send, busy, result>>

\* A segment is asked for when it is announced.
SrvBegin ==
    /\ SrvReads("begin_upload")
    /\ toClient' = Append(toClient, [type |-> "begin_upload_back",
                                     id |-> Head(toServer).id])
    /\ UNCHANGED <<fileVars, asks, conn, channel, send, busy, result, srv>>

\* Data is appended to what has been received: still a copy of the file, if
\* it continues where that ends.
SrvData ==
    /\ SrvReads("data")
    /\ LET m == Head(toServer)
       IN srv' = [srv EXCEPT ![m.id].have = @ + m.bytes,
                             ![m.id].intact = @ /\ m.from = srv[m.id].have]
    /\ UNCHANGED <<fileVars, asks, conn, channel, send, busy, result, toClient>>

\* The end of an upload is answered with the outcome.
SrvFinish ==
    /\ SrvReads("finish_upload")
    /\ LET m == Head(toServer)
           u == srv[m.id]
       IN /\ srv' = [srv EXCEPT ![m.id].state = "done"]
          /\ toClient' = Append(toClient, [type |-> "finish_upload_back",
                 id |-> m.id, ok |-> m.finish /\ u.have = u.declared])
    /\ UNCHANGED <<fileVars, asks, conn, channel, send, busy, result>>
-----------------------------------------------------------------------------
Client ==
    \/ TaskFilesCreateUploadBack
    \/ TaskFilesBeginUploadBack
    \/ AddDataSend
    \/ FinishUpload
    \/ TaskFilesFinishUploadBack

Server == SrvCreate \/ SrvBegin \/ SrvData \/ SrvFinish

Next ==
    \/ \E f \in File : ChangeFile(f) \/ RemoveFile(f) \/ UploadFile(f)
    \/ SlOpen
    \/ Break
    \/ SlClose
    \/ Client
    \/ Server

Spec == Init /\ [][Next]_vars

\* The libhv thread and the server keep working; the rest owes nothing.
Fairness == WF_vars(Client) /\ WF_vars(Server)

FairSpec == Spec /\ Fairness
-----------------------------------------------------------------------------
(***************************************************************************)
(* Properties.                                                             *)
(***************************************************************************)
ToServer ==
    [type : {"create_upload"}, file : File, length : Sizes]
      \union [type : {"begin_upload"}, id : Id]
      \union [type : {"data"}, id : Id, from : Nat, bytes : Nat]
      \union [type : {"finish_upload"}, id : Id, finish : BOOLEAN]
ToClient ==
    [type : {"create_upload_back"}, id : Id, file : File, ok : {TRUE}]
      \union [type : {"create_upload_back"}, id : {NoId}, file : File, ok : {FALSE}]
      \union [type : {"begin_upload_back"}, id : Id]
      \union [type : {"finish_upload_back"}, id : Id, ok : BOOLEAN]

TypeOK ==
    /\ size \in [File -> Sizes]
    /\ present \in SUBSET File
    /\ asks \in Nat
    /\ conn \in {"none", "open", "broken", "closed", "crash"}
    /\ channel \in (SUBSET Id) \union {NoChannel}
    /\ send \in [Id -> FsSend \union {NoSend}]
    /\ busy \in Id \union {NoId}
    /\ result \in [Id -> {"none", "ok", "failed"}]
    /\ toServer \in Seq(ToServer)
    /\ toClient \in Seq(ToClient)
    /\ srv \in [Id -> Live \union {Free}]

\* An upload reported as successful is on the server byte for byte, with the
\* length the file had when upload_file was called, whatever happened to the
\* file and to the connection meanwhile and however segments of several uploads
\* alternate.
UploadIntact ==
    \A i \in Id : result[i] = "ok" =>
        /\ srv[i] # Free
        /\ srv[i].intact
        /\ srv[i].have = srv[i].declared

\* The client says it has finished only when it has read the file to its end
\* and the server has every byte of it.
FinishedIsDelivered ==
    \A i \in Id : send[i] # NoSend /\ srv[i].state = "done" =>
        /\ send[i].eof
        /\ srv[i].have = send[i].count
        /\ srv[i].intact

\* At most one segment of an upload is under way, so what the client makes the
\* network and the server hold is bounded.
FluxBound ==
    \A i \in Id : send[i] # NoSend /\ conn = "open" =>
        /\ srv[i].have <= send[i].count
        /\ send[i].count - srv[i].have <= Flux

\* The channel of a connection that is up lists exactly its open files.
ChannelTracksFiles ==
    channel # NoChannel => channel = {i \in Id : send[i] # NoSend}

\* An upload that has an id ends with a result, unless the connection breaks:
\* also if the file is as long as a whole number of segments, when it takes one
\* more request for a segment to see its end, and if it is gone when it is
\* opened.  (It is about files that are never empty.)
UploadEnds ==
    \A i \in Id :
        (srv[i].state = "live" /\ conn = "open")
            ~> (result[i] # "none" \/ conn # "open")

\* The three steps of an upload that qweb_files.h documents: once the request is
\* answered the data is sent and the result submitted, and the result comes back.
UploadCompletes ==
    \A i \in Id :
        (srv[i].state = "live" /\ conn = "open")
            ~> (result[i] # "none" \/ conn \in {"broken", "closed"})
=============================================================================
