----------------------------- MODULE FileDownload -----------------------------
(***************************************************************************)
(* Downloading files: qweb_files over files_channel and files_io           *)
(* (files_transfer.h), on one connection to the file server.               *)
(*                                                                         *)
(* The client asks for a file, the server answers with an id and a length, *)
(* the client opens the file it saves to and asks for segment after        *)
(* segment, and the server says when it has sent everything.  What the     *)
(* client writes stays in the buffer of its stream until the stream        *)
(* flushes it, at the latest when it is closed; the disk can be full by    *)
(* then.  All handlers run on the libhv thread of the connection.          *)
(*                                                                         *)
(* A data frame says where in the server's file its bytes were read and    *)
(* how many they are.  The server is not in this repository; it sends the  *)
(* way add_data_send does, and its files can change.                       *)
(***************************************************************************)
EXTENDS Naturals, Sequences

CONSTANTS File,         \* files of the server, each saved to a path of its own
          Id,           \* ids the server gives to downloads
          NoId,         \* no download
          Sizes,        \* sizes a file of the server can have, in bytes
          Buf,          \* bytes of one data frame
          Flux          \* bytes of one segment

ASSUME FileDownloadAssumption ==
    /\ NoId \notin Id
    /\ Sizes \subseteq Nat
    /\ Buf \in Nat \ {0}
    /\ Flux \in Nat \ {0}
    /\ Flux % Buf = 0

VARIABLES
    asked,      \* the files asked for (bound: each file once)
    conn,       \* "none", "open", "broken" (sends fail), "closed", "crash"
    channel,    \* ids registered for the connection (_map_channel), or NoChannel
    recv,       \* recv[i]: the fs_recv of id i (_map_recv), or NoRecv
    saved,      \* saved[f]: bytes of f on the disk, and whether they are right
    full,       \* no byte fits on the disk any more
    result,     \* result[i]: what sn_finish_download said of i
    toServer, toClient,     \* frames in transit
    size,       \* server: size[f], bytes of file f
    srv         \* server: srv[i], the download with id i

clientVars == <<asked, conn, channel, recv, saved, full, result>>
vars == <<clientVars, toServer, toClient, size, srv>>

NoChannel == {NoId}
NoRecv == [good |-> "closed"]
FsRecv == [file : File, length : Sizes, count : Nat, good : BOOLEAN]
Saved == [bytes : Nat, intact : BOOLEAN]

Free == [state |-> "free"]
Live == [state : {"idle", "sending", "done"}, file : File, length : Sizes,
         pos : Nat]

\* send_msg: a frame goes out if the connection is up.
Send(m) == toServer' = IF conn = "open" THEN Append(toServer, m) ELSE toServer

\* sl_message hands the next frame to the handler of its type.
Dispatch(type) ==
    /\ conn \in {"open", "broken"}
    /\ toClient # <<>>
    /\ Head(toClient).type = type
    /\ toClient' = Tail(toClient)
-----------------------------------------------------------------------------
Init ==
    /\ asked = {}
    /\ conn = "none"
    /\ channel = NoChannel
    /\ recv = [i \in Id |-> NoRecv]
    /\ saved = [f \in File |-> [bytes |-> 0, intact |-> TRUE]]
    /\ full = FALSE
    /\ result = [i \in Id |-> "none"]
    /\ toServer = <<>>
    /\ toClient = <<>>
    /\ size \in [File -> Sizes]
    /\ srv = [i \in Id |-> Free]

\* The connection opens: sl_open registers it.
SlOpen ==
    /\ conn = "none"
    /\ conn' = "open"
    /\ channel' = {}
    /\ UNCHANGED <<asked, recv, saved, full, result, toServer, toClient, size, srv>>

\* The connection breaks; frames that have arrived are still handled.
Break ==
    /\ conn = "open"
    /\ conn' = "broken"
    /\ toServer' = <<>>
    /\ UNCHANGED <<asked, channel, recv, saved, full, result, toClient, size, srv>>

\* sl_close: remove_id_channel forgets the channel and its ids, and leaves
\* _map_recv alone.
SlClose ==
    /\ conn = "broken"
    /\ conn' = "closed"
    /\ channel' = NoChannel
    /\ toClient' = <<>>
    /\ UNCHANGED <<asked, recv, saved, full, result, toServer, size, srv>>

\* The disk fills up.
FillDisk ==
    /\ ~full
    /\ full' = TRUE
    /\ UNCHANGED <<asked, conn, channel, recv, saved, result, toServer, toClient,
                   size, srv>>

\* download_file.
DownloadFile(f) ==
    /\ conn = "open"
    /\ f \notin asked
    /\ asked' = asked \union {f}
    /\ Send([type |-> "create_download", file |-> f])
    /\ UNCHANGED <<conn, channel, recv, saved, full, result, toClient, size, srv>>
-----------------------------------------------------------------------------
(***************************************************************************)
(* Handlers.                                                               *)
(***************************************************************************)
\* open_file_recv_channel: the id must be new, the path must open (it may
\* not) and the channel must exist; otherwise whatever is open under that id
\* is closed.  Opening empties the file.
OpenFileRecvChannel(i, f, length, opens) ==
    LET ok == recv[i] = NoRecv /\ opens /\ channel # NoChannel
    IN /\ recv' = [recv EXCEPT ![i] =
              IF ok THEN [file |-> f, length |-> length, count |-> 0,
                          good |-> TRUE]
                    ELSE NoRecv]
       /\ saved' = IF recv[i] = NoRecv /\ opens
                   THEN [saved EXCEPT ![f] = [bytes |-> 0, intact |-> TRUE]]
                   ELSE saved
       /\ channel' = IF channel = NoChannel THEN channel
                     ELSE IF ok THEN channel \union {i} ELSE channel \ {i}
       /\ Send(IF ok THEN [type |-> "begin_download", id |-> i]
                     ELSE [type |-> "finish_download", id |-> i, ok |-> FALSE])

\* task_files_create_download_back: open the file and ask for a segment, or
\* give up.  A refusal is only logged.
TaskFilesCreateDownloadBack ==
    /\ Dispatch("create_download_back")
    /\ LET m == Head(toClient)
       IN IF m.ok
          THEN \E opens \in BOOLEAN :
                   OpenFileRecvChannel(m.id, m.file, m.length, opens)
          ELSE UNCHANGED <<recv, saved, channel, toServer>>
    /\ UNCHANGED <<asked, conn, full, result, size, srv>>

\* Mutant: the -1 of a failed write is added.
CountRecv_Error(r, n, good) == IF good THEN r.count + n ELSE r.count - 1

\* Mutant: the count is not kept.
CountRecv_Lost(r, n, good) == r.count

\* add_data_recv: what the stream refused does not count.
CountRecv(r, n, good) == IF good THEN r.count + n ELSE r.count

\* task_recv_binary_data: add_data_recv writes to the stream, which keeps the
\* bytes, or flushes all it has, which fails on a full disk and stays failed
\* (the stream has no room left, so there are bytes to be written); then the
\* progress is computed in percent of the length.  Data of an unknown id is
\* logged.
TaskRecvBinaryData ==
    /\ Dispatch("data")
    /\ LET m == Head(toClient)
           r == recv[m.id]
       IN IF r = NoRecv
          THEN UNCHANGED <<recv, saved, conn>>
          ELSE \E flush \in {FALSE, m.bytes > 0} :
               LET good == r.good /\ ~(flush /\ full)
                   count == CountRecv(r, m.bytes, good)
                   s == saved[r.file]
               IN /\ recv' = [recv EXCEPT ![m.id].count = count,
                                          ![m.id].good = good]
                  /\ saved' = [saved EXCEPT ![r.file] =
                         [bytes |-> IF good /\ flush THEN count ELSE s.bytes,
                          intact |-> s.intact /\ (good => m.from = r.count)]]
                  /\ conn' = IF r.length = 0 THEN "crash" ELSE conn
    /\ UNCHANGED <<asked, channel, full, result, toServer, size, srv>>

\* Mutant: the answer is ignored.
TaskFilesBeginDownloadBack_Ignored ==
    /\ Dispatch("begin_download_back")
    /\ UNCHANGED <<clientVars, toServer, size, srv>>

\* task_files_begin_download_back: ask for the next segment.
TaskFilesBeginDownloadBack ==
    /\ Dispatch("begin_download_back")
    /\ Send([type |-> "begin_download", id |-> Head(toClient).id])
    /\ UNCHANGED <<clientVars, size, srv>>

\* Mutant: the length is not looked at.
CheckLengthRecv_Any(r) == r # NoRecv

\* check_length_recv.
CheckLengthRecv(r) == r # NoRecv /\ r.count = r.length

\* Mutant: the file is closed and stays listed in the channel.
TaskFilesFinishDownloadBack_Listed ==
    /\ Dispatch("finish_download_back")
    /\ LET m == Head(toClient)
           r == recv[m.id]
       IN /\ result' = [result EXCEPT ![m.id] =
                            IF CheckLengthRecv(r) /\ m.ok THEN "ok" ELSE "failed"]
          /\ saved' = IF r # NoRecv /\ r.good /\ ~full
                      THEN [saved EXCEPT ![r.file].bytes = r.count]
                      ELSE saved
          /\ recv' = [recv EXCEPT ![m.id] = NoRecv]
          /\ Send([type |-> "finish_download", id |-> m.id, ok |-> TRUE])
    /\ UNCHANGED <<asked, conn, channel, full, size, srv>>

\* task_files_finish_download_back: compare the count with the length, close
\* the file, which flushes it if it can, confirm and report.
TaskFilesFinishDownloadBack ==
    /\ Dispatch("finish_download_back")
    /\ LET m == Head(toClient)
           r == recv[m.id]
       IN /\ result' = [result EXCEPT ![m.id] =
                            IF CheckLengthRecv(r) /\ m.ok THEN "ok" ELSE "failed"]
          /\ saved' = IF r # NoRecv /\ r.good /\ ~full
                      THEN [saved EXCEPT ![r.file].bytes = r.count]
                      ELSE saved
          /\ recv' = [recv EXCEPT ![m.id] = NoRecv]
          /\ channel' = channel \ {m.id}
          /\ Send([type |-> "finish_download", id |-> m.id, ok |-> TRUE])
    /\ UNCHANGED <<asked, conn, full, size, srv>>
-----------------------------------------------------------------------------
(***************************************************************************)
(* The file server (external).                                             *)
(***************************************************************************)
SrvReads(type) ==
    /\ conn = "open"
    /\ toServer # <<>>
    /\ Head(toServer).type = type
    /\ toServer' = Tail(toServer)

\* A file of the server changes.
SrvChangeFile(f) ==
    /\ \E n \in Sizes : n # size[f] /\ size' = [size EXCEPT ![f] = n]
    /\ UNCHANGED <<clientVars, toServer, toClient, srv>>

\* A request gets an id that is not in use, or is refused.
SrvCreate ==
    /\ SrvReads("create_download")
    /\ LET f == Head(toServer).file
           back(i, ok) == [type |-> "create_download_back", id |-> i,
                           length |-> size[f], file |-> f, ok |-> ok]
       IN \/ \E i \in Id :
                /\ srv[i] = Free
                /\ srv' = [srv EXCEPT ![i] = [state |-> "idle", file |-> f,
                                              length |-> size[f], pos |-> 0]]
                /\ toClient' = Append(toClient, back(i, TRUE))
          \/ /\ toClient' = Append(toClient, back(NoId, FALSE))
             /\ UNCHANGED srv
    /\ UNCHANGED <<clientVars, size>>

\* The client wants a segment.
SrvBegin ==
    /\ SrvReads("begin_download")
    /\ srv' = [srv EXCEPT ![Head(toServer).id].state = "sending"]
    /\ UNCHANGED <<clientVars, toClient, size>>

\* The next bytes are sent; after them the segment, or the file, may be at its
\* end, which the client is told.
SrvSend(i) ==
    /\ conn = "open"
    /\ srv[i].state = "sending"
    /\ LET p == srv[i].pos
           rest == IF size[srv[i].file] > p THEN size[srv[i].file] - p ELSE 0
           n == IF rest < Buf THEN rest ELSE Buf
           data == [type |-> "data", id |-> i, from |-> p, bytes |-> n]
           end == IF n < Buf
                  THEN <<[type |-> "finish_download_back", id |-> i, ok |-> TRUE]>>
                  ELSE IF (p + n) % Flux = 0
                  THEN <<[type |-> "begin_download_back", id |-> i]>>
                  ELSE <<>>
       IN /\ toClient' = toClient \o <<data>> \o end
          /\ srv' = [srv EXCEPT ![i].pos = p + n,
                 ![i].state = IF n < Buf THEN "done"
                              ELSE IF (p + n) % Flux = 0 THEN "idle" ELSE @]
    /\ UNCHANGED <<clientVars, toServer, size>>

\* The server cannot read its file any more, and says so.
SrvFail(i) ==
    /\ conn = "open"
    /\ srv[i].state = "sending"
    /\ srv' = [srv EXCEPT ![i].state = "done"]
    /\ toClient' = Append(toClient, [type |-> "finish_download_back", id |-> i,
                                     ok |-> FALSE])
    /\ UNCHANGED <<clientVars, toServer, size>>

\* The client is done, or gave up.
SrvFinish ==
    /\ SrvReads("finish_download")
    /\ srv' = [srv EXCEPT ![Head(toServer).id].state = "done"]
    /\ UNCHANGED <<clientVars, toClient, size>>
-----------------------------------------------------------------------------
Client ==
    \/ TaskFilesCreateDownloadBack
    \/ TaskRecvBinaryData
    \/ TaskFilesBeginDownloadBack
    \/ TaskFilesFinishDownloadBack

Server ==
    \/ SrvCreate
    \/ SrvBegin
    \/ SrvFinish
    \/ \E i \in Id : SrvSend(i) \/ SrvFail(i)

Next ==
    \/ SlOpen
    \/ Break
    \/ SlClose
    \/ FillDisk
    \/ \E f \in File : DownloadFile(f) \/ SrvChangeFile(f)
    \/ Client
    \/ Server

Spec == Init /\ [][Next]_vars

\* The libhv thread and the server keep working, the server on every download;
\* the rest owes nothing.
Fairness ==
    /\ WF_vars(Client)
    /\ WF_vars(SrvCreate \/ SrvBegin \/ SrvFinish)
    /\ \A i \in Id : WF_vars(SrvSend(i) \/ SrvFail(i))

FairSpec == Spec /\ Fairness
-----------------------------------------------------------------------------
(***************************************************************************)
(* Properties.                                                             *)
(***************************************************************************)
ToServer ==
    [type : {"create_download"}, file : File]
      \union [type : {"begin_download"}, id : Id]
      \union [type : {"finish_download"}, id : Id, ok : BOOLEAN]
ToClient ==
    [type : {"create_download_back"}, id : Id, length : Sizes, file : File,
     ok : {TRUE}]
      \union [type : {"create_download_back"}, id : {NoId}, length : Sizes,
              file : File, ok : {FALSE}]
      \union [type : {"data"}, id : Id, from : Nat, bytes : Nat]
      \union [type : {"begin_download_back"}, id : Id]
      \union [type : {"finish_download_back"}, id : Id, ok : BOOLEAN]

TypeOK ==
    /\ asked \in SUBSET File
    /\ conn \in {"none", "open", "broken", "closed", "crash"}
    /\ channel \in (SUBSET Id) \union {NoChannel}
    /\ recv \in [Id -> FsRecv \union {NoRecv}]
    /\ saved \in [File -> Saved]
    /\ full \in BOOLEAN
    /\ result \in [Id -> {"none", "ok", "failed"}]
    /\ toServer \in Seq(ToServer)
    /\ toClient \in Seq(ToClient)
    /\ size \in [File -> Sizes]
    /\ srv \in [Id -> Live \union {Free}]

Whole(i) ==
    LET s == saved[srv[i].file]
    IN s.intact /\ s.bytes = srv[i].length

\* While the disk has room, a download reported as successful is saved byte for
\* byte, with the length the server announced: also when the server's file
\* changes while it is sent, and when the segments of downloads alternate.
DownloadIntact ==
    \A i \in Id : result[i] = "ok" /\ ~full => Whole(i)

\* The client asks for a segment when it has written the one before, so the
\* server is never more than a segment ahead of what is written.
SegmentBound ==
    \A i \in Id : recv[i] # NoRecv /\ recv[i].good /\ conn = "open" =>
        /\ recv[i].count <= srv[i].pos
        /\ srv[i].pos - recv[i].count <= Flux

\* The channel of a connection that is up lists exactly its open files.
ChannelTracksFiles ==
    channel # NoChannel => channel = {i \in Id : recv[i] # NoRecv}

\* A download whose file has been opened ends with a result, also if the file
\* is as long as a whole number of segments, unless the connection breaks.
\* (It is about files that are never empty.)
DownloadEnds ==
    \A i \in Id :
        (recv[i] # NoRecv /\ conn = "open")
            ~> (result[i] # "none" \/ conn # "open")

\* task_files_finish_download_back checks whether the file is complete: a
\* download that it reports as successful is.
SuccessIsComplete ==
    \A i \in Id : result[i] = "ok" => Whole(i)
=============================================================================
