---------------------------- MODULE FileUploadProof ----------------------------
(***************************************************************************)
(* Proofs about FileUpload, for any files, sizes, ids and segment sizes.   *)
(*                                                                         *)
(* The protocol hands a turn back and forth: for each upload at most one   *)
(* frame that asks or answers is on its way, or the loop of add_data_send  *)
(* runs, never two of these.  The data frames travel before the client's   *)
(* next turn and make up what lies between the server's bytes and the      *)
(* client's count.                                                         *)
(***************************************************************************)
EXTENDS FileUpload, Queues

\* The frames of upload i that carry its turn, and its data.
UpTurn(i) ==
    [type : {"begin_upload"}, id : {i}]
      \union [type : {"finish_upload"}, id : {i}, finish : BOOLEAN]
DownTurn(i) ==
    [type : {"create_upload_back"}, id : {i}, file : File, ok : {TRUE}]
      \union [type : {"begin_upload_back"}, id : {i}]
      \union [type : {"finish_upload_back"}, id : {i}, ok : BOOLEAN]
DataOf(i) == [type : {"data"}, id : {i}, from : Nat, bytes : Nat]

Sending(i) == srv[i].state = "live" /\ send[i] # NoSend

\* A segment ends at a multiple of Flux, or with the file.
Aligned(i) == send[i].eof \/ send[i].count % Flux = 0

\* One turn at a time, and no data behind it.
OneTurn(i) ==
    /\ AtMostOne(toServer, UpTurn(i))
    /\ AtMostOne(toClient, DownTurn(i))
    /\ None(toServer, UpTurn(i)) \/ None(toClient, DownTurn(i))
    /\ busy = i => None(toServer, UpTurn(i)) /\ None(toClient, DownTurn(i))
    /\ NoneBehind(toServer, UpTurn(i), DataOf(i))

\* What has happened when a frame of upload i is on its way.
UpFrames(i) ==
    \A m \in Contents(toServer) :
        /\ m \in DataOf(i) => Sending(i)
        /\ m \in UpTurn(i) =>
              /\ srv[i].state = "live"
              /\ m.type = "begin_upload" => Sending(i) /\ Aligned(i)
              /\ m.type = "finish_upload" =>
                    IF m.finish THEN Sending(i) /\ send[i].eof ELSE send[i] = NoSend

DownFrames(i) ==
    \A m \in Contents(toClient) : m \in DownTurn(i) =>
        /\ m.type = "create_upload_back" =>
              srv[i].state = "live" /\ srv[i].have = 0 /\ send[i] = NoSend
        /\ m.type = "begin_upload_back" =>
              Sending(i) /\ Aligned(i) /\ srv[i].have = send[i].count
        /\ m.type = "finish_upload_back" =>
              srv[i].state = "done" /\ (m.ok => srv[i].have = srv[i].declared)

\* The server's side of upload i.
Served(i) ==
    /\ srv[i] = Free =>
          /\ send[i] = NoSend
          /\ None(toServer, UpTurn(i)) /\ None(toClient, DownTurn(i))
    /\ srv[i] # Free => srv[i].intact
    /\ srv[i].state = "done" /\ send[i] # NoSend =>
          send[i].eof /\ srv[i].have = send[i].count
    /\ result[i] = "ok" => srv[i].state = "done" /\ srv[i].have = srv[i].declared

\* The data frames in transit are what the server does not have yet; all of
\* them belong to one segment, which begins at b.
Streaming(i) ==
    conn = "open" /\ send[i] # NoSend =>
        /\ Chain(toServer, DataOf(i), srv[i].have, send[i].count)
        /\ send[i].eof \/ send[i].count % Buf = 0
        /\ \E b \in 0..send[i].count :
              /\ b % Flux = 0
              /\ b <= srv[i].have
              /\ send[i].count <= b + Flux
              /\ busy = i /\ ~send[i].eof => send[i].count < b + Flux

Upload(i) ==
    /\ busy = i => Sending(i)
    /\ OneTurn(i)
    /\ UpFrames(i)
    /\ DownFrames(i)
    /\ Served(i)
    /\ Streaming(i)

\* The connection: nothing is open before it is there, a channel exists while
\* it does, and only then a loop runs.
Connected ==
    /\ channel = NoChannel <=> conn \in {"none", "closed"}
    /\ busy # NoId => conn \notin {"none", "closed"}
    /\ conn = "none" => \A i \in Id : send[i] = NoSend

IInv ==
    /\ TypeOK
    /\ Connected
    /\ ChannelTracksFiles
    /\ \A i \in Id : Upload(i)
-----------------------------------------------------------------------------
(***************************************************************************)
(* Frames and queues.                                                      *)
(***************************************************************************)
\* A frame that carries a turn or data of i has its id and one of its types.
LEMMA FrameShape ==
    ASSUME NEW i, NEW m
    PROVE  /\ m \in UpTurn(i) => m.id = i /\ m.type \in {"begin_upload", "finish_upload"}
           /\ m \in DataOf(i) => /\ m.id = i /\ m.type = "data"
                                 /\ m.from \in Nat /\ m.bytes \in Nat
           /\ m \in DownTurn(i) => /\ m.id = i
                                   /\ m.type \in {"create_upload_back", "begin_upload_back",
                                                  "finish_upload_back"}
                                   /\ m.type = "create_upload_back" => m.ok
BY DEF UpTurn, DataOf, DownTurn

\* A frame for the server is of a kind that its type says.
LEMMA ToServerKinds ==
    ASSUME NEW m \in ToServer
    PROVE  /\ m.type = "create_upload" => m.file \in File /\ m.length \in Sizes
           /\ m.type = "begin_upload" => m.id \in Id /\ m \in UpTurn(m.id)
           /\ m.type = "data" => m.id \in Id /\ m \in DataOf(m.id)
           /\ m.type = "finish_upload" => /\ m.id \in Id /\ m.finish \in BOOLEAN
                                          /\ m \in UpTurn(m.id)
BY DEF ToServer, UpTurn, DataOf

\* ... and so is one for the client.
LEMMA ToClientKinds ==
    ASSUME NEW m \in ToClient
    PROVE  /\ m.type = "create_upload_back" =>
                 /\ m.file \in File /\ m.ok \in BOOLEAN
                 /\ m.ok => m.id \in Id /\ m \in DownTurn(m.id)
           /\ m.type = "begin_upload_back" => m.id \in Id /\ m \in DownTurn(m.id)
           /\ m.type = "finish_upload_back" => /\ m.id \in Id /\ m.ok \in BOOLEAN
                                               /\ m \in DownTurn(m.id)
BY DEF ToClient, DownTurn

\* Frames of upload i are frames of the connection.
LEMMA FramesTyped ==
    ASSUME NEW i \in Id
    PROVE  UpTurn(i) \subseteq ToServer /\ DataOf(i) \subseteq ToServer
BY DEF ToServer, UpTurn, DataOf

\* Sending a frame that is not of upload i is nothing to upload i.
LEMMA SendCalm ==
    ASSUME TypeOK, NEW m \in ToServer, Send(m)
    PROVE  /\ toServer' \in Seq(ToServer)
           /\ \A i : m \notin UpTurn(i) /\ m \notin DataOf(i) =>
                 /\ Calm(toServer, toServer', UpTurn(i), DataOf(i))
                 /\ Keeps(toServer, toServer', DataOf(i))
<1>1. toServer \in Seq(ToServer)
  BY DEF TypeOK
<1>2. toServer' = toServer \/ toServer' = Append(toServer, m)
  BY DEF Send
<1>3. toServer' \in Seq(ToServer)
  BY <1>1, <1>2, AppendAt
<1>4. ASSUME NEW i, m \notin UpTurn(i), m \notin DataOf(i)
      PROVE  /\ Calm(toServer, toServer', UpTurn(i), DataOf(i))
             /\ Keeps(toServer, toServer', DataOf(i))
  <2>1. CASE toServer' = toServer
    BY <2>1, CalmSame
  <2>2. CASE toServer' = Append(toServer, m)
    BY <1>1, <1>4, <2>2, CalmAppend
  <2>3. QED
    BY <1>2, <2>1, <2>2
<1>5. QED
  BY <1>3, <1>4

\* Taking a frame off the client's queue.
LEMMA DispatchCalm ==
    ASSUME TypeOK, NEW type, Dispatch(type)
    PROVE  /\ Head(toClient) \in ToClient
           /\ Head(toClient).type = type
           /\ Head(toClient) \in Contents(toClient)
           /\ toClient' \in Seq(ToClient)
           /\ \A i : /\ Calm(toClient, toClient', DownTurn(i), {})
                     /\ Head(toClient) \in DownTurn(i) /\ AtMostOne(toClient, DownTurn(i))
                           => None(toClient', DownTurn(i))
<1>1. toClient \in Seq(ToClient) /\ toClient # <<>> /\ toClient' = Tail(toClient)
  BY DEF TypeOK, Dispatch
<1>2. ASSUME NEW i
      PROVE  /\ Calm(toClient, toClient', DownTurn(i), {})
             /\ Head(toClient) \in DownTurn(i) /\ AtMostOne(toClient, DownTurn(i))
                   => None(toClient', DownTurn(i))
  BY <1>1, CalmTail, MarksTail
<1>3. QED
  BY <1>1, <1>2, TailAt, ContentsTail DEF Dispatch

\* Putting a frame into the client's queue.
LEMMA AnswerCalm ==
    ASSUME TypeOK, NEW m \in ToClient, toClient' = Append(toClient, m)
    PROVE  /\ toClient' \in Seq(ToClient)
           /\ Contents(toClient') = Contents(toClient) \union {m}
           /\ \A i : /\ m \notin DownTurn(i) => Calm(toClient, toClient', DownTurn(i), {})
                     /\ None(toClient, DownTurn(i)) => AtMostOne(toClient', DownTurn(i))
<1>1. toClient \in Seq(ToClient)
  BY DEF TypeOK
<1>2. ASSUME NEW i
      PROVE  /\ m \notin DownTurn(i) => Calm(toClient, toClient', DownTurn(i), {})
             /\ None(toClient, DownTurn(i)) => AtMostOne(toClient', DownTurn(i))
  BY <1>1, CalmAppend, MarksAppend
<1>3. QED
  BY <1>1, <1>2, AppendAt, ContentsAppend

\* The server takes a frame off its queue.
LEMMA SrvReadsCalm ==
    ASSUME TypeOK, NEW type, SrvReads(type)
    PROVE  /\ Head(toServer) \in ToServer
           /\ Head(toServer).type = type
           /\ Head(toServer) \in Contents(toServer)
           /\ toServer' \in Seq(ToServer)
           /\ Contents(toServer') \subseteq Contents(toServer)
           /\ \A i : /\ Calm(toServer, toServer', UpTurn(i), DataOf(i))
                     /\ Head(toServer) \notin DataOf(i) =>
                           Keeps(toServer, toServer', DataOf(i))
                     /\ Head(toServer) \in UpTurn(i) /\ AtMostOne(toServer, UpTurn(i))
                           => None(toServer', UpTurn(i))
                     /\ Head(toServer) \in UpTurn(i)
                           /\ NoneBehind(toServer, UpTurn(i), DataOf(i))
                           => None(toServer', DataOf(i))
<1>1. toServer \in Seq(ToServer) /\ toServer # <<>> /\ toServer' = Tail(toServer)
  BY DEF TypeOK, SrvReads
<1>2. QED
  BY <1>1, TailAt, ContentsTail, CalmTail, MarksTail DEF SrvReads

\* An upload that a step does not touch, and whose frames it leaves in place,
\* stays as it should be.
LEMMA Untouched ==
    ASSUME NEW i \in Id, TypeOK, Upload(i),
           send'[i] = send[i], srv'[i] = srv[i], result'[i] = result[i],
           busy' = i => busy = i,
           Calm(toServer, toServer', UpTurn(i), DataOf(i)),
           Calm(toClient, toClient', DownTurn(i), {}),
           conn' = "open" => conn = "open" /\ Keeps(toServer, toServer', DataOf(i))
    PROVE  Upload(i)'
<1>1. Sending(i)' = Sending(i) /\ Aligned(i)' = Aligned(i)
  BY DEF Sending, Aligned
<1>2. (busy = i => Sending(i))'
  BY <1>1 DEF Upload
<1>3. OneTurn(i)'
  BY DEF Upload, OneTurn, Calm
<1>4. UpFrames(i)'
  <2>1. ASSUME NEW m \in Contents(toServer'), m \in UpTurn(i) \union DataOf(i)
        PROVE  m \in Contents(toServer)
    BY <2>1 DEF Calm
  <2>2. QED
    BY <1>1, <2>1 DEF Upload, UpFrames
<1>5. DownFrames(i)'
  <2>1. ASSUME NEW m \in Contents(toClient'), m \in DownTurn(i)
        PROVE  m \in Contents(toClient)
    BY <2>1 DEF Calm
  <2>2. QED
    BY <1>1, <2>1 DEF Upload, DownFrames
<1>6. Served(i)'
  BY DEF Upload, Served, Calm
<1>7. Streaming(i)'
  <2>1. SUFFICES ASSUME conn' = "open", send[i] # NoSend
                 PROVE  Streaming(i)'
    BY DEF Streaming
  <2>2. send[i] \in FsSend /\ srv[i] \in Live \union {Free}
    BY <2>1 DEF TypeOK
  <2>3. srv[i] # Free
    BY <2>1 DEF Upload, Served
  <2>4. send[i].count \in Nat /\ srv[i].have \in Nat
    BY <2>2, <2>3 DEF FsSend, Live
  <2>5. Chain(toServer', DataOf(i), srv[i].have, send[i].count)
    BY <2>1, <2>4 DEF Upload, Streaming, Keeps
  <2>6. QED
    BY <2>1, <2>5 DEF Upload, Streaming
<1>8. QED
  BY <1>2, <1>3, <1>4, <1>5, <1>6, <1>7 DEF Upload
-----------------------------------------------------------------------------
(***************************************************************************)
(* Steps.                                                                  *)
(***************************************************************************)
\* The fields of an open file and of an upload the server knows.
LEMMA FieldTypes ==
    ASSUME TypeOK, NEW i \in Id
    PROVE  /\ send[i] # NoSend => /\ send[i] \in FsSend
                                  /\ send[i].file \in File
                                  /\ send[i].length \in Sizes
                                  /\ send[i].count \in Nat
                                  /\ send[i].eof \in BOOLEAN
           /\ srv[i] # Free => /\ srv[i] \in Live
                               /\ srv[i].state \in {"live", "done"}
                               /\ srv[i].declared \in Sizes
                               /\ srv[i].have \in Nat
                               /\ srv[i].intact \in BOOLEAN
           /\ srv[i].state # "free" => srv[i] # Free
BY DEF TypeOK, FsSend, Live, Free

\* At the beginning nothing is under way.
LEMMA InitInv == Init => IInv
<1> SUFFICES ASSUME Init PROVE IInv
  OBVIOUS
<1>1. TypeOK
  BY EmptyQueue DEF Init, TypeOK, NoChannel
<1>2. Connected /\ ChannelTracksFiles
  BY DEF Init, Connected, ChannelTracksFiles
<1>3. ASSUME NEW i \in Id PROVE Upload(i)
  <2>1. busy # i
    BY FileUploadAssumption DEF Init
  <2>2. OneTurn(i)
    BY EmptyQueue DEF Init, OneTurn
  <2>3. UpFrames(i) /\ DownFrames(i)
    BY EmptyQueue DEF Init, UpFrames, DownFrames
  <2>4. Served(i) /\ Streaming(i)
    BY EmptyQueue DEF Init, Served, Streaming, Free
  <2>5. QED
    BY <2>1, <2>2, <2>3, <2>4 DEF Upload
<1>4. QED
  BY <1>1, <1>2, <1>3 DEF IInv

\* Other programs change files: no upload is touched.
LEMMA FilesStep ==
    ASSUME IInv, NEW f \in File, ChangeFile(f) \/ RemoveFile(f)
    PROVE  IInv'
<1>1. /\ UNCHANGED <<asks, conn, channel, send, busy, result, toServer, toClient, srv>>
      /\ size' \in [File -> Sizes] /\ present' \in SUBSET File
  BY DEF IInv, TypeOK, ChangeFile, RemoveFile
<1>2. TypeOK' /\ Connected' /\ ChannelTracksFiles'
  BY <1>1 DEF IInv, TypeOK, Connected, ChannelTracksFiles
<1>3. ASSUME NEW i \in Id PROVE Upload(i)'
  <2>1. /\ Calm(toServer, toServer', UpTurn(i), DataOf(i))
        /\ Calm(toClient, toClient', DownTurn(i), {})
        /\ Keeps(toServer, toServer', DataOf(i))
    BY <1>1, CalmSame
  <2>2. TypeOK /\ Upload(i)
    BY DEF IInv
  <2>3. QED
    BY <1>1, <2>1, <2>2, Untouched
<1>4. QED
  BY <1>2, <1>3 DEF IInv

\* The connection opens, breaks and is closed.
LEMMA ConnStep ==
    ASSUME IInv, SlOpen \/ Break \/ SlClose
    PROVE  IInv'
<1>1. /\ UNCHANGED <<size, present, asks, send, busy, result, srv>>
      /\ toServer' \in {toServer, <<>>} /\ toClient' \in {toClient, <<>>}
      /\ conn' \in {"open", "broken", "closed"}
  BY DEF SlOpen, Break, SlClose, fileVars
<1>2. NoChannel # {} /\ \A S \in SUBSET Id : S # NoChannel
  BY FileUploadAssumption DEF NoChannel
<1>3. TypeOK'
  <2>1. channel' \in (SUBSET Id) \union {NoChannel}
    BY DEF IInv, TypeOK, SlOpen, Break, SlClose
  <2>2. toServer' \in Seq(ToServer) /\ toClient' \in Seq(ToClient)
    <3>1. <<>> \in Seq(ToServer) /\ <<>> \in Seq(ToClient)
      OBVIOUS
    <3>2. QED
      BY <1>1, <3>1 DEF IInv, TypeOK
  <2>3. QED
    BY <1>1, <2>1, <2>2 DEF IInv, TypeOK
<1>4. Connected'
  BY <1>1, <1>2 DEF IInv, Connected, SlOpen, Break, SlClose
<1>5. ChannelTracksFiles'
  BY <1>1 DEF IInv, ChannelTracksFiles, Connected, SlOpen, Break, SlClose
<1>6. ASSUME NEW i \in Id PROVE Upload(i)'
  <2>1. CASE SlOpen
    <3>1. Connected /\ conn = "none" /\ UNCHANGED <<toServer, toClient>>
      BY <2>1 DEF IInv, SlOpen
    <3>2. send[i] = NoSend
      BY <3>1 DEF Connected
    <3>3. Upload(i) /\ Streaming(i)'
      BY <1>1, <3>2 DEF IInv, Streaming
    <3>4. QED
      BY <1>1, <3>1, <3>3
         DEF Upload, OneTurn, UpFrames, DownFrames, Served, Sending, Aligned
  <2>2. CASE Break \/ SlClose
    <3>1. conn' # "open"
      BY <2>2 DEF Break, SlClose
    <3>2. /\ Calm(toServer, toServer', UpTurn(i), DataOf(i))
          /\ Calm(toClient, toClient', DownTurn(i), {})
      BY <1>1, CalmSame
    <3>3. QED
      BY <1>1, <3>1, <3>2, Untouched DEF IInv
  <2>3. QED
    BY <2>1, <2>2
<1>7. QED
  BY <1>3, <1>4, <1>5, <1>6 DEF IInv

\* A request: it is not yet of any upload.
LEMMA UploadFileStep ==
    ASSUME IInv, NEW f \in File, UploadFile(f)
    PROVE  IInv'
<1> DEFINE m == [type |-> "create_upload", file |-> f, length |-> size[f]]
<1>1. m \in ToServer
  BY DEF ToServer, IInv, TypeOK
<1>2. Send(m) /\ UNCHANGED <<size, present, conn, channel, send, busy, result, toClient, srv>>
  BY DEF UploadFile, fileVars
<1>3. \A i : m \notin UpTurn(i) /\ m \notin DataOf(i)
  BY FrameShape
<1> HIDE DEF m
<1>4. /\ toServer' \in Seq(ToServer)
      /\ \A i : /\ Calm(toServer, toServer', UpTurn(i), DataOf(i))
                /\ Keeps(toServer, toServer', DataOf(i))
  BY <1>1, <1>2, <1>3, SendCalm DEF IInv
<1>5. TypeOK' /\ Connected' /\ ChannelTracksFiles'
  BY <1>2, <1>4 DEF IInv, TypeOK, Connected, ChannelTracksFiles, UploadFile
<1>6. ASSUME NEW i \in Id PROVE Upload(i)'
  BY <1>2, <1>4, CalmSame, Untouched DEF IInv
<1>7. QED
  BY <1>5, <1>6 DEF IInv

\* The client passes the turn of upload i to the server.
LEMMA SendTurn ==
    ASSUME TypeOK, NEW i \in Id, NEW m \in UpTurn(i), Send(m),
           None(toServer, UpTurn(i)), NoneBehind(toServer, UpTurn(i), DataOf(i))
    PROVE  /\ toServer' \in Seq(ToServer)
           /\ AtMostOne(toServer', UpTurn(i))
           /\ NoneBehind(toServer', UpTurn(i), DataOf(i))
           /\ Contents(toServer') \subseteq Contents(toServer) \union {m}
           /\ Keeps(toServer, toServer', DataOf(i))
           /\ None(toServer, DataOf(i)) => None(toServer', DataOf(i))
           /\ \A j : j # i => /\ Calm(toServer, toServer', UpTurn(j), DataOf(j))
                              /\ Keeps(toServer, toServer', DataOf(j))
<1>1. toServer \in Seq(ToServer) /\ m \in ToServer
  BY FramesTyped DEF TypeOK
<1>2. m \notin DataOf(i) /\ \A j : j # i => m \notin UpTurn(j) /\ m \notin DataOf(j)
  BY FrameShape
<1>3. \A j : j # i => /\ Calm(toServer, toServer', UpTurn(j), DataOf(j))
                      /\ Keeps(toServer, toServer', DataOf(j))
  BY <1>1, <1>2, SendCalm
<1>4. CASE toServer' = toServer
  <2>1. AtMostOne(toServer, UpTurn(i))
    BY DEF None, AtMostOne
  <2>2. QED
    BY <1>1, <1>3, <1>4, <2>1, CalmSame
<1>5. CASE toServer' = Append(toServer, m)
  <2>1. /\ toServer' \in Seq(ToServer)
        /\ Contents(toServer') = Contents(toServer) \union {m}
    BY <1>1, <1>5, AppendAt, ContentsAppend
  <2>2. AtMostOne(toServer', UpTurn(i)) /\ NoneBehind(toServer', UpTurn(i), DataOf(i))
    BY <1>1, <1>2, <1>5, MarksAppend
  <2>3. None(toServer, DataOf(i)) => None(toServer', DataOf(i))
    BY <1>1, <1>2, <1>5, MarksAppend
  <2>4. Keeps(toServer, toServer', DataOf(i))
    BY <1>1, <1>2, <1>5, ChainAppendOther DEF Keeps
  <2>5. QED
    BY <1>3, <2>1, <2>2, <2>3, <2>4
<1>6. QED
  BY <1>4, <1>5 DEF Send

\* A frame at the client that carries the turn of upload i is its only one.
LEMMA TurnAtClient ==
    ASSUME IInv, NEW type, Dispatch(type), NEW i \in Id, Head(toClient) \in DownTurn(i)
    PROVE  /\ busy # i
           /\ None(toServer, UpTurn(i))
           /\ NoneBehind(toServer, UpTurn(i), DataOf(i))
           /\ None(toClient', DownTurn(i))
           /\ toClient' \in Seq(ToClient)
           /\ \A j \in Id : Calm(toClient, toClient', DownTurn(j), {})
<1>1. OneTurn(i) /\ TypeOK
  BY DEF IInv, Upload
<1>2. Head(toClient) \in Contents(toClient)
  BY <1>1, DispatchCalm
<1>3. ~None(toClient, DownTurn(i))
  BY <1>2, NoneContents
<1>4. QED
  BY <1>1, <1>3, DispatchCalm DEF OneTurn

\* What is open for upload i when it opens.
LEMMA OpenStep ==
    ASSUME IInv, TaskFilesCreateUploadBack, Head(toClient).ok
    PROVE  IInv'
<1> DEFINE m == Head(toClient)
           begin(i) == [type |-> "begin_upload", id |-> i]
           stop(i) == [type |-> "finish_upload", id |-> i, finish |-> FALSE]
<1>1. /\ TypeOK /\ Connected /\ ChannelTracksFiles
      /\ Dispatch("create_upload_back") /\ OpenFileSendChannel(m.id, m.file)
      /\ UNCHANGED <<size, present, asks, conn, busy, result, srv>>
      /\ busy = NoId /\ conn \in {"open", "broken"}
  BY DEF IInv, TaskFilesCreateUploadBack, Dispatch, fileVars
<1>2. /\ m \in ToClient /\ m.type = "create_upload_back" /\ m.ok
      /\ m \in Contents(toClient) /\ m \in DownTurn(m.id)
      /\ m.id \in Id /\ m.file \in File
  BY <1>1, DispatchCalm, ToClientKinds
<1>3. PICK i \in Id : i = m.id
  BY <1>2
<1>4. m \in DownTurn(i) /\ m \in Contents(toClient) /\ m.type = "create_upload_back"
  BY <1>2, <1>3
<1>5. OneTurn(i) /\ UpFrames(i) /\ DownFrames(i) /\ Served(i)
  BY DEF IInv, Upload
<1>6. srv[i].state = "live" /\ srv[i].have = 0 /\ send[i] = NoSend /\ srv[i] # Free
  BY <1>1, <1>4, <1>5, FieldTypes DEF DownFrames, Free
<1>7. /\ None(toServer, UpTurn(i)) /\ NoneBehind(toServer, UpTurn(i), DataOf(i))
      /\ None(toClient', DownTurn(i))
      /\ toClient' \in Seq(ToClient)
      /\ \A j \in Id : Calm(toClient, toClient', DownTurn(j), {})
  BY <1>1, <1>4, TurnAtClient
<1>8. None(toServer, DataOf(i))
  BY <1>5, <1>6, NoneContents DEF UpFrames, Sending
<1>9. begin(i) \in UpTurn(i) /\ stop(i) \in UpTurn(i)
  BY DEF UpTurn
<1>10. channel # NoChannel /\ channel \subseteq Id /\ i \notin channel
  BY <1>1, <1>6 DEF Connected, ChannelTracksFiles
<1>11. PICK d : /\ d \in {begin(i), stop(i)} /\ Send(d)
                /\ IF d = begin(i)
                   THEN /\ send' = [send EXCEPT ![i] = [file |-> m.file,
                                length |-> size[m.file], count |-> 0, eof |-> FALSE]]
                        /\ channel' = channel \union {i}
                   ELSE send' = send /\ channel' = channel
  <2>1. CASE m.file \in present
    <3>1. /\ send' = [send EXCEPT ![i] = [file |-> m.file, length |-> size[m.file],
                                          count |-> 0, eof |-> FALSE]]
          /\ channel' = channel \union {i} /\ Send(begin(i))
      BY <1>1, <1>3, <1>6, <1>10, <2>1 DEF OpenFileSendChannel
    <3>2. QED
      BY <3>1
  <2>2. CASE m.file \notin present
    <3>1. /\ send' = [send EXCEPT ![i] = NoSend]
          /\ channel' = channel \ {i} /\ Send(stop(i))
      BY <1>1, <1>3, <1>6, <1>10, <2>2 DEF OpenFileSendChannel
    <3>2. send' = send /\ channel' = channel /\ stop(i) # begin(i)
      BY <1>1, <1>6, <1>10, <3>1 DEF TypeOK
    <3>3. QED
      BY <3>1, <3>2
  <2>3. QED
    BY <2>1, <2>2
<1> DEFINE fs == [file |-> m.file, length |-> size[m.file], count |-> 0, eof |-> FALSE]
<1>12. fs \in FsSend /\ fs # NoSend /\ fs.count = 0 /\ fs.eof = FALSE
  BY <1>1, <1>2 DEF FsSend, TypeOK, NoSend
<1>13. /\ d \in UpTurn(i)
       /\ d.type \in {"begin_upload", "finish_upload"}
       /\ d = begin(i) <=> d.type = "begin_upload"
       /\ d.type = "finish_upload" => d.finish = FALSE
  <2>1. begin(i).type = "begin_upload" /\ stop(i).type = "finish_upload" /\ ~stop(i).finish
    OBVIOUS
  <2>2. d = begin(i) \/ d = stop(i)
    BY <1>11
  <2> HIDE DEF begin, stop
  <2>3. QED
    BY <1>9, <2>1, <2>2
<1> DEFINE opened == d.type = "begin_upload"
<1>14. /\ opened => send'[i] = fs /\ channel' = channel \union {i}
       /\ ~opened => send' = send /\ channel' = channel
       /\ \A j \in Id : j # i => send'[j] = send[j]
       /\ send' \in [Id -> FsSend \union {NoSend}]
  BY <1>1, <1>11, <1>12, <1>13 DEF TypeOK
<1> HIDE DEF m, begin, stop, fs
<1>15. /\ toServer' \in Seq(ToServer)
       /\ AtMostOne(toServer', UpTurn(i))
       /\ NoneBehind(toServer', UpTurn(i), DataOf(i))
       /\ Contents(toServer') \subseteq Contents(toServer) \union {d}
       /\ None(toServer', DataOf(i))
       /\ \A j \in Id : j # i => /\ Calm(toServer, toServer', UpTurn(j), DataOf(j))
                                 /\ Keeps(toServer, toServer', DataOf(j))
  BY <1>1, <1>7, <1>8, <1>11, <1>13, SendTurn
<1>16. TypeOK'
  BY <1>1, <1>7, <1>10, <1>14, <1>15 DEF TypeOK
<1>17. Connected'
  BY <1>1, <1>10, <1>14, FileUploadAssumption DEF Connected, NoChannel
<1>18. ChannelTracksFiles'
  BY <1>1, <1>10, <1>12, <1>14 DEF ChannelTracksFiles
<1>19. ASSUME NEW j \in Id, j # i PROVE Upload(j)'
  BY <1>1, <1>7, <1>14, <1>15, <1>19, Untouched DEF IInv
<1>20. Upload(i)'
  <2>1. busy' # i
    BY <1>1, FileUploadAssumption
  <2>2. OneTurn(i)'
    BY <1>5, <1>7, <1>15, <2>1 DEF OneTurn, Calm
  <2>3. opened => Sending(i)' /\ Aligned(i)'
    BY <1>1, <1>6, <1>12, <1>14, FileUploadAssumption DEF Sending, Aligned
  <2>4. UpFrames(i)'
    <3>1. ASSUME NEW x \in Contents(toServer'), x \in UpTurn(i) PROVE x = d
      BY <1>7, <1>15, <3>1, NoneContents
    <3>2. ASSUME NEW x \in Contents(toServer') PROVE x \notin DataOf(i)
      BY <1>15, NoneContents
    <3>3. QED
      BY <1>1, <1>6, <1>13, <1>14, <2>3, <3>1, <3>2 DEF UpFrames
  <2>5. DownFrames(i)'
    BY <1>7, NoneContents DEF DownFrames
  <2>6. Served(i)'
    BY <1>1, <1>5, <1>6 DEF Served
  <2>7. Streaming(i)'
    <3>1. SUFFICES ASSUME opened PROVE Streaming(i)'
      BY <1>6, <1>14 DEF Streaming
    <3>2. send'[i].count = 0 /\ srv'[i].have = 0
      BY <1>1, <1>6, <1>12, <1>14, <3>1
    <3>3. Chain(toServer', DataOf(i), 0, 0)
      BY <1>15, ChainNone
    <3>4. /\ 0 % Buf = 0 /\ 0 % Flux = 0 /\ 0 \in 0..send'[i].count /\ 0 < 0 + Flux
          /\ 0 <= 0 + Flux
      BY <3>2, FileUploadAssumption
    <3>5. QED
      BY <3>2, <3>3, <3>4 DEF Streaming
  <2>8. QED
    BY <2>1, <2>2, <2>4, <2>5, <2>6, <2>7 DEF Upload
<1>21. QED
  BY <1>16, <1>17, <1>18, <1>19, <1>20 DEF IInv

\* A refusal touches nothing.
LEMMA RefusedStep ==
    ASSUME IInv, TaskFilesCreateUploadBack, ~Head(toClient).ok
    PROVE  IInv'
<1>1. /\ TypeOK /\ Dispatch("create_upload_back")
      /\ UNCHANGED <<size, present, asks, conn, channel, send, busy, result, toServer, srv>>
  BY DEF IInv, TaskFilesCreateUploadBack, fileVars
<1>2. /\ toClient' \in Seq(ToClient)
      /\ \A i : Calm(toClient, toClient', DownTurn(i), {})
  BY <1>1, DispatchCalm
<1>3. TypeOK' /\ Connected' /\ ChannelTracksFiles'
  BY <1>1, <1>2 DEF IInv, TypeOK, Connected, ChannelTracksFiles
<1>4. ASSUME NEW i \in Id PROVE Upload(i)'
  BY <1>1, <1>2, CalmSame, Untouched DEF IInv
<1>5. QED
  BY <1>3, <1>4 DEF IInv

\* The server asks for a segment, which begins where the server's bytes end.
LEMMA BeginBackStep ==
    ASSUME IInv, TaskFilesBeginUploadBack
    PROVE  IInv'
<1> DEFINE m == Head(toClient)
<1>1. /\ TypeOK /\ Dispatch("begin_upload_back") /\ busy' = m.id
      /\ UNCHANGED <<size, present, asks, conn, channel, send, result, toServer, srv>>
  BY DEF IInv, TaskFilesBeginUploadBack, fileVars
<1>2. PICK i \in Id : i = m.id /\ m \in DownTurn(i) /\ m \in Contents(toClient)
                      /\ m.type = "begin_upload_back"
  BY <1>1, DispatchCalm, ToClientKinds
<1>3. OneTurn(i) /\ UpFrames(i) /\ DownFrames(i) /\ Served(i) /\ Streaming(i)
  BY DEF IInv, Upload
<1>4. Sending(i) /\ Aligned(i) /\ srv[i].have = send[i].count
  BY <1>2, <1>3 DEF DownFrames
<1>5. /\ None(toServer, UpTurn(i)) /\ None(toClient', DownTurn(i))
      /\ toClient' \in Seq(ToClient)
      /\ \A j \in Id : Calm(toClient, toClient', DownTurn(j), {})
  BY <1>1, <1>2, TurnAtClient
<1>6. busy' = i
  BY <1>1, <1>2
<1> HIDE DEF m
<1>7. TypeOK' /\ Connected' /\ ChannelTracksFiles'
  <2>1. TypeOK'
    BY <1>1, <1>5, <1>6 DEF TypeOK
  <2>2. conn \in {"open", "broken"}
    BY <1>1 DEF Dispatch
  <2>3. Connected' /\ ChannelTracksFiles'
    BY <1>1, <2>2 DEF IInv, Connected, ChannelTracksFiles
  <2>4. QED
    BY <2>1, <2>3
<1>8. ASSUME NEW j \in Id, j # i PROVE Upload(j)'
  BY <1>1, <1>5, <1>6, <1>8, CalmSame, Untouched DEF IInv
<1>9. Upload(i)'
  <2>1. Sending(i)'
    BY <1>1, <1>4 DEF Sending
  <2>2. OneTurn(i)'
    BY <1>1, <1>3, <1>5 DEF OneTurn, Calm
  <2>3. UpFrames(i)'
    BY <1>1, <1>3 DEF UpFrames, Sending, Aligned
  <2>4. DownFrames(i)'
    BY <1>5, NoneContents DEF DownFrames
  <2>5. Served(i)'
    BY <1>1, <1>3, <1>5 DEF Served
  <2>6. Streaming(i)'
    <3>1. send[i].count \in Nat /\ send[i].eof \in BOOLEAN /\ send[i] # NoSend
      BY <1>1, <1>4, FieldTypes DEF Sending
    <3>2. CASE send[i].eof
      BY <1>1, <1>3, <3>2 DEF Streaming
    <3>3. CASE ~send[i].eof
      <4>1. /\ send[i].count % Flux = 0
            /\ send[i].count \in 0..send[i].count
            /\ send[i].count <= srv[i].have
            /\ send[i].count < send[i].count + Flux
            /\ send[i].count <= send[i].count + Flux
        BY <1>4, <3>1, <3>3, FileUploadAssumption DEF Aligned
      <4>2. QED
        BY <1>1, <1>3, <4>1 DEF Streaming
    <3>4. QED
      BY <3>1, <3>2, <3>3
  <2>7. QED
    BY <2>1, <2>2, <2>3, <2>4, <2>5, <2>6 DEF Upload
<1>10. QED
  BY <1>7, <1>8, <1>9 DEF IInv

\* A data frame, and perhaps the turn behind it, put into the queue of a
\* running upload.
LEMMA DataQueue ==
    ASSUME TypeOK, NEW i \in Id, NEW d \in DataOf(i), NEW t \in UpTurn(i),
           None(toServer, UpTurn(i)),
           toServer' = Append(toServer, d)
               \/ toServer' = Append(Append(toServer, d), t)
    PROVE  /\ toServer' \in Seq(ToServer)
           /\ AtMostOne(toServer', UpTurn(i))
           /\ toServer' = Append(toServer, d) => None(toServer', UpTurn(i))
           /\ NoneBehind(toServer', UpTurn(i), DataOf(i))
           /\ Contents(toServer') \subseteq Contents(toServer) \union {d, t}
           /\ \A a, b \in Nat : Chain(toServer, DataOf(i), a, b) /\ d.from = b =>
                  Chain(toServer', DataOf(i), a, b + d.bytes)
           /\ \A j : j # i => /\ Calm(toServer, toServer', UpTurn(j), DataOf(j))
                              /\ Keeps(toServer, toServer', DataOf(j))
<1> DEFINE q == Append(toServer, d)
           r == Append(q, t)
<1>1. toServer \in Seq(ToServer) /\ d \in ToServer /\ t \in ToServer
  BY FramesTyped DEF TypeOK
<1>2. /\ d \notin UpTurn(i) /\ t \notin DataOf(i)
      /\ \A j : j # i => /\ d \notin UpTurn(j) /\ d \notin DataOf(j)
                         /\ t \notin UpTurn(j) /\ t \notin DataOf(j)
      /\ \A x \in DataOf(i) : x.from \in Nat /\ x.bytes \in Nat
  BY FrameShape
<1>3. q \in Seq(ToServer) /\ Contents(q) = Contents(toServer) \union {d}
  BY <1>1, AppendAt, ContentsAppend
<1>4. None(q, UpTurn(i)) /\ NoneBehind(q, UpTurn(i), DataOf(i))
  BY <1>1, <1>2, MarksAppend
<1>5. ASSUME NEW a \in Nat, NEW b \in Nat, Chain(toServer, DataOf(i), a, b), d.from = b
      PROVE  Chain(q, DataOf(i), a, b + d.bytes)
  BY <1>1, <1>2, <1>5, ChainAppend
<1>6. ASSUME NEW j, j # i
      PROVE  Calm(toServer, q, UpTurn(j), DataOf(j)) /\ Keeps(toServer, q, DataOf(j))
  BY <1>1, <1>2, <1>6, CalmAppend
<1> HIDE DEF q
<1>7. r \in Seq(ToServer) /\ Contents(r) = Contents(toServer) \union {d, t}
  BY <1>1, <1>3, AppendAt, ContentsAppend
<1>8. AtMostOne(r, UpTurn(i)) /\ NoneBehind(r, UpTurn(i), DataOf(i))
  BY <1>1, <1>2, <1>3, <1>4, MarksAppend
<1>9. ASSUME NEW a \in Nat, NEW b \in Nat, Chain(toServer, DataOf(i), a, b), d.from = b
      PROVE  Chain(r, DataOf(i), a, b + d.bytes)
  <2>1. Chain(q, DataOf(i), a, b + d.bytes) /\ b + d.bytes \in Nat
    BY <1>2, <1>5, <1>9
  <2>2. QED
    BY <1>1, <1>2, <1>3, <2>1, ChainAppendOther
<1>10. ASSUME NEW j, j # i
       PROVE  Calm(toServer, r, UpTurn(j), DataOf(j)) /\ Keeps(toServer, r, DataOf(j))
  <2>1. Calm(q, r, UpTurn(j), DataOf(j)) /\ Keeps(q, r, DataOf(j))
    BY <1>1, <1>2, <1>3, <1>10, CalmAppend
  <2>2. QED
    BY <1>6, <1>10, <2>1, CalmTwice
<1> HIDE DEF r
<1>11. CASE toServer' = q
  <2>1. AtMostOne(q, UpTurn(i))
    BY <1>4 DEF None, AtMostOne
  <2>2. QED
    BY <1>3, <1>4, <1>5, <1>6, <1>11, <2>1
<1>12. CASE toServer' = r
  <2>1. r = Append(toServer, d) => None(r, UpTurn(i))
    BY <1>4 DEF q
  <2>2. QED
    BY <1>7, <1>8, <1>9, <1>10, <1>12, <2>1
<1>13. QED
  BY <1>11, <1>12 DEF q, r

\* One round of add_data_send, seen from its upload.
LEMMA SendRound ==
    ASSUME IInv, AddDataSend
    PROVE  \E i \in Id, n \in 0..Buf :
              /\ busy = i /\ send[i] # NoSend /\ ~send[i].eof
              /\ send' = [send EXCEPT ![i].count = send[i].count + n,
                                      ![i].eof = n < Buf]
              /\ UNCHANGED <<size, present, asks, channel, result, toClient, srv>>
              /\ conn' \in {conn, "crash"}
              /\ \/ conn # "open" /\ toServer' = toServer /\ busy' = NoId
                 \/ LET d == [type |-> "data", id |-> i, from |-> send[i].count,
                              bytes |-> n]
                        t == [type |-> "begin_upload", id |-> i]
                    IN /\ conn = "open"
                       /\ \/ toServer' = Append(toServer, d) /\ busy' = i
                             /\ (send[i].count + n) % Flux # 0
                          \/ toServer' = Append(toServer, d) /\ busy' = NoId
                             /\ conn' = "crash"
                          \/ toServer' = Append(Append(toServer, d), t) /\ busy' = NoId
                             /\ (send[i].count + n) % Flux = 0
<1> DEFINE i == busy
           s == send[busy]
           n == ReadSize(s)
           d == [type |-> "data", id |-> busy, from |-> s.count, bytes |-> n]
           t == [type |-> "begin_upload", id |-> busy]
           more == CheckLinitFlux(conn = "open", s.count + n)
<1>1. /\ TypeOK /\ busy \in Id /\ s # NoSend /\ ~s.eof
      /\ UNCHANGED <<size, present, asks, channel, result, toClient, srv>>
  BY DEF IInv, TypeOK, AddDataSend, fileVars
<1>2. s.file \in File /\ s.count \in Nat /\ s.length \in Sizes
  BY <1>1, FieldTypes
<1>3. size[s.file] \in Nat
  BY <1>1, <1>2, FileUploadAssumption DEF TypeOK
<1>4. n \in 0..Buf
  BY <1>2, <1>3, FileUploadAssumption DEF ReadSize
<1>5. /\ send' = [send EXCEPT ![busy].count = s.count + n, ![busy].eof = n < Buf]
      /\ toServer' = IF conn # "open" THEN toServer
                     ELSE toServer \o <<d>> \o
                          (IF more \/ s.length = 0 THEN <<>> ELSE <<t>>)
      /\ busy' = IF more THEN busy ELSE NoId
      /\ conn' = IF s.length = 0 THEN "crash" ELSE conn
  BY DEF AddDataSend, SegmentEnd
<1>6. more <=> conn = "open" /\ (s.count + n) % Flux # 0
  BY DEF CheckLinitFlux
<1>7. toServer \in Seq(ToServer) /\ d \in ToServer /\ t \in ToServer
  BY <1>1, <1>2, <1>4, FileUploadAssumption DEF TypeOK, ToServer
<1> HIDE DEF s, n, d, t, more
<1>8. /\ toServer \o <<d>> = Append(toServer, d)
      /\ Append(toServer, d) \o <<>> = Append(toServer, d)
      /\ Append(toServer, d) \o <<t>> = Append(Append(toServer, d), t)
  BY <1>7, AppendAt, ConcatOne, ConcatNone
<1>9. \/ conn # "open" /\ toServer' = toServer /\ busy' = NoId
      \/ /\ conn = "open"
         /\ \/ toServer' = Append(toServer, d) /\ busy' = i
               /\ (s.count + n) % Flux # 0
            \/ toServer' = Append(toServer, d) /\ busy' = NoId /\ conn' = "crash"
            \/ toServer' = Append(Append(toServer, d), t) /\ busy' = NoId
               /\ (s.count + n) % Flux = 0
  BY <1>5, <1>6, <1>8
<1>10. QED
  BY <1>1, <1>4, <1>5, <1>9 DEF s, d, t

\* A round reads a buffer, sends it and perhaps ends the segment.
LEMMA RoundStep ==
    ASSUME IInv, AddDataSend
    PROVE  IInv'
<1>1. PICK i \in Id, n \in 0..Buf :
         /\ busy = i /\ send[i] # NoSend /\ ~send[i].eof
         /\ send' = [send EXCEPT ![i].count = send[i].count + n,
                                 ![i].eof = n < Buf]
         /\ UNCHANGED <<size, present, asks, channel, result, toClient, srv>>
         /\ conn' \in {conn, "crash"}
         /\ \/ conn # "open" /\ toServer' = toServer /\ busy' = NoId
            \/ LET d == [type |-> "data", id |-> i, from |-> send[i].count, bytes |-> n]
                   t == [type |-> "begin_upload", id |-> i]
               IN /\ conn = "open"
                  /\ \/ toServer' = Append(toServer, d) /\ busy' = i
                        /\ (send[i].count + n) % Flux # 0
                     \/ toServer' = Append(toServer, d) /\ busy' = NoId
                        /\ conn' = "crash"
                     \/ toServer' = Append(Append(toServer, d), t) /\ busy' = NoId
                        /\ (send[i].count + n) % Flux = 0
  BY SendRound
<1> DEFINE d == [type |-> "data", id |-> i, from |-> send[i].count, bytes |-> n]
           t == [type |-> "begin_upload", id |-> i]
           c == send[i].count + n
<1>2. TypeOK /\ OneTurn(i) /\ UpFrames(i) /\ DownFrames(i) /\ Served(i) /\ Streaming(i)
      /\ Sending(i)
  BY <1>1 DEF IInv, Upload
<1>3. /\ send[i].count \in Nat /\ send[i].file \in File /\ send[i].length \in Sizes
      /\ send[i] \in FsSend /\ srv[i] # Free /\ srv[i].have \in Nat /\ n \in Nat /\ n <= Buf
      /\ srv[i].state = "live"
  BY <1>1, <1>2, FieldTypes, FileUploadAssumption DEF Sending, Free
<1>4. /\ c \in Nat /\ d \in DataOf(i) /\ t \in UpTurn(i)
      /\ d.from = send[i].count /\ d.bytes = n
  BY <1>3 DEF DataOf, UpTurn
<1>5. /\ send'[i].count = c /\ send'[i].eof = (n < Buf) /\ send'[i] \in FsSend
      /\ send'[i] # NoSend
      /\ \A j \in Id : j # i => send'[j] = send[j]
      /\ send' \in [Id -> FsSend \union {NoSend}]
  <2> DEFINE fs == [file |-> send[i].file, length |-> send[i].length,
                    count |-> c, eof |-> n < Buf]
  <2>1. send'[i] = fs
    <3>1. send'[i] = [send[i] EXCEPT !.count = c, !.eof = n < Buf]
      BY <1>1, <1>2 DEF TypeOK
    <3>2. QED
      BY <1>3, <3>1 DEF FsSend
  <2>2. fs \in FsSend /\ fs # NoSend /\ fs.count = c /\ fs.eof = (n < Buf)
    BY <1>3, <1>4 DEF FsSend, NoSend
  <2>3. \A j \in Id : j # i => send'[j] = send[j]
    BY <1>1, <1>2 DEF TypeOK
  <2>4. send' \in [Id -> FsSend \union {NoSend}]
    BY <1>1, <1>2, <2>1, <2>2 DEF TypeOK
  <2>5. QED
    BY <2>1, <2>2, <2>3, <2>4
<1>6. None(toServer, UpTurn(i)) /\ None(toClient, DownTurn(i))
  BY <1>1, <1>2 DEF OneTurn
<1>7. /\ conn # "open" => toServer' = toServer /\ busy' = NoId
      /\ conn = "open" =>
            /\ \/ toServer' = Append(toServer, d)
               \/ toServer' = Append(Append(toServer, d), t)
            /\ busy' = i => toServer' = Append(toServer, d) /\ c % Flux # 0
            /\ \/ toServer' = Append(toServer, d)
               \/ c % Flux = 0
            /\ busy' \in {i, NoId}
  BY <1>1, FileUploadAssumption
<1> HIDE DEF d, t, c
<1>8. conn = "open" =>
         /\ toServer' \in Seq(ToServer)
         /\ AtMostOne(toServer', UpTurn(i))
         /\ toServer' = Append(toServer, d) => None(toServer', UpTurn(i))
         /\ NoneBehind(toServer', UpTurn(i), DataOf(i))
         /\ Contents(toServer') \subseteq Contents(toServer) \union {d, t}
         /\ \A a, b \in Nat : Chain(toServer, DataOf(i), a, b) /\ d.from = b =>
                Chain(toServer', DataOf(i), a, b + d.bytes)
         /\ \A j \in Id : j # i => /\ Calm(toServer, toServer', UpTurn(j), DataOf(j))
                                   /\ Keeps(toServer, toServer', DataOf(j))
  BY <1>2, <1>4, <1>6, <1>7, DataQueue
<1>9. toServer' \in Seq(ToServer)
  BY <1>2, <1>7, <1>8 DEF TypeOK
<1>10. TypeOK'
  <2>1. busy' \in Id \union {NoId}
    BY <1>7
  <2>2. conn' \in {"none", "open", "broken", "closed", "crash"}
    BY <1>1, <1>2 DEF TypeOK
  <2>3. QED
    BY <1>1, <1>2, <1>5, <1>9, <2>1, <2>2 DEF TypeOK
<1>11. Connected' /\ ChannelTracksFiles'
  <2>1. Connected /\ ChannelTracksFiles /\ conn \notin {"none", "closed"}
    BY <1>1, FileUploadAssumption DEF IInv, Connected
  <2>2. conn' \notin {"none", "closed"}
    BY <1>1, <2>1
  <2>3. Connected'
    BY <1>1, <2>1, <2>2 DEF Connected
  <2>4. \A j \in Id : send'[j] # NoSend <=> send[j] # NoSend
    BY <1>1, <1>5
  <2>5. QED
    BY <1>1, <2>1, <2>3, <2>4 DEF ChannelTracksFiles
<1>12. ASSUME NEW j \in Id, j # i PROVE Upload(j)'
  <2>1. /\ Calm(toServer, toServer', UpTurn(j), DataOf(j))
        /\ Keeps(toServer, toServer', DataOf(j))
    BY <1>7, <1>8, <1>12, CalmSame
  <2>2. Calm(toClient, toClient', DownTurn(j), {})
    BY <1>1, CalmSame
  <2>3. busy' = j => busy = j
    BY <1>7, <1>12, FileUploadAssumption
  <2>4. conn' = "open" => conn = "open"
    BY <1>1
  <2>5. TypeOK /\ Upload(j) /\ send'[j] = send[j] /\ srv'[j] = srv[j]
        /\ result'[j] = result[j]
    BY <1>1, <1>2, <1>5, <1>12 DEF IInv
  <2>6. QED
    BY <2>1, <2>2, <2>3, <2>4, <2>5, Untouched
<1>13. Upload(i)'
  <2>1. Sending(i)'
    BY <1>1, <1>3, <1>5 DEF Sending
  <2>2. OneTurn(i)'
    <3>1. CASE conn # "open"
      BY <1>1, <1>2, <1>6, <1>7, <3>1, FileUploadAssumption DEF OneTurn
    <3>2. CASE conn = "open"
      BY <1>1, <1>2, <1>6, <1>7, <1>8, <3>2 DEF OneTurn
    <3>3. QED
      BY <3>1, <3>2
  <2>3. UpFrames(i)'
    <3>1. ASSUME NEW x \in Contents(toServer'), x \in UpTurn(i)
          PROVE  x = t /\ c % Flux = 0
      <4>1. x \notin Contents(toServer)
        BY <1>6, <3>1, NoneContents
      <4>2. conn = "open"
        BY <1>7, <3>1, <4>1
      <4>3. x # d
        BY <1>4, <3>1, FrameShape
      <4>4. x = t
        BY <1>8, <3>1, <4>1, <4>2, <4>3
      <4>5. toServer' # Append(toServer, d)
        BY <1>8, <3>1, <4>2, NoneContents
      <4>6. QED
        BY <1>7, <4>2, <4>4, <4>5
    <3>2. t.type = "begin_upload"
      BY DEF t
    <3>3. c % Flux = 0 => Aligned(i)'
      BY <1>5 DEF Aligned
    <3>4. QED
      BY <1>1, <1>3, <2>1, <3>1, <3>2, <3>3 DEF UpFrames
  <2>4. DownFrames(i)'
    BY <1>1, <1>6, NoneContents DEF DownFrames
  <2>5. Served(i)'
    BY <1>1, <1>2, <1>3 DEF Served
  <2>6. Streaming(i)'
    <3>1. SUFFICES ASSUME conn' = "open" PROVE Streaming(i)'
      BY DEF Streaming
    <3>2. conn = "open" /\ send[i].count % Buf = 0
      BY <1>1, <1>2, <3>1 DEF Streaming
    <3>3. Chain(toServer, DataOf(i), srv[i].have, send[i].count)
      BY <1>1, <1>2, <3>2 DEF Streaming
    <3>4. Chain(toServer', DataOf(i), srv[i].have, c)
      BY <1>3, <1>4, <1>8, <3>2, <3>3 DEF c
    <3>5. PICK b \in 0..send[i].count :
             /\ b % Flux = 0 /\ b <= srv[i].have
             /\ send[i].count < b + Flux
      BY <1>1, <1>2, <3>2 DEF Streaming
    <3>6. /\ c <= b + Flux
          /\ c % Flux # 0 => c < b + Flux
          /\ n = Buf => c % Buf = 0
      <4>1. /\ Buf \in Nat \ {0} /\ Flux \in Multiples(Buf) /\ Flux # 0
            /\ b \in Multiples(Flux) /\ send[i].count \in Multiples(Buf)
            /\ send[i].count < b + Flux
        BY <1>3, <3>2, <3>5, FileUploadAssumption DEF Multiples
      <4>2. /\ c <= b + Flux
            /\ c \in Multiples(Flux) \/ c < b + Flux
            /\ n = Buf => c \in Multiples(Buf)
        BY <1>3, <4>1, BufferInSegment DEF c
      <4>3. QED
        BY <4>2 DEF Multiples
    <3>7. b \in 0..c
      BY <1>3, <3>5 DEF c
    <3>8. (n < Buf) \/ c % Buf = 0
      BY <1>3, <3>6, FileUploadAssumption
    <3>9. busy' = i => c < b + Flux
      BY <1>7, <3>2, <3>6
    <3>10. QED
      BY <1>1, <1>5, <3>4, <3>5, <3>6, <3>7, <3>8, <3>9 DEF Streaming
  <2>7. QED
    BY <2>1, <2>2, <2>3, <2>4, <2>5, <2>6 DEF Upload
<1>14. QED
  BY <1>10, <1>11, <1>12, <1>13 DEF IInv

\* The end of the file: what the client has read is on its way in full.
LEMMA FinishStep ==
    ASSUME IInv, FinishUpload
    PROVE  IInv'
<1>1. PICK i \in Id : i = busy
  BY DEF FinishUpload, IInv, TypeOK
<1> DEFINE t == [type |-> "finish_upload", id |-> i, finish |-> TRUE]
<1>2. /\ TypeOK /\ busy = i /\ Send(t) /\ busy' = NoId
      /\ send[i] = NoSend \/ send[i].eof
      /\ UNCHANGED <<size, present, asks, conn, channel, send, result, toClient, srv>>
  BY <1>1 DEF IInv, FinishUpload, fileVars
<1>3. OneTurn(i) /\ UpFrames(i) /\ DownFrames(i) /\ Served(i) /\ Streaming(i)
      /\ Sending(i)
  BY <1>2 DEF IInv, Upload
<1>4. send[i].eof /\ srv[i].state = "live" /\ srv[i] # Free /\ send[i] # NoSend
  BY <1>2, <1>3, FieldTypes DEF Sending, Free
<1>5. t \in UpTurn(i) /\ t.type = "finish_upload" /\ t.finish
  BY DEF UpTurn
<1>6. /\ None(toServer, UpTurn(i)) /\ None(toClient, DownTurn(i))
      /\ NoneBehind(toServer, UpTurn(i), DataOf(i)) /\ AtMostOne(toClient, DownTurn(i))
  BY <1>2, <1>3 DEF OneTurn
<1> HIDE DEF t
<1>7. /\ toServer' \in Seq(ToServer)
      /\ AtMostOne(toServer', UpTurn(i))
      /\ NoneBehind(toServer', UpTurn(i), DataOf(i))
      /\ Contents(toServer') \subseteq Contents(toServer) \union {t}
      /\ Keeps(toServer, toServer', DataOf(i))
      /\ \A j \in Id : j # i => /\ Calm(toServer, toServer', UpTurn(j), DataOf(j))
                                /\ Keeps(toServer, toServer', DataOf(j))
  BY <1>2, <1>5, <1>6, SendTurn
<1>8. TypeOK' /\ Connected' /\ ChannelTracksFiles'
  BY <1>2, <1>7 DEF IInv, TypeOK, Connected, ChannelTracksFiles
<1>9. ASSUME NEW j \in Id, j # i PROVE Upload(j)'
  <2>1. Calm(toClient, toClient', DownTurn(j), {}) /\ busy' # j
    BY <1>2, CalmSame, FileUploadAssumption
  <2>2. QED
    BY <1>2, <1>7, <1>9, <2>1, Untouched DEF IInv
<1>10. Upload(i)'
  <2>1. busy' # i
    BY <1>2, FileUploadAssumption
  <2>2. OneTurn(i)'
    BY <1>2, <1>6, <1>7, <2>1 DEF OneTurn
  <2>3. UpFrames(i)'
    <3>1. ASSUME NEW x \in Contents(toServer'), x \in UpTurn(i) PROVE x = t
      BY <1>6, <1>7, <3>1, NoneContents
    <3>2. QED
      BY <1>2, <1>3, <1>4, <1>5, <3>1 DEF UpFrames, Sending
  <2>4. DownFrames(i)'
    BY <1>2, <1>6, NoneContents DEF DownFrames
  <2>5. Served(i)'
    BY <1>2, <1>3, <1>4 DEF Served
  <2>6. Streaming(i)'
    <3>1. send[i].count \in Nat /\ srv[i].have \in Nat
      BY <1>2, <1>4, FieldTypes
    <3>2. QED
      BY <1>2, <1>3, <1>7, <2>1, <3>1 DEF Streaming, Keeps
  <2>7. QED
    BY <2>1, <2>2, <2>3, <2>4, <2>5, <2>6 DEF Upload
<1>11. QED
  BY <1>8, <1>9, <1>10 DEF IInv

\* The result closes the file; nothing of the upload is on its way then.
LEMMA FinishBackStep ==
    ASSUME IInv, TaskFilesFinishUploadBack
    PROVE  IInv'
<1> DEFINE m == Head(toClient)
<1>1. /\ TypeOK /\ Connected /\ ChannelTracksFiles /\ Dispatch("finish_upload_back")
      /\ send' = [send EXCEPT ![m.id] = NoSend]
      /\ channel' = channel \ {m.id}
      /\ result' = [result EXCEPT ![m.id] = IF m.ok THEN "ok" ELSE "failed"]
      /\ UNCHANGED <<size, present, asks, conn, busy, toServer, srv>>
      /\ busy = NoId /\ conn \in {"open", "broken"}
  BY DEF IInv, TaskFilesFinishUploadBack, Dispatch, fileVars
<1>2. PICK i \in Id : i = m.id /\ m \in DownTurn(i) /\ m \in Contents(toClient)
                      /\ m.type = "finish_upload_back" /\ m.ok \in BOOLEAN
  BY <1>1, DispatchCalm, ToClientKinds
<1>3. OneTurn(i) /\ UpFrames(i) /\ DownFrames(i) /\ Served(i)
  BY DEF IInv, Upload
<1>4. /\ srv[i].state = "done" /\ srv[i] # Free
      /\ m.ok => srv[i].have = srv[i].declared
  BY <1>1, <1>2, <1>3, FieldTypes DEF DownFrames, Free
<1>5. /\ None(toServer, UpTurn(i)) /\ None(toClient', DownTurn(i))
      /\ toClient' \in Seq(ToClient)
      /\ \A j \in Id : Calm(toClient, toClient', DownTurn(j), {})
  BY <1>1, <1>2, TurnAtClient
<1>6. None(toServer, DataOf(i))
  BY <1>3, <1>4, NoneContents DEF UpFrames, Sending
<1>7. /\ send'[i] = NoSend /\ result'[i] = IF m.ok THEN "ok" ELSE "failed"
      /\ \A j \in Id : j # i => send'[j] = send[j] /\ result'[j] = result[j]
  BY <1>1, <1>2 DEF TypeOK
<1>8. channel' = channel \ {i} /\ channel \in SUBSET Id /\ channel # NoChannel
      /\ channel' # NoChannel
  BY <1>1, <1>2, FileUploadAssumption DEF TypeOK, Connected, NoChannel
<1>9. TypeOK'
  <2>1. send' \in [Id -> FsSend \union {NoSend}]
    BY <1>1, <1>2 DEF TypeOK
  <2>2. result' \in [Id -> {"none", "ok", "failed"}]
    BY <1>1, <1>2 DEF TypeOK
  <2>3. QED
    BY <1>1, <1>5, <1>8, <2>1, <2>2 DEF TypeOK
<1> HIDE DEF m
<1>10. Connected' /\ ChannelTracksFiles'
  BY <1>1, <1>7, <1>8 DEF Connected, ChannelTracksFiles
<1>11. ASSUME NEW j \in Id, j # i PROVE Upload(j)'
  BY <1>1, <1>5, <1>7, <1>11, CalmSame, Untouched DEF IInv
<1>12. Upload(i)'
  <2>1. busy' # i
    BY <1>1, FileUploadAssumption
  <2>2. OneTurn(i)'
    BY <1>1, <1>3, <1>5, <2>1 DEF OneTurn, Calm
  <2>3. UpFrames(i)'
    BY <1>1, <1>5, <1>6, NoneContents DEF UpFrames
  <2>4. DownFrames(i)'
    BY <1>5, NoneContents DEF DownFrames
  <2>5. Served(i)'
    BY <1>1, <1>3, <1>4, <1>7 DEF Served
  <2>6. Streaming(i)'
    BY <1>7 DEF Streaming
  <2>7. QED
    BY <2>1, <2>2, <2>3, <2>4, <2>5, <2>6 DEF Upload
<1>13. QED
  BY <1>9, <1>10, <1>11, <1>12 DEF IInv
-----------------------------------------------------------------------------
(***************************************************************************)
(* Steps of the server.                                                    *)
(***************************************************************************)
\* What the server knows of upload i when a frame of it arrives.
LEMMA TurnAtServer ==
    ASSUME IInv, NEW type, SrvReads(type), NEW i \in Id, Head(toServer) \in UpTurn(i)
    PROVE  /\ busy # i
           /\ None(toClient, DownTurn(i))
           /\ None(toServer', UpTurn(i))
           /\ None(toServer', DataOf(i))
           /\ toServer' \in Seq(ToServer)
           /\ Keeps(toServer, toServer', DataOf(i))
           /\ \A j \in Id : j # i => /\ Calm(toServer, toServer', UpTurn(j), DataOf(j))
                                     /\ Keeps(toServer, toServer', DataOf(j))
<1>1. OneTurn(i) /\ TypeOK
  BY DEF IInv, Upload
<1>2. Head(toServer) \in Contents(toServer)
  BY <1>1, SrvReadsCalm
<1>3. ~None(toServer, UpTurn(i))
  BY <1>2, NoneContents
<1>4. \A j : Head(toServer) \notin DataOf(j)
  BY FrameShape
<1>5. QED
  BY <1>1, <1>3, <1>4, SrvReadsCalm DEF OneTurn

\* An upload the server does not know is nowhere; the new one begins empty.
LEMMA SrvCreateStep ==
    ASSUME IInv, SrvCreate
    PROVE  IInv'
<1> DEFINE m == Head(toServer)
           back(i, ok) == [type |-> "create_upload_back", id |-> i,
                           file |-> m.file, ok |-> ok]
<1>1. /\ TypeOK /\ SrvReads("create_upload")
      /\ UNCHANGED <<size, present, asks, conn, channel, send, busy, result>>
  BY DEF IInv, SrvCreate, fileVars
<1>2. m \in ToServer /\ m.type = "create_upload" /\ m.file \in File /\ m.length \in Sizes
  BY <1>1, SrvReadsCalm, ToServerKinds
<1>3. /\ toServer' \in Seq(ToServer)
      /\ \A j : /\ Calm(toServer, toServer', UpTurn(j), DataOf(j))
                /\ Keeps(toServer, toServer', DataOf(j))
  BY <1>1, <1>2, SrvReadsCalm, FrameShape
<1>4. CASE toClient' = Append(toClient, back(NoId, FALSE)) /\ UNCHANGED srv
  <2>1. back(NoId, FALSE) \in ToClient
    BY <1>2 DEF ToClient
  <2>2. \A j \in Id : back(NoId, FALSE) \notin DownTurn(j)
    BY FileUploadAssumption DEF DownTurn
  <2>3. toClient' \in Seq(ToClient) /\ \A j \in Id : Calm(toClient, toClient', DownTurn(j), {})
    BY <1>1, <1>4, <2>1, <2>2, AnswerCalm
  <2>4. TypeOK' /\ Connected' /\ ChannelTracksFiles'
    BY <1>1, <1>3, <1>4, <2>3 DEF IInv, TypeOK, Connected, ChannelTracksFiles
  <2>5. ASSUME NEW j \in Id PROVE Upload(j)'
    BY <1>1, <1>3, <1>4, <2>3, Untouched DEF IInv
  <2>6. QED
    BY <2>4, <2>5 DEF IInv
<1>5. ASSUME NEW i \in Id, srv[i] = Free,
             srv' = [srv EXCEPT ![i] = [state |-> "live", declared |-> m.length,
                                        have |-> 0, intact |-> TRUE]],
             toClient' = Append(toClient, back(i, TRUE))
      PROVE  IInv'
  <2> DEFINE u == [state |-> "live", declared |-> m.length, have |-> 0, intact |-> TRUE]
             b == back(i, TRUE)
  <2>1. /\ srv'[i] = u /\ u \in Live /\ u # Free /\ u.state = "live" /\ u.have = 0 /\ u.intact
        /\ \A j \in Id : j # i => srv'[j] = srv[j]
        /\ srv' \in [Id -> Live \union {Free}]
    <3>1. u \in Live /\ u # Free
      BY <1>2 DEF Live, Free
    <3>2. QED
      BY <1>1, <1>5, <3>1 DEF TypeOK
  <2>2. b \in DownTurn(i) /\ b \in ToClient /\ b.type = "create_upload_back"
    BY <1>2 DEF DownTurn, ToClient
  <2>3. \A j : j # i => b \notin DownTurn(j)
    BY DEF DownTurn
  <2> HIDE DEF u, b
  <2>4. OneTurn(i) /\ UpFrames(i) /\ DownFrames(i) /\ Served(i) /\ (busy = i => Sending(i))
    BY DEF IInv, Upload
  <2>5. /\ send[i] = NoSend /\ None(toServer, UpTurn(i)) /\ None(toClient, DownTurn(i))
        /\ result[i] # "ok" /\ srv[i].state = "free"
    BY <1>5, <2>4 DEF Served, Free
  <2>6. busy # i /\ None(toServer, DataOf(i))
    BY <2>4, <2>5, NoneContents DEF UpFrames, Sending
  <2>7. None(toServer', UpTurn(i)) /\ None(toServer', DataOf(i))
    BY <1>3, <2>5, <2>6 DEF Calm
  <2>8. /\ toClient' \in Seq(ToClient)
        /\ Contents(toClient') = Contents(toClient) \union {b}
        /\ AtMostOne(toClient', DownTurn(i))
        /\ \A j : j # i => Calm(toClient, toClient', DownTurn(j), {})
    <3>1. toClient' = Append(toClient, b)
      BY <1>5 DEF b
    <3>2. QED
      BY <1>1, <2>2, <2>3, <2>5, <3>1, AnswerCalm
  <2>9. TypeOK' /\ Connected' /\ ChannelTracksFiles'
    BY <1>1, <1>3, <2>1, <2>8 DEF IInv, TypeOK, Connected, ChannelTracksFiles
  <2>10. ASSUME NEW j \in Id, j # i PROVE Upload(j)'
    BY <1>1, <1>3, <2>1, <2>8, <2>10, Untouched DEF IInv
  <2>11. Upload(i)'
    <3>1. OneTurn(i)'
      BY <1>1, <1>3, <2>4, <2>6, <2>7, <2>8 DEF OneTurn, Calm
    <3>2. UpFrames(i)'
      BY <2>7, NoneContents DEF UpFrames
    <3>3. ASSUME NEW x \in Contents(toClient'), x \in DownTurn(i) PROVE x = b
      BY <2>5, <2>8, <3>3, NoneContents
    <3>4. DownFrames(i)'
      BY <1>1, <2>1, <2>2, <2>5, <3>3 DEF DownFrames
    <3>5. Served(i)' /\ Streaming(i)'
      BY <1>1, <2>1, <2>5 DEF Served, Streaming
    <3>6. QED
      BY <1>1, <2>6, <3>1, <3>2, <3>4, <3>5 DEF Upload
  <2>12. QED
    BY <2>9, <2>10, <2>11 DEF IInv
<1>6. QED
  BY <1>4, <1>5 DEF SrvCreate

\* A segment is announced when the server has all of the one before it.
LEMMA SrvBeginStep ==
    ASSUME IInv, SrvBegin
    PROVE  IInv'
<1> DEFINE m == Head(toServer)
           b == [type |-> "begin_upload_back", id |-> m.id]
<1>1. /\ TypeOK /\ SrvReads("begin_upload") /\ conn = "open"
      /\ toClient' = Append(toClient, b)
      /\ UNCHANGED <<size, present, asks, conn, channel, send, busy, result, srv>>
  BY DEF IInv, SrvBegin, SrvReads, fileVars
<1>2. PICK i \in Id : i = m.id /\ m \in UpTurn(i) /\ m \in Contents(toServer)
                      /\ m.type = "begin_upload"
  BY <1>1, SrvReadsCalm, ToServerKinds
<1>3. OneTurn(i) /\ UpFrames(i) /\ DownFrames(i) /\ Served(i) /\ Streaming(i)
  BY DEF IInv, Upload
<1>4. /\ Sending(i) /\ Aligned(i) /\ srv[i].state = "live" /\ srv[i] # Free
      /\ send[i] # NoSend /\ send[i].count \in Nat /\ srv[i].have \in Nat
  <2>1. Sending(i) /\ Aligned(i)
    BY <1>2, <1>3 DEF UpFrames
  <2>2. srv[i].state = "live" /\ send[i] # NoSend /\ srv[i] # Free
    BY <2>1 DEF Sending, Free
  <2>3. QED
    BY <1>1, <2>1, <2>2, FieldTypes
<1>5. /\ busy # i /\ None(toClient, DownTurn(i))
      /\ None(toServer', UpTurn(i)) /\ None(toServer', DataOf(i))
      /\ toServer' \in Seq(ToServer)
      /\ Keeps(toServer, toServer', DataOf(i))
      /\ \A j \in Id : j # i => /\ Calm(toServer, toServer', UpTurn(j), DataOf(j))
                                /\ Keeps(toServer, toServer', DataOf(j))
  BY <1>1, <1>2, TurnAtServer
<1>6. Chain(toServer', DataOf(i), srv[i].have, send[i].count)
  BY <1>1, <1>3, <1>4, <1>5 DEF Streaming, Keeps
<1>7. srv[i].have = send[i].count
  BY <1>4, <1>5, <1>6, ChainNone
<1>8. b \in DownTurn(i) /\ b \in ToClient /\ b.type = "begin_upload_back"
  BY <1>2 DEF DownTurn, ToClient
<1>9. \A j : j # i => b \notin DownTurn(j)
  BY <1>8, FrameShape
<1> HIDE DEF m, b
<1>10. /\ toClient' \in Seq(ToClient)
       /\ Contents(toClient') = Contents(toClient) \union {b}
       /\ AtMostOne(toClient', DownTurn(i))
       /\ \A j : j # i => Calm(toClient, toClient', DownTurn(j), {})
  BY <1>1, <1>5, <1>8, <1>9, AnswerCalm
<1>11. TypeOK' /\ Connected' /\ ChannelTracksFiles'
  BY <1>1, <1>5, <1>10 DEF IInv, TypeOK, Connected, ChannelTracksFiles
<1>12. ASSUME NEW j \in Id, j # i PROVE Upload(j)'
  BY <1>1, <1>5, <1>10, <1>12, Untouched DEF IInv
<1>13. Upload(i)'
  <2>1. OneTurn(i)'
    BY <1>1, <1>5, <1>10 DEF OneTurn, None, AtMostOne, NoneBehind
  <2>2. UpFrames(i)'
    BY <1>5, NoneContents DEF UpFrames
  <2>3. ASSUME NEW x \in Contents(toClient'), x \in DownTurn(i) PROVE x = b
    BY <1>5, <1>10, <2>3, NoneContents
  <2>4. DownFrames(i)'
    BY <1>1, <1>4, <1>7, <1>8, <2>3 DEF DownFrames, Sending, Aligned
  <2>5. Served(i)'
    BY <1>1, <1>3, <1>4 DEF Served
  <2>6. Streaming(i)'
    BY <1>1, <1>3, <1>4, <1>6 DEF Streaming
  <2>7. QED
    BY <1>1, <1>5, <2>1, <2>2, <2>4, <2>5, <2>6 DEF Upload
<1>14. QED
  BY <1>11, <1>12, <1>13 DEF IInv

\* A data frame goes on where the server's bytes end.
LEMMA SrvDataStep ==
    ASSUME IInv, SrvData
    PROVE  IInv'
<1> DEFINE m == Head(toServer)
<1>1. /\ TypeOK /\ SrvReads("data") /\ conn = "open"
      /\ toServer # <<>> /\ toServer' = Tail(toServer) /\ toServer \in Seq(ToServer)
      /\ srv' = [srv EXCEPT ![m.id].have = @ + m.bytes,
                            ![m.id].intact = @ /\ m.from = srv[m.id].have]
      /\ UNCHANGED <<size, present, asks, conn, channel, send, busy, result, toClient>>
  BY DEF IInv, TypeOK, SrvData, SrvReads, fileVars
<1>2. PICK i \in Id : i = m.id /\ m \in DataOf(i) /\ m \in Contents(toServer)
  BY <1>1, SrvReadsCalm, ToServerKinds
<1>3. m.from \in Nat /\ m.bytes \in Nat /\ \A d \in DataOf(i) : d.from \in Nat /\ d.bytes \in Nat
  BY <1>2, FrameShape
<1>4. OneTurn(i) /\ UpFrames(i) /\ DownFrames(i) /\ Served(i) /\ Streaming(i)
      /\ (busy = i => Sending(i))
  BY DEF IInv, Upload
<1>5. /\ Sending(i) /\ srv[i].state = "live" /\ send[i] # NoSend /\ srv[i] # Free
  BY <1>2, <1>4 DEF UpFrames, Sending, Free
<1>6. /\ send[i].count \in Nat /\ srv[i].have \in Nat /\ srv[i] \in Live
      /\ srv[i].declared \in Sizes /\ srv[i].intact = TRUE
  BY <1>1, <1>4, <1>5, FieldTypes DEF Served
<1>7. Chain(toServer, DataOf(i), srv[i].have, send[i].count)
  BY <1>1, <1>4, <1>5 DEF Streaming
<1>8. /\ m.from = srv[i].have /\ End(m) \in Nat
      /\ Chain(toServer', DataOf(i), End(m), send[i].count)
  BY <1>1, <1>2, <1>3, <1>6, <1>7, ChainTail
<1>9. End(m) = srv[i].have + m.bytes /\ srv[i].have <= End(m) /\ End(m) <= send[i].count
  BY <1>3, <1>6, <1>8, ChainGrows DEF End
<1> DEFINE u == [state |-> "live", declared |-> srv[i].declared, have |-> End(m),
                 intact |-> TRUE]
<1>10. /\ srv'[i] = u
       /\ \A j \in Id : j # i => srv'[j] = srv[j]
       /\ srv' \in [Id -> Live \union {Free}]
  <2>1. srv'[i] = [srv[i] EXCEPT !.have = @ + m.bytes,
                                 !.intact = @ /\ m.from = srv[i].have]
    BY <1>1, <1>2 DEF TypeOK
  <2>2. srv'[i] = u
    BY <1>5, <1>6, <1>8, <1>9, <2>1 DEF Live
  <2>3. u \in Live
    BY <1>6, <1>8 DEF Live
  <2>4. \A j \in Id : j # i => srv'[j] = srv[j]
    BY <1>1, <1>2 DEF TypeOK
  <2>5. srv' \in [Id -> Live \union {Free}]
    BY <1>1, <1>2, <2>2, <2>3 DEF TypeOK
  <2>6. QED
    BY <2>2, <2>4, <2>5
<1>11. u.state = "live" /\ u.declared = srv[i].declared /\ u.have = End(m) /\ u.intact
       /\ u # Free
  BY DEF Free
<1>12. /\ toServer' \in Seq(ToServer)
       /\ Contents(toServer') \subseteq Contents(toServer)
       /\ \A j : Calm(toServer, toServer', UpTurn(j), DataOf(j))
       /\ \A j : j # i => Keeps(toServer, toServer', DataOf(j))
  <2>1. \A j : j # i => m \notin DataOf(j)
    BY <1>2, FrameShape
  <2>2. QED
    BY <1>1, <2>1, SrvReadsCalm
<1> HIDE DEF m, u
<1>13. TypeOK' /\ Connected' /\ ChannelTracksFiles'
  BY <1>1, <1>10, <1>12 DEF IInv, TypeOK, Connected, ChannelTracksFiles
<1>14. ASSUME NEW j \in Id, j # i PROVE Upload(j)'
  BY <1>1, <1>10, <1>12, <1>14, CalmSame, Untouched DEF IInv
<1>15. Upload(i)'
  <2>1. Sending(i)' /\ Aligned(i)' = Aligned(i)
    BY <1>1, <1>5, <1>10, <1>11 DEF Sending, Aligned
  <2>2. OneTurn(i)'
    BY <1>1, <1>4, <1>12 DEF OneTurn, Calm
  <2>3. UpFrames(i)'
    <3>1. srv'[i].state = "live" /\ send'[i] = send[i]
      BY <1>1, <1>10, <1>11
    <3>2. QED
      BY <1>4, <1>12, <2>1, <3>1 DEF UpFrames
  <2>4. DownFrames(i)'
    <3>1. ASSUME NEW x \in Contents(toClient), x \in DownTurn(i)
          PROVE  x.type = "begin_upload_back" /\ Aligned(i) /\ srv[i].have = send[i].count
      BY <1>4, <1>5, <3>1, FrameShape DEF DownFrames
    <3>2. srv[i].have = send[i].count => End(m) = send[i].count
      BY <1>6, <1>8, <1>9
    <3>3. QED
      BY <1>1, <1>10, <1>11, <2>1, <3>1, <3>2 DEF DownFrames
  <2>5. Served(i)'
    BY <1>1, <1>4, <1>5, <1>10, <1>11 DEF Served
  <2>6. Streaming(i)'
    <3>1. PICK b \in 0..send[i].count :
             /\ b % Flux = 0 /\ b <= srv[i].have
             /\ send[i].count <= b + Flux
             /\ busy = i /\ ~send[i].eof => send[i].count < b + Flux
      BY <1>1, <1>4, <1>5 DEF Streaming
    <3>2. b <= End(m)
      BY <1>6, <1>8, <1>9, <3>1
    <3>3. QED
      BY <1>1, <1>4, <1>5, <1>8, <1>10, <1>11, <3>1, <3>2 DEF Streaming
  <2>7. QED
    BY <2>1, <2>2, <2>3, <2>4, <2>5, <2>6 DEF Upload
<1>16. QED
  BY <1>13, <1>14, <1>15 DEF IInv

\* The end of an upload arrives behind all of its data.
LEMMA SrvFinishStep ==
    ASSUME IInv, SrvFinish
    PROVE  IInv'
<1> DEFINE m == Head(toServer)
           b == [type |-> "finish_upload_back", id |-> m.id,
                 ok |-> m.finish /\ srv[m.id].have = srv[m.id].declared]
<1>1. /\ TypeOK /\ SrvReads("finish_upload") /\ conn = "open"
      /\ srv' = [srv EXCEPT ![m.id].state = "done"]
      /\ toClient' = Append(toClient, b)
      /\ UNCHANGED <<size, present, asks, conn, channel, send, busy, result>>
  BY DEF IInv, SrvFinish, SrvReads, fileVars
<1>2. PICK i \in Id : i = m.id /\ m \in UpTurn(i) /\ m \in Contents(toServer)
                      /\ m.type = "finish_upload" /\ m.finish \in BOOLEAN
  BY <1>1, SrvReadsCalm, ToServerKinds
<1>3. OneTurn(i) /\ UpFrames(i) /\ DownFrames(i) /\ Served(i) /\ Streaming(i)
  BY DEF IInv, Upload
<1>4. /\ srv[i].state = "live" /\ srv[i] # Free
      /\ send[i] # NoSend => m.finish /\ send[i].eof
  BY <1>2, <1>3 DEF UpFrames, Free
<1>5. /\ srv[i] \in Live /\ srv[i].declared \in Sizes /\ srv[i].have \in Nat
      /\ srv[i].intact = TRUE
      /\ send[i] # NoSend => send[i].count \in Nat
  BY <1>1, <1>3, <1>4, FieldTypes DEF Served
<1>6. /\ busy # i /\ None(toClient, DownTurn(i))
      /\ None(toServer', UpTurn(i)) /\ None(toServer', DataOf(i))
      /\ toServer' \in Seq(ToServer)
      /\ Keeps(toServer, toServer', DataOf(i))
      /\ \A j \in Id : j # i => /\ Calm(toServer, toServer', UpTurn(j), DataOf(j))
                                /\ Keeps(toServer, toServer', DataOf(j))
  BY <1>1, <1>2, TurnAtServer
<1>7. send[i] # NoSend => Chain(toServer', DataOf(i), srv[i].have, send[i].count)
  BY <1>1, <1>3, <1>5, <1>6 DEF Streaming, Keeps
<1>8. send[i] # NoSend => srv[i].have = send[i].count
  BY <1>5, <1>6, <1>7, ChainNone
<1>9. /\ b \in DownTurn(i) /\ b \in ToClient /\ b.type = "finish_upload_back"
      /\ b.ok => srv[i].have = srv[i].declared
  BY <1>2 DEF DownTurn, ToClient
<1>10. \A j : j # i => b \notin DownTurn(j)
  BY <1>9, FrameShape
<1> DEFINE u == [state |-> "done", declared |-> srv[i].declared, have |-> srv[i].have,
                 intact |-> TRUE]
<1>11. /\ srv'[i] = u
       /\ \A j \in Id : j # i => srv'[j] = srv[j]
       /\ srv' \in [Id -> Live \union {Free}]
  <2>1. srv'[i] = [srv[i] EXCEPT !.state = "done"]
    BY <1>1, <1>2 DEF TypeOK
  <2>2. srv'[i] = u
    BY <1>5, <2>1 DEF Live
  <2>3. u \in Live
    BY <1>5 DEF Live
  <2>4. \A j \in Id : j # i => srv'[j] = srv[j]
    BY <1>1, <1>2 DEF TypeOK
  <2>5. srv' \in [Id -> Live \union {Free}]
    BY <1>1, <1>2, <2>2, <2>3 DEF TypeOK
  <2>6. QED
    BY <2>2, <2>4, <2>5
<1>12. /\ u.state = "done" /\ u.declared = srv[i].declared /\ u.have = srv[i].have
       /\ u.intact /\ u # Free
  BY DEF Free
<1> HIDE DEF m, b, u
<1>13. /\ toClient' \in Seq(ToClient)
       /\ Contents(toClient') = Contents(toClient) \union {b}
       /\ AtMostOne(toClient', DownTurn(i))
       /\ \A j : j # i => Calm(toClient, toClient', DownTurn(j), {})
  BY <1>1, <1>6, <1>9, <1>10, AnswerCalm
<1>14. TypeOK' /\ Connected' /\ ChannelTracksFiles'
  BY <1>1, <1>6, <1>11, <1>13 DEF IInv, TypeOK, Connected, ChannelTracksFiles
<1>15. ASSUME NEW j \in Id, j # i PROVE Upload(j)'
  BY <1>1, <1>6, <1>11, <1>13, <1>15, Untouched DEF IInv
<1>16. Upload(i)'
  <2>1. OneTurn(i)'
    BY <1>1, <1>6, <1>13 DEF OneTurn, None, AtMostOne, NoneBehind
  <2>2. UpFrames(i)'
    BY <1>6, NoneContents DEF UpFrames
  <2>3. ASSUME NEW x \in Contents(toClient'), x \in DownTurn(i) PROVE x = b
    BY <1>6, <1>13, <2>3, NoneContents
  <2>4. DownFrames(i)'
    BY <1>9, <1>11, <1>12, <2>3 DEF DownFrames
  <2>5. Served(i)'
    BY <1>1, <1>3, <1>4, <1>8, <1>11, <1>12 DEF Served
  <2>6. Streaming(i)'
    BY <1>1, <1>3, <1>7, <1>11, <1>12 DEF Streaming
  <2>7. QED
    BY <1>1, <1>6, <2>1, <2>2, <2>4, <2>5, <2>6 DEF Upload
<1>17. QED
  BY <1>14, <1>15, <1>16 DEF IInv
-----------------------------------------------------------------------------
(***************************************************************************)
(* The theorems.                                                           *)
(***************************************************************************)
\* Every step keeps the invariant.
LEMMA NextInv == IInv /\ [Next]_vars => IInv'
<1> SUFFICES ASSUME IInv, [Next]_vars PROVE IInv'
  OBVIOUS
<1>1. ASSUME NEW f \in File, ChangeFile(f) \/ RemoveFile(f) PROVE IInv'
  BY <1>1, FilesStep
<1>2. ASSUME NEW f \in File, UploadFile(f) PROVE IInv'
  BY <1>2, UploadFileStep
<1>3. CASE SlOpen \/ Break \/ SlClose
  BY <1>3, ConnStep
<1>4. CASE TaskFilesCreateUploadBack
  BY <1>4, OpenStep, RefusedStep
<1>5. CASE TaskFilesBeginUploadBack
  BY <1>5, BeginBackStep
<1>6. CASE AddDataSend
  BY <1>6, RoundStep
<1>7. CASE FinishUpload
  BY <1>7, FinishStep
<1>8. CASE TaskFilesFinishUploadBack
  BY <1>8, FinishBackStep
<1>9. CASE Server
  BY <1>9, SrvCreateStep, SrvBeginStep, SrvDataStep, SrvFinishStep DEF Server
<1>10. CASE UNCHANGED vars
  <2>1. /\ UNCHANGED <<size, present, asks, conn, channel, send, busy, result, toServer,
                       toClient, srv>>
    BY <1>10 DEF vars, fileVars
  <2>2. TypeOK' /\ Connected' /\ ChannelTracksFiles'
    BY <2>1 DEF IInv, TypeOK, Connected, ChannelTracksFiles
  <2>3. ASSUME NEW i \in Id PROVE Upload(i)'
    BY <2>1, CalmSame, Untouched DEF IInv
  <2>4. QED
    BY <2>2, <2>3 DEF IInv
<1>11. QED
  BY <1>1, <1>2, <1>3, <1>4, <1>5, <1>6, <1>7, <1>8, <1>9, <1>10 DEF Next, Client

\* The invariant of the turns holds in every reachable state.
THEOREM Invariance == Spec => []IInv
<1>1. QED
  BY InitInv, NextInv, PTL DEF Spec

\* The variables keep their types.
THEOREM TypeCorrect == Spec => []TypeOK
<1>1. IInv => TypeOK
  BY DEF IInv
<1>2. QED
  BY <1>1, Invariance, PTL

\* An upload reported as successful (task_files_finish_upload_back) is on the
\* server byte for byte.
THEOREM UploadIntactHolds == Spec => []UploadIntact
<1>1. IInv => UploadIntact
  <2>1. SUFFICES ASSUME IInv, NEW i \in Id, result[i] = "ok"
                 PROVE  srv[i] # Free /\ srv[i].intact /\ srv[i].have = srv[i].declared
    BY DEF UploadIntact
  <2>2. Served(i)
    BY <2>1 DEF IInv, Upload
  <2>3. QED
    BY <2>1, <2>2 DEF Served, Free
<1>2. QED
  BY <1>1, Invariance, PTL

\* When the server is told that an open upload is finished, it has every byte
\* that the client has read, and the client has read to the end.
THEOREM FinishedIsDeliveredHolds == Spec => []FinishedIsDelivered
<1>1. IInv => FinishedIsDelivered
  <2>1. SUFFICES ASSUME IInv, NEW i \in Id, send[i] # NoSend, srv[i].state = "done"
                 PROVE  send[i].eof /\ srv[i].have = send[i].count /\ srv[i].intact
    BY DEF FinishedIsDelivered
  <2>2. Served(i) /\ srv[i] # Free
    BY <2>1 DEF IInv, Upload, Free
  <2>3. QED
    BY <2>1, <2>2 DEF Served
<1>2. QED
  BY <1>1, Invariance, PTL

\* What check_linit_flux is for: no more than one segment of an upload is on
\* its way, however many buffers the loop sends and whatever the file does.
THEOREM FluxBoundHolds == Spec => []FluxBound
<1>1. IInv => FluxBound
  <2>1. SUFFICES ASSUME IInv, NEW i \in Id, send[i] # NoSend, conn = "open"
                 PROVE  /\ srv[i].have <= send[i].count
                        /\ send[i].count - srv[i].have <= Flux
    BY DEF FluxBound
  <2>2. Streaming(i) /\ srv[i] # Free /\ TypeOK
    BY <2>1 DEF IInv, Upload, Served
  <2>3. send[i].count \in Nat /\ srv[i].have \in Nat
    BY <2>1, <2>2, FieldTypes
  <2>4. srv[i].have <= send[i].count
    BY <2>1, <2>2, <2>3, ChainGrows DEF Streaming
  <2>5. PICK b \in 0..send[i].count : b <= srv[i].have /\ send[i].count <= b + Flux
    BY <2>1, <2>2 DEF Streaming
  <2>6. QED
    BY <2>3, <2>4, <2>5, FileUploadAssumption
<1>2. QED
  BY <1>1, Invariance, PTL

\* _map_channel lists exactly the open files of a connection that is up.
THEOREM ChannelTracksFilesHolds == Spec => []ChannelTracksFiles
<1>1. IInv => ChannelTracksFiles
  BY DEF IInv
<1>2. QED
  BY <1>1, Invariance, PTL
=============================================================================
