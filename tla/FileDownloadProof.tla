--------------------------- MODULE FileDownloadProof ---------------------------
(***************************************************************************)
(* Proofs about FileDownload, for any files, sizes, ids and segment sizes. *)
(*                                                                         *)
(* For each download one side has the turn: the server while it sends a    *)
(* segment, otherwise whoever a frame that asks or answers is on its way   *)
(* to.  The data frames travel before the server's next turn and make up   *)
(* what lies between the client's count and the server's position.  No two *)
(* downloads are saved to one file.                                        *)
(***************************************************************************)
EXTENDS FileDownload, Queues

\* The request for file f; the frames of download i that carry its turn, and
\* its data.
Request(f) == [type : {"create_download"}, file : {f}]
UpTurn(i) ==
    [type : {"begin_download"}, id : {i}]
      \union [type : {"finish_download"}, id : {i}, ok : BOOLEAN]
DownTurn(i) ==
    [type : {"create_download_back"}, id : {i}, length : Sizes, file : File, ok : {TRUE}]
      \union [type : {"begin_download_back"}, id : {i}]
      \union [type : {"finish_download_back"}, id : {i}, ok : BOOLEAN]
DataOf(i) == [type : {"data"}, id : {i}, from : Nat, bytes : Nat]

\* The server serves file f as download i.
Serves(i, f) == srv[i] # Free /\ srv[i].file = f

\* A file is asked for once, so at most one download has it.
Once(f) ==
    /\ AtMostOne(toServer, Request(f))
    /\ f \notin asked => None(toServer, Request(f)) /\ \A i \in Id : ~Serves(i, f)
    /\ None(toServer, Request(f)) \/ \A i \in Id : ~Serves(i, f)
    /\ \A i, j \in Id : Serves(i, f) /\ Serves(j, f) => i = j

\* One turn at a time, and no data behind it.
OneTurn(i) ==
    /\ AtMostOne(toServer, UpTurn(i))
    /\ AtMostOne(toClient, DownTurn(i))
    /\ None(toServer, UpTurn(i)) \/ None(toClient, DownTurn(i))
    /\ srv[i].state = "sending" =>
          None(toServer, UpTurn(i)) /\ None(toClient, DownTurn(i))
    /\ NoneBehind(toClient, DownTurn(i), DataOf(i))

\* What has happened when a frame of download i is on its way.
UpFrames(i) ==
    \A m \in Contents(toServer) : m \in UpTurn(i) /\ m.type = "begin_download" =>
        srv[i].state = "idle" /\ None(toClient, DataOf(i))

DownFrames(i) ==
    \A m \in Contents(toClient) : m \in DownTurn(i) =>
        /\ m.type = "create_download_back" =>
              /\ srv[i].state = "idle" /\ srv[i].pos = 0
              /\ m.file = srv[i].file /\ m.length = srv[i].length
              /\ recv[i] = NoRecv
        /\ m.type = "begin_download_back" => srv[i].state = "idle"
        /\ m.type = "finish_download_back" => srv[i].state = "done"

\* What the server and the client keep of download i.
Kept(i) ==
    /\ srv[i] = Free =>
          /\ recv[i] = NoRecv
          /\ None(toServer, UpTurn(i))
          /\ None(toClient, DownTurn(i))
          /\ None(toClient, DataOf(i))
    /\ srv[i].state = "sending" => srv[i].pos % Buf = 0
    /\ srv[i].state = "idle" => srv[i].pos % Flux = 0
    /\ recv[i] # NoRecv =>
          /\ recv[i].file = srv[i].file
          /\ recv[i].length = srv[i].length
          /\ ~full => recv[i].good
    /\ result[i] = "ok" =>
          /\ srv[i].state = "done"
          /\ recv[i] = NoRecv
          /\ ~full => saved[srv[i].file].bytes = srv[i].length

\* The data frames in transit are what the client has not written yet; all of
\* them belong to one segment, which begins at b.
Streaming(i) ==
    conn # "closed" /\ recv[i] # NoRecv /\ recv[i].good =>
        /\ Chain(toClient, DataOf(i), recv[i].count, srv[i].pos)
        /\ \E b \in 0..recv[i].count :
              /\ b % Flux = 0
              /\ srv[i].pos <= b + Flux
              /\ srv[i].state = "sending" => srv[i].pos < b + Flux

Download(i) ==
    /\ OneTurn(i)
    /\ UpFrames(i)
    /\ DownFrames(i)
    /\ Kept(i)
    /\ Streaming(i)

\* The connection: nothing is open before it is there, and a channel exists
\* while it does.
Connected ==
    /\ channel = NoChannel <=> conn \in {"none", "closed"}
    /\ conn = "none" => \A i \in Id : recv[i] = NoRecv

\* What a stream has written is right, as far as it goes.
AllIntact == \A f \in File : saved[f].intact

IInv ==
    /\ TypeOK
    /\ Connected
    /\ ChannelTracksFiles
    /\ AllIntact
    /\ \A f \in File : Once(f)
    /\ \A i \in Id : Download(i)
-----------------------------------------------------------------------------
(***************************************************************************)
(* Frames and queues.                                                      *)
(***************************************************************************)
\* A frame that belongs to a download or a request names it, by one of its
\* types.
LEMMA FrameShape ==
    ASSUME NEW i, NEW m
    PROVE  /\ m \in Request(i) => m.file = i /\ m.type = "create_download"
           /\ m \in UpTurn(i) => m.id = i /\ m.type \in {"begin_download", "finish_download"}
           /\ m \in DataOf(i) => /\ m.id = i /\ m.type = "data"
                                 /\ m.from \in Nat /\ m.bytes \in Nat
           /\ m \in DownTurn(i) => /\ m.id = i
                                   /\ m.type \in {"create_download_back",
                                                  "begin_download_back",
                                                  "finish_download_back"}
                                   /\ m.type = "create_download_back" => m.ok
BY DEF Request, UpTurn, DataOf, DownTurn

\* A frame for the server is of a kind that its type says.
LEMMA ToServerKinds ==
    ASSUME NEW m \in ToServer
    PROVE  /\ m.type = "create_download" => m.file \in File /\ m \in Request(m.file)
           /\ m.type = "begin_download" => m.id \in Id /\ m \in UpTurn(m.id)
           /\ m.type = "finish_download" => m.id \in Id /\ m \in UpTurn(m.id)
BY DEF ToServer, UpTurn, Request

\* ... and so is one for the client.
LEMMA ToClientKinds ==
    ASSUME NEW m \in ToClient
    PROVE  /\ m.type = "create_download_back" =>
                 /\ m.file \in File /\ m.length \in Sizes /\ m.ok \in BOOLEAN
                 /\ m.ok => m.id \in Id /\ m \in DownTurn(m.id)
           /\ m.type = "data" => m.id \in Id /\ m \in DataOf(m.id)
           /\ m.type = "begin_download_back" => m.id \in Id /\ m \in DownTurn(m.id)
           /\ m.type = "finish_download_back" => /\ m.id \in Id /\ m.ok \in BOOLEAN
                                                 /\ m \in DownTurn(m.id)
BY DEF ToClient, DownTurn, DataOf

\* The frames of a download are frames of the connection.
LEMMA FramesTyped ==
    ASSUME NEW i \in Id
    PROVE  /\ UpTurn(i) \subseteq ToServer
           /\ DataOf(i) \subseteq ToClient /\ DownTurn(i) \subseteq ToClient
BY DEF ToServer, ToClient, UpTurn, DataOf, DownTurn

\* The client passes the turn of download i to the server.
LEMMA SendTurn ==
    ASSUME TypeOK, NEW i \in Id, NEW m \in UpTurn(i), Send(m),
           None(toServer, UpTurn(i))
    PROVE  /\ toServer' \in Seq(ToServer)
           /\ AtMostOne(toServer', UpTurn(i))
           /\ Contents(toServer') \subseteq Contents(toServer) \union {m}
           /\ \A f : Calm(toServer, toServer', Request(f), {})
           /\ \A j : j # i => Calm(toServer, toServer', UpTurn(j), {})
<1>1. toServer \in Seq(ToServer) /\ m \in ToServer
  BY FramesTyped DEF TypeOK
<1>2. /\ \A f : m \notin Request(f)
      /\ \A j : j # i => m \notin UpTurn(j)
  BY FrameShape
<1>3. CASE toServer' = toServer
  <2>1. AtMostOne(toServer, UpTurn(i))
    BY DEF None, AtMostOne
  <2>2. QED
    BY <1>1, <1>3, <2>1, CalmSame
<1>4. CASE toServer' = Append(toServer, m)
  <2>1. /\ toServer' \in Seq(ToServer)
        /\ Contents(toServer') = Contents(toServer) \union {m}
        /\ AtMostOne(toServer', UpTurn(i))
    BY <1>1, <1>4, AppendAt, ContentsAppend, MarksAppend
  <2>2. /\ \A f : Calm(toServer, toServer', Request(f), {})
        /\ \A j : j # i => Calm(toServer, toServer', UpTurn(j), {})
    BY <1>1, <1>2, <1>4, CalmAppend
  <2>3. QED
    BY <2>1, <2>2
<1>5. QED
  BY <1>3, <1>4 DEF Send

\* The client takes a frame off its queue.
LEMMA DispatchCalm ==
    ASSUME TypeOK, NEW type, Dispatch(type)
    PROVE  /\ Head(toClient) \in ToClient
           /\ Head(toClient).type = type
           /\ Head(toClient) \in Contents(toClient)
           /\ toClient' \in Seq(ToClient)
           /\ \A i : /\ Calm(toClient, toClient', DownTurn(i), DataOf(i))
                     /\ Head(toClient) \notin DataOf(i) =>
                           Keeps(toClient, toClient', DataOf(i))
                     /\ Head(toClient) \in DownTurn(i) /\ AtMostOne(toClient, DownTurn(i))
                           => None(toClient', DownTurn(i))
                     /\ Head(toClient) \in DownTurn(i)
                           /\ NoneBehind(toClient, DownTurn(i), DataOf(i))
                           => None(toClient', DataOf(i))
<1>1. toClient \in Seq(ToClient) /\ toClient # <<>> /\ toClient' = Tail(toClient)
  BY DEF TypeOK, Dispatch
<1>2. QED
  BY <1>1, TailAt, ContentsTail, CalmTail, MarksTail DEF Dispatch

\* The server passes the turn of download i to the client.
LEMMA AnswerTurn ==
    ASSUME TypeOK, NEW i \in Id, NEW m \in DownTurn(i), toClient' = Append(toClient, m),
           None(toClient, DownTurn(i))
    PROVE  /\ toClient' \in Seq(ToClient)
           /\ Contents(toClient') = Contents(toClient) \union {m}
           /\ AtMostOne(toClient', DownTurn(i))
           /\ NoneBehind(toClient', DownTurn(i), DataOf(i))
           /\ Keeps(toClient, toClient', DataOf(i))
           /\ \A j : j # i => /\ Calm(toClient, toClient', DownTurn(j), DataOf(j))
                              /\ Keeps(toClient, toClient', DataOf(j))
<1>1. toClient \in Seq(ToClient) /\ m \in ToClient
  BY FramesTyped DEF TypeOK
<1>2. m \notin DataOf(i) /\ \A j : j # i => m \notin DownTurn(j) /\ m \notin DataOf(j)
  BY FrameShape
<1>3. /\ AtMostOne(toClient', DownTurn(i))
      /\ NoneBehind(toClient', DownTurn(i), DataOf(i))
  <2>1. NoneBehind(toClient, DownTurn(i), DataOf(i))
    BY DEF None, NoneBehind
  <2>2. QED
    BY <1>1, <1>2, <2>1, MarksAppend
<1>4. Keeps(toClient, toClient', DataOf(i))
  BY <1>1, <1>2, ChainAppendOther DEF Keeps
<1>5. QED
  BY <1>1, <1>2, <1>3, <1>4, AppendAt, ContentsAppend, CalmAppend

\* The server takes a frame off its queue.
LEMMA SrvReadsCalm ==
    ASSUME TypeOK, NEW type, SrvReads(type)
    PROVE  /\ Head(toServer) \in ToServer
           /\ Head(toServer).type = type
           /\ Head(toServer) \in Contents(toServer)
           /\ toServer' \in Seq(ToServer)
           /\ \A i : /\ Calm(toServer, toServer', UpTurn(i), {})
                     /\ Head(toServer) \in UpTurn(i) /\ AtMostOne(toServer, UpTurn(i))
                           => None(toServer', UpTurn(i))
           /\ \A f : /\ Calm(toServer, toServer', Request(f), {})
                     /\ Head(toServer) \in Request(f) /\ AtMostOne(toServer, Request(f))
                           => None(toServer', Request(f))
<1>1. toServer \in Seq(ToServer) /\ toServer # <<>> /\ toServer' = Tail(toServer)
  BY DEF TypeOK, SrvReads
<1>2. /\ Head(toServer) \in ToServer /\ Head(toServer).type = type
      /\ Head(toServer) \in Contents(toServer) /\ toServer' \in Seq(ToServer)
  BY <1>1, TailAt, ContentsTail DEF SrvReads
<1>3. ASSUME NEW S
      PROVE  /\ Calm(toServer, toServer', S, {})
             /\ Head(toServer) \in S /\ AtMostOne(toServer, S) => None(toServer', S)
  BY <1>1, CalmTail, MarksTail
<1>4. QED
  BY <1>2, <1>3

\* A download that a step does not touch, and whose frames it leaves in place,
\* stays as it should be.
LEMMA Untouched ==
    ASSUME NEW i \in Id, TypeOK, Download(i),
           recv'[i] = recv[i], srv'[i] = srv[i], result'[i] = result[i],
           ~full' => ~full,
           result[i] = "ok" /\ ~full' =>
               saved'[srv[i].file].bytes = saved[srv[i].file].bytes,
           Calm(toServer, toServer', UpTurn(i), {}),
           Calm(toClient, toClient', DownTurn(i), DataOf(i)),
           conn' # "closed" /\ recv[i] # NoRecv =>
               conn # "closed" /\ Keeps(toClient, toClient', DataOf(i))
    PROVE  Download(i)'
<1>1. OneTurn(i)'
  BY DEF Download, OneTurn, Calm
<1>2. UpFrames(i)'
  <2>1. ASSUME NEW m \in Contents(toServer'), m \in UpTurn(i) PROVE m \in Contents(toServer)
    BY <2>1 DEF Calm
  <2>2. None(toClient, DataOf(i)) => None(toClient', DataOf(i))
    BY DEF Calm
  <2>3. QED
    BY <2>1, <2>2 DEF Download, UpFrames
<1>3. DownFrames(i)'
  <2>1. ASSUME NEW m \in Contents(toClient'), m \in DownTurn(i) PROVE m \in Contents(toClient)
    BY <2>1 DEF Calm
  <2>2. QED
    BY <2>1 DEF Download, DownFrames
<1>4. Kept(i)'
  BY DEF Download, Kept, Calm
<1>5. Streaming(i)'
  <2>1. SUFFICES ASSUME conn' # "closed", recv[i] # NoRecv PROVE Streaming(i)'
    BY DEF Streaming
  <2>2. recv[i].count \in Nat /\ srv[i].pos \in Nat
    BY <2>1 DEF TypeOK, FsRecv, Live, Download, Kept
  <2>3. QED
    BY <2>1, <2>2 DEF Download, Streaming, Keeps
<1>6. QED
  BY <1>1, <1>2, <1>3, <1>4, <1>5 DEF Download

\* The same of a file that is asked for.
LEMMA OnceUntouched ==
    ASSUME NEW f, Once(f), f \notin asked' => f \notin asked,
           Calm(toServer, toServer', Request(f), {}),
           \A i \in Id : Serves(i, f)' = Serves(i, f)
    PROVE  Once(f)'
BY DEF Once, Calm
-----------------------------------------------------------------------------
(***************************************************************************)
(* Steps.                                                                  *)
(***************************************************************************)
\* The fields of an open file and of a download the server knows.
LEMMA FieldTypes ==
    ASSUME TypeOK, NEW i \in Id
    PROVE  /\ recv[i] # NoRecv => /\ recv[i] \in FsRecv
                                  /\ recv[i].file \in File
                                  /\ recv[i].length \in Sizes
                                  /\ recv[i].count \in Nat
                                  /\ recv[i].good \in BOOLEAN
           /\ srv[i] # Free => /\ srv[i] \in Live
                               /\ srv[i].state \in {"idle", "sending", "done"}
                               /\ srv[i].file \in File
                               /\ srv[i].length \in Sizes
                               /\ srv[i].pos \in Nat
           /\ srv[i].state # "free" => srv[i] # Free
BY DEF TypeOK, FsRecv, Live, Free

\* At the beginning nothing is under way.
LEMMA InitInv == Init => IInv
<1> SUFFICES ASSUME Init PROVE IInv
  OBVIOUS
<1>1. TypeOK
  <2>1. saved \in [File -> Saved]
    BY DEF Init, Saved
  <2>2. /\ recv \in [Id -> FsRecv \union {NoRecv}]
        /\ result \in [Id -> {"none", "ok", "failed"}]
        /\ srv \in [Id -> Live \union {Free}]
    BY DEF Init
  <2>3. toServer \in Seq(ToServer) /\ toClient \in Seq(ToClient)
    BY DEF Init
  <2>4. QED
    BY <2>1, <2>2, <2>3 DEF Init, TypeOK
<1>2. Connected /\ ChannelTracksFiles /\ AllIntact
  BY DEF Init, Connected, ChannelTracksFiles, AllIntact
<1>3. ASSUME NEW f \in File PROVE Once(f)
  BY EmptyQueue DEF Init, Once, Serves
<1>4. ASSUME NEW i \in Id PROVE Download(i)
  <2>1. OneTurn(i)
    BY EmptyQueue DEF Init, OneTurn
  <2>2. UpFrames(i) /\ DownFrames(i)
    BY EmptyQueue DEF Init, UpFrames, DownFrames
  <2>3. Kept(i) /\ Streaming(i)
    BY EmptyQueue DEF Init, Kept, Streaming, Free
  <2>4. QED
    BY <2>1, <2>2, <2>3 DEF Download
<1>5. QED
  BY <1>1, <1>2, <1>3, <1>4 DEF IInv

\* The connection opens, breaks and is closed.
LEMMA ConnStep ==
    ASSUME IInv, SlOpen \/ Break \/ SlClose
    PROVE  IInv'
<1>1. /\ UNCHANGED <<asked, recv, saved, full, result, size, srv>>
      /\ toServer' \in {toServer, <<>>} /\ toClient' \in {toClient, <<>>}
      /\ conn' \in {"open", "broken", "closed"}
      /\ conn' # "closed" => conn # "closed" /\ toClient' = toClient
      /\ TypeOK
  BY DEF SlOpen, Break, SlClose, IInv
<1>2. NoChannel # {} /\ \A S \in SUBSET Id : S # NoChannel
  BY FileDownloadAssumption DEF NoChannel
<1>3. TypeOK'
  <2>1. channel' \in (SUBSET Id) \union {NoChannel}
    BY DEF IInv, TypeOK, SlOpen, Break, SlClose
  <2>2. toServer' \in Seq(ToServer) /\ toClient' \in Seq(ToClient)
    <3>1. <<>> \in Seq(ToServer) /\ <<>> \in Seq(ToClient)
      OBVIOUS
    <3>2. QED
      BY <1>1, <3>1 DEF TypeOK
  <2>3. QED
    BY <1>1, <2>1, <2>2 DEF TypeOK
<1>4. Connected' /\ AllIntact'
  BY <1>1, <1>2 DEF IInv, Connected, AllIntact, SlOpen, Break, SlClose
<1>5. ChannelTracksFiles'
  BY <1>1 DEF IInv, ChannelTracksFiles, Connected, SlOpen, Break, SlClose
<1>6. ASSUME NEW f \in File PROVE Once(f)'
  BY <1>1, CalmSame, OnceUntouched DEF IInv, Serves
<1>7. ASSUME NEW i \in Id PROVE Download(i)'
  BY <1>1, CalmSame, Untouched DEF IInv
<1>8. QED
  BY <1>3, <1>4, <1>5, <1>6, <1>7 DEF IInv

\* The disk fills up, and a file of the server changes: no download is touched.
LEMMA OutsideStep ==
    ASSUME IInv, FillDisk \/ \E f \in File : SrvChangeFile(f)
    PROVE  IInv'
<1>1. /\ UNCHANGED <<asked, conn, channel, recv, saved, result, toServer, toClient, srv>>
      /\ full' \in {full, TRUE} /\ size' \in [File -> Sizes] /\ TypeOK
  BY DEF IInv, TypeOK, FillDisk, SrvChangeFile, clientVars
<1>2. TypeOK' /\ Connected' /\ ChannelTracksFiles' /\ AllIntact'
  BY <1>1 DEF IInv, TypeOK, Connected, ChannelTracksFiles, AllIntact
<1>3. ASSUME NEW f \in File PROVE Once(f)'
  BY <1>1, CalmSame, OnceUntouched DEF IInv, Serves
<1>4. ASSUME NEW i \in Id PROVE Download(i)'
  <2>1. ~full' => ~full
    BY <1>1
  <2>2. QED
    BY <1>1, <2>1, CalmSame, Untouched DEF IInv
<1>5. QED
  BY <1>2, <1>3, <1>4 DEF IInv

\* A request: it is the only one for its file, and not yet of any download.
LEMMA DownloadFileStep ==
    ASSUME IInv, NEW g \in File, DownloadFile(g)
    PROVE  IInv'
<1> DEFINE m == [type |-> "create_download", file |-> g]
<1>1. m \in ToServer /\ m \in Request(g)
  BY DEF ToServer, Request
<1>2. /\ toServer' = Append(toServer, m) /\ toServer \in Seq(ToServer) /\ TypeOK
      /\ g \notin asked /\ asked' = asked \union {g}
      /\ UNCHANGED <<conn, channel, recv, saved, full, result, toClient, size, srv>>
  BY DEF DownloadFile, Send, IInv, TypeOK
<1>3. (\A i : m \notin UpTurn(i)) /\ \A f : f # g => m \notin Request(f)
  BY FrameShape
<1> HIDE DEF m
<1>4. /\ toServer' \in Seq(ToServer)
      /\ \A i : Calm(toServer, toServer', UpTurn(i), {})
      /\ \A f : f # g => Calm(toServer, toServer', Request(f), {})
      /\ None(toServer, Request(g)) => AtMostOne(toServer', Request(g))
  BY <1>1, <1>2, <1>3, AppendAt, CalmAppend, MarksAppend
<1>5. TypeOK' /\ Connected' /\ ChannelTracksFiles' /\ AllIntact'
  BY <1>2, <1>4 DEF IInv, TypeOK, Connected, ChannelTracksFiles, AllIntact
<1>6. ASSUME NEW f \in File PROVE Once(f)'
  <2>1. \A i \in Id : Serves(i, f)' = Serves(i, f)
    BY <1>2 DEF Serves
  <2>2. CASE f # g
    BY <1>2, <1>4, <2>1, <2>2, OnceUntouched DEF IInv
  <2>3. CASE f = g
    BY <1>2, <1>4, <2>1, <2>3 DEF IInv, Once
  <2>4. QED
    BY <2>2, <2>3
<1>7. ASSUME NEW i \in Id PROVE Download(i)'
  BY <1>2, <1>4, CalmSame, Untouched DEF IInv
<1>8. QED
  BY <1>5, <1>6, <1>7 DEF IInv

\* Two downloads are of different files.
LEMMA Apart ==
    ASSUME IInv, NEW i \in Id, NEW j \in Id, j # i, srv[i] # Free, srv[j] # Free
    PROVE  srv[j].file # srv[i].file
<1>1. srv[i].file \in File
  BY FieldTypes DEF IInv
<1>2. Once(srv[i].file)
  BY <1>1 DEF IInv
<1>3. QED
  BY <1>2 DEF Once, Serves

\* A frame at the client that carries the turn of download i is its only one,
\* and all data of it has been written.
LEMMA TurnAtClient ==
    ASSUME IInv, NEW type, Dispatch(type), NEW i \in Id, Head(toClient) \in DownTurn(i)
    PROVE  /\ srv[i].state # "sending" /\ srv[i] # Free
           /\ None(toServer, UpTurn(i))
           /\ None(toClient', DownTurn(i))
           /\ None(toClient', DataOf(i))
           /\ toClient' \in Seq(ToClient)
           /\ \A j \in Id : /\ Calm(toClient, toClient', DownTurn(j), DataOf(j))
                            /\ Keeps(toClient, toClient', DataOf(j))
<1>1. OneTurn(i) /\ Kept(i) /\ TypeOK
  BY DEF IInv, Download
<1>2. Head(toClient) \in Contents(toClient)
  BY <1>1, DispatchCalm
<1>3. ~None(toClient, DownTurn(i))
  BY <1>2, NoneContents
<1>4. \A j : Head(toClient) \notin DataOf(j)
  BY FrameShape
<1>5. srv[i].state # "sending" /\ srv[i] # Free
  BY <1>1, <1>3 DEF OneTurn, Kept
<1>6. QED
  BY <1>1, <1>3, <1>4, <1>5, DispatchCalm DEF OneTurn

\* The file of download i opens, or not.
LEMMA OpenStep ==
    ASSUME IInv, TaskFilesCreateDownloadBack, Head(toClient).ok
    PROVE  IInv'
<1> DEFINE m == Head(toClient)
           begin(i) == [type |-> "begin_download", id |-> i]
           stop(i) == [type |-> "finish_download", id |-> i, ok |-> FALSE]
<1>1. /\ TypeOK /\ Connected /\ ChannelTracksFiles /\ AllIntact
      /\ Dispatch("create_download_back")
      /\ \E opens \in BOOLEAN : OpenFileRecvChannel(m.id, m.file, m.length, opens)
      /\ UNCHANGED <<asked, conn, full, result, size, srv>>
      /\ conn \in {"open", "broken"}
  BY DEF IInv, TaskFilesCreateDownloadBack, Dispatch
<1>2. PICK i \in Id : /\ i = m.id /\ m \in DownTurn(i) /\ m \in Contents(toClient)
                      /\ m.type = "create_download_back"
                      /\ m.file \in File /\ m.length \in Sizes
  BY <1>1, DispatchCalm, ToClientKinds
<1>3. OneTurn(i) /\ UpFrames(i) /\ DownFrames(i) /\ Kept(i)
  BY DEF IInv, Download
<1>4. /\ srv[i].state = "idle" /\ srv[i].pos = 0 /\ recv[i] = NoRecv
      /\ m.file = srv[i].file /\ m.length = srv[i].length
  BY <1>2, <1>3 DEF DownFrames
<1>5. /\ srv[i] # Free
      /\ None(toServer, UpTurn(i)) /\ None(toClient', DownTurn(i))
      /\ None(toClient', DataOf(i)) /\ toClient' \in Seq(ToClient)
      /\ \A j \in Id : /\ Calm(toClient, toClient', DownTurn(j), DataOf(j))
                       /\ Keeps(toClient, toClient', DataOf(j))
  BY <1>1, <1>2, TurnAtClient
<1>6. begin(i) \in UpTurn(i) /\ stop(i) \in UpTurn(i)
  BY DEF UpTurn
<1>7. channel # NoChannel /\ channel \subseteq Id /\ i \notin channel
  BY <1>1, <1>4 DEF Connected, ChannelTracksFiles
<1> DEFINE fs == [file |-> m.file, length |-> m.length, count |-> 0, good |-> TRUE]
           empty == [bytes |-> 0, intact |-> TRUE]
<1>8. PICK d : /\ d \in {begin(i), stop(i)} /\ Send(d)
               /\ d = begin(i) => /\ recv' = [recv EXCEPT ![i] = fs]
                                  /\ channel' = channel \union {i}
                                  /\ saved' = [saved EXCEPT ![m.file] = empty]
               /\ d # begin(i) => recv' = recv /\ channel' = channel /\ saved' = saved
  <2>1. PICK opens \in BOOLEAN : OpenFileRecvChannel(i, m.file, m.length, opens)
    BY <1>1, <1>2
  <2>2. CASE opens
    <3>1. /\ recv' = [recv EXCEPT ![i] = fs] /\ channel' = channel \union {i}
          /\ saved' = [saved EXCEPT ![m.file] = empty] /\ Send(begin(i))
      BY <1>4, <1>7, <2>1, <2>2 DEF OpenFileRecvChannel
    <3>2. QED
      BY <3>1
  <2>3. CASE ~opens
    <3>1. /\ recv' = [recv EXCEPT ![i] = NoRecv] /\ channel' = channel \ {i}
          /\ saved' = saved /\ Send(stop(i))
      BY <1>4, <1>7, <2>1, <2>3 DEF OpenFileRecvChannel
    <3>2. recv' = recv /\ channel' = channel /\ stop(i) # begin(i)
      BY <1>1, <1>4, <1>7, <3>1 DEF TypeOK
    <3>3. QED
      BY <3>1, <3>2
  <2>4. QED
    BY <2>2, <2>3
<1>9. fs \in FsRecv /\ fs # NoRecv /\ fs.file = m.file /\ fs.length = m.length
      /\ fs.count = 0 /\ fs.good /\ empty \in Saved /\ empty.intact
  BY <1>2 DEF FsRecv, NoRecv, Saved
<1>10. d \in UpTurn(i) /\ (d = begin(i) <=> d.type = "begin_download")
  <2>1. begin(i).type = "begin_download" /\ stop(i).type = "finish_download"
    OBVIOUS
  <2>2. d = begin(i) \/ d = stop(i)
    BY <1>8
  <2> HIDE DEF begin, stop
  <2>3. QED
    BY <1>6, <2>1, <2>2
<1> DEFINE opened == d.type = "begin_download"
<1>11. /\ opened => recv'[i] = fs /\ channel' = channel \union {i}
       /\ ~opened => recv' = recv /\ channel' = channel
       /\ \A j \in Id : j # i => recv'[j] = recv[j]
       /\ recv' \in [Id -> FsRecv \union {NoRecv}]
  BY <1>1, <1>8, <1>9, <1>10 DEF TypeOK
<1>12. /\ saved' \in [File -> Saved] /\ AllIntact'
       /\ \A f \in File : f # m.file => saved'[f] = saved[f]
  BY <1>1, <1>2, <1>8, <1>9 DEF TypeOK, AllIntact
<1> HIDE DEF m, begin, stop, fs, empty
<1>13. /\ toServer' \in Seq(ToServer)
       /\ AtMostOne(toServer', UpTurn(i))
       /\ Contents(toServer') \subseteq Contents(toServer) \union {d}
       /\ \A f : Calm(toServer, toServer', Request(f), {})
       /\ \A j : j # i => Calm(toServer, toServer', UpTurn(j), {})
  BY <1>1, <1>5, <1>8, <1>10, SendTurn
<1>14. TypeOK'
  BY <1>1, <1>5, <1>7, <1>11, <1>12, <1>13 DEF TypeOK
<1>15. Connected'
  BY <1>1, <1>7, <1>11, FileDownloadAssumption DEF Connected, NoChannel
<1>16. ChannelTracksFiles'
  BY <1>1, <1>7, <1>9, <1>11 DEF ChannelTracksFiles
<1>17. ASSUME NEW f \in File PROVE Once(f)'
  BY <1>1, <1>13, OnceUntouched DEF IInv, Serves
<1>18. ASSUME NEW j \in Id, j # i PROVE Download(j)'
  <2>1. result[j] = "ok" => saved'[srv[j].file].bytes = saved[srv[j].file].bytes
    <3>1. result[j] = "ok" => srv[j] # Free
      BY <1>1, FieldTypes DEF IInv, Download, Kept, Free
    <3>2. srv[j] # Free => srv[j].file # m.file /\ srv[j].file \in File
      BY <1>1, <1>4, <1>5, <1>18, Apart, FieldTypes
    <3>3. QED
      BY <1>12, <3>1, <3>2
  <2>2. Download(j) /\ recv'[j] = recv[j] /\ (conn' # "closed" => conn # "closed")
    BY <1>1, <1>11, <1>18 DEF IInv
  <2>3. QED
    BY <1>1, <1>5, <1>13, <1>18, <2>1, <2>2, Untouched
<1>19. Download(i)'
  <2>1. OneTurn(i)'
    BY <1>1, <1>3, <1>4, <1>5, <1>13 DEF OneTurn, Calm
  <2>2. UpFrames(i)'
    <3>1. ASSUME NEW x \in Contents(toServer'), x \in UpTurn(i) PROVE x = d
      BY <1>5, <1>13, <3>1, NoneContents
    <3>2. QED
      BY <1>1, <1>4, <1>5, <3>1 DEF UpFrames
  <2>3. DownFrames(i)'
    BY <1>5, NoneContents DEF DownFrames
  <2>4. Kept(i)'
    BY <1>1, <1>3, <1>4, <1>5, <1>9, <1>11 DEF Kept
  <2>5. Streaming(i)'
    <3>1. SUFFICES ASSUME opened PROVE Streaming(i)'
      BY <1>4, <1>11 DEF Streaming
    <3>2. recv'[i].count = 0 /\ srv'[i].pos = 0 /\ srv'[i].state = "idle"
      BY <1>1, <1>4, <1>9, <1>11, <3>1
    <3>3. Chain(toClient', DataOf(i), 0, 0)
      BY <1>5, ChainNone
    <3>4. 0 % Flux = 0 /\ 0 \in 0..recv'[i].count /\ 0 <= 0 + Flux
      BY <3>2, FileDownloadAssumption
    <3>5. QED
      BY <3>2, <3>3, <3>4 DEF Streaming
  <2>6. QED
    BY <2>1, <2>2, <2>3, <2>4, <2>5 DEF Download
<1>20. QED
  BY <1>12, <1>14, <1>15, <1>16, <1>17, <1>18, <1>19 DEF IInv

\* A refusal touches nothing.
LEMMA RefusedStep ==
    ASSUME IInv, TaskFilesCreateDownloadBack, ~Head(toClient).ok
    PROVE  IInv'
<1>1. /\ TypeOK /\ Dispatch("create_download_back")
      /\ UNCHANGED <<asked, conn, channel, recv, saved, full, result, toServer, size, srv>>
  BY DEF IInv, TaskFilesCreateDownloadBack
<1>2. \A i : Head(toClient) \notin DataOf(i)
  BY <1>1, FrameShape DEF Dispatch
<1>3. /\ toClient' \in Seq(ToClient)
      /\ \A i : /\ Calm(toClient, toClient', DownTurn(i), DataOf(i))
                /\ Keeps(toClient, toClient', DataOf(i))
  BY <1>1, <1>2, DispatchCalm
<1>4. TypeOK' /\ Connected' /\ ChannelTracksFiles' /\ AllIntact'
  BY <1>1, <1>3 DEF IInv, TypeOK, Connected, ChannelTracksFiles, AllIntact
<1>5. ASSUME NEW f \in File PROVE Once(f)'
  BY <1>1, CalmSame, OnceUntouched DEF IInv, Serves
<1>6. ASSUME NEW i \in Id PROVE Download(i)'
  BY <1>1, <1>3, CalmSame, Untouched DEF IInv
<1>7. QED
  BY <1>4, <1>5, <1>6 DEF IInv

\* Data goes on where what has been written ends, and is added to it unless the
\* stream fails, which only a full disk makes it do.
LEMMA WriteStep ==
    ASSUME IInv, TaskRecvBinaryData
    PROVE  IInv'
<1> DEFINE m == Head(toClient)
<1>1. /\ TypeOK /\ Connected /\ ChannelTracksFiles /\ AllIntact /\ Dispatch("data")
      /\ conn \in {"open", "broken"}
      /\ toClient # <<>> /\ toClient' = Tail(toClient) /\ toClient \in Seq(ToClient)
      /\ UNCHANGED <<asked, channel, full, result, toServer, size, srv>>
  BY DEF IInv, TypeOK, TaskRecvBinaryData, Dispatch
<1>2. PICK i \in Id : i = m.id /\ m \in DataOf(i) /\ m \in Contents(toClient)
  BY <1>1, DispatchCalm, ToClientKinds
<1>3. m.from \in Nat /\ m.bytes \in Nat /\ \A d \in DataOf(i) : d.from \in Nat /\ d.bytes \in Nat
  BY <1>2, FrameShape
<1>4. /\ toClient' \in Seq(ToClient)
      /\ \A j \in Id : /\ Calm(toClient, toClient', DownTurn(j), DataOf(j))
                       /\ j # i => Keeps(toClient, toClient', DataOf(j))
  <2>1. \A j : j # i => m \notin DataOf(j)
    BY <1>2, FrameShape
  <2>2. QED
    BY <1>1, <2>1, DispatchCalm
<1>5. ASSUME NEW f \in File PROVE Once(f)'
  BY <1>1, CalmSame, OnceUntouched DEF IInv, Serves
<1>6. CASE recv[i] = NoRecv
  <2>1. UNCHANGED <<recv, saved, conn>>
    BY <1>2, <1>6 DEF TaskRecvBinaryData
  <2>2. TypeOK' /\ Connected' /\ ChannelTracksFiles' /\ AllIntact'
    BY <1>1, <1>4, <2>1 DEF IInv, TypeOK, Connected, ChannelTracksFiles, AllIntact
  <2>3. ASSUME NEW j \in Id PROVE Download(j)'
    BY <1>1, <1>4, <1>6, <2>1, CalmSame, Untouched DEF IInv
  <2>4. QED
    BY <1>5, <2>2, <2>3 DEF IInv
<1>7. CASE recv[i] # NoRecv
  <2> DEFINE r == recv[i]
  <2>1. PICK good \in BOOLEAN, bytes \in Nat, count \in Nat :
           /\ (good => r.good) /\ (r.good /\ ~full => good)
           /\ count = IF good THEN r.count + m.bytes ELSE r.count
           /\ bytes = count \/ bytes = saved[r.file].bytes
           /\ recv' = [recv EXCEPT ![i].count = count, ![i].good = good]
           /\ saved' = [saved EXCEPT ![r.file] = [bytes |-> bytes,
                  intact |-> saved[r.file].intact /\ (good => m.from = r.count)]]
           /\ conn' \in {conn, "crash"}
    <3>1. PICK flush \in {FALSE, m.bytes > 0} :
            LET good == r.good /\ ~(flush /\ full)
                count == CountRecv(r, m.bytes, good)
            IN /\ recv' = [recv EXCEPT ![i].count = count, ![i].good = good]
               /\ saved' = [saved EXCEPT ![r.file] =
                      [bytes |-> IF good /\ flush THEN count ELSE saved[r.file].bytes,
                       intact |-> saved[r.file].intact /\ (good => m.from = r.count)]]
               /\ conn' = IF r.length = 0 THEN "crash" ELSE conn
      BY <1>2, <1>7 DEF TaskRecvBinaryData
    <3>2. r.good \in BOOLEAN /\ full \in BOOLEAN /\ flush \in BOOLEAN
      <4>1. r.good \in BOOLEAN /\ full \in BOOLEAN
        BY <1>1, <1>7, FieldTypes DEF TypeOK
      <4>2. (m.bytes > 0) \in BOOLEAN
        BY <1>3
      <4>3. flush \in BOOLEAN
        BY <4>2, Zenon
      <4>4. QED
        BY <4>1, <4>3
    <3> DEFINE good == r.good /\ ~(flush /\ full)
               count == CountRecv(r, m.bytes, good)
               bytes == IF good /\ flush THEN count ELSE saved[r.file].bytes
    <3>3. good \in BOOLEAN /\ (good => r.good) /\ (r.good /\ ~full => good)
      BY <3>2
    <3>4. /\ count = IF good THEN r.count + m.bytes ELSE r.count
          /\ bytes = count \/ bytes = saved[r.file].bytes
      BY DEF CountRecv
    <3>5. /\ recv' = [recv EXCEPT ![i].count = count, ![i].good = good]
          /\ saved' = [saved EXCEPT ![r.file] = [bytes |-> bytes,
                 intact |-> saved[r.file].intact /\ (good => m.from = r.count)]]
          /\ conn' \in {conn, "crash"}
      BY <3>1
    <3>6. r.count \in Nat /\ m.bytes \in Nat /\ saved[r.file].bytes \in Nat
      BY <1>1, <1>3, <1>7, FieldTypes DEF TypeOK, Saved
    <3> HIDE DEF good, count, bytes, r
    <3>7. count \in Nat /\ bytes \in Nat
      BY <3>4, <3>6
    <3>8. QED
      BY <3>3, <3>4, <3>5, <3>7
  <2>2. OneTurn(i) /\ UpFrames(i) /\ DownFrames(i) /\ Kept(i) /\ Streaming(i)
    BY DEF IInv, Download
  <2>3. /\ r \in FsRecv /\ r.file \in File /\ r.length \in Sizes /\ r.count \in Nat
        /\ r.good \in BOOLEAN /\ srv[i] # Free /\ srv[i].pos \in Nat
        /\ r.file = srv[i].file /\ result[i] # "ok"
    BY <1>1, <1>7, <2>2, FieldTypes DEF Kept
  <2>4. r.good => /\ m.from = r.count /\ End(m) = r.count + m.bytes /\ End(m) \in Nat
                  /\ Chain(toClient', DataOf(i), End(m), srv[i].pos)
    <3>1. r.good => Chain(toClient, DataOf(i), r.count, srv[i].pos)
      BY <1>1, <1>7, <2>2 DEF Streaming
    <3>2. r.good => /\ m.from = r.count /\ End(m) \in Nat
                    /\ Chain(toClient', DataOf(i), End(m), srv[i].pos)
      BY <1>1, <1>2, <1>3, <2>3, <3>1, ChainTail
    <3>3. QED
      BY <3>2 DEF End
  <2>5. r.count <= count
    BY <1>3, <2>1, <2>3
  <2> DEFINE fs == [file |-> r.file, length |-> r.length, count |-> count, good |-> good]
  <2>6. /\ recv'[i] = fs /\ \A j \in Id : j # i => recv'[j] = recv[j]
        /\ recv' \in [Id -> FsRecv \union {NoRecv}]
    <3>1. recv'[i] = [recv[i] EXCEPT !.count = count, !.good = good]
      BY <1>1, <2>1 DEF TypeOK
    <3>2. recv'[i] = fs
      BY <2>3, <3>1 DEF FsRecv
    <3>3. fs \in FsRecv
      BY <2>3, <2>5 DEF FsRecv
    <3>4. \A j \in Id : j # i => recv'[j] = recv[j]
      BY <1>1, <2>1 DEF TypeOK
    <3>5. recv' \in [Id -> FsRecv \union {NoRecv}]
      BY <1>1, <2>1, <3>2, <3>3 DEF TypeOK
    <3>6. QED
      BY <3>2, <3>4, <3>5
  <2>7. /\ fs # NoRecv /\ fs.file = r.file /\ fs.length = r.length /\ fs.count = count
        /\ fs.good = good
    BY DEF NoRecv
  <2>8. /\ saved' \in [File -> Saved] /\ AllIntact'
        /\ \A f \in File : f # r.file => saved'[f] = saved[f]
    <3> DEFINE s == [bytes |-> bytes,
                     intact |-> saved[r.file].intact /\ (good => m.from = r.count)]
    <3>1. s = [bytes |-> bytes, intact |-> TRUE]
      <4>1. saved[r.file].intact = TRUE
        BY <1>1, <2>3 DEF AllIntact, TypeOK, Saved
      <4>2. good => m.from = r.count
        BY <2>1, <2>4
      <4>3. QED
        BY <4>1, <4>2
    <3>2. s \in Saved /\ s.intact
      BY <2>5, <3>1 DEF Saved
    <3>3. saved' = [saved EXCEPT ![r.file] = s]
      BY <2>1
    <3> HIDE DEF s
    <3>4. QED
      BY <1>1, <2>3, <3>2, <3>3 DEF TypeOK, AllIntact
  <2> HIDE DEF m, r, fs
  <2>9. TypeOK'
    <3>1. conn' \in {"none", "open", "broken", "closed", "crash"}
      BY <1>1, <2>1
    <3>2. QED
      BY <1>1, <1>4, <2>6, <2>8, <3>1 DEF TypeOK
  <2>10. Connected' /\ ChannelTracksFiles'
    <3>1. conn' \notin {"none", "closed"}
      BY <1>1, <2>1
    <3>2. Connected'
      BY <1>1, <3>1 DEF Connected
    <3>3. \A j \in Id : recv'[j] # NoRecv <=> recv[j] # NoRecv
      BY <1>7, <2>6, <2>7
    <3>4. QED
      BY <1>1, <3>2, <3>3 DEF ChannelTracksFiles
  <2>11. ASSUME NEW j \in Id, j # i PROVE Download(j)'
    <3>1. result[j] = "ok" => saved'[srv[j].file].bytes = saved[srv[j].file].bytes
      <4>1. result[j] = "ok" => srv[j] # Free
        BY <1>1, FieldTypes DEF IInv, Download, Kept, Free
      <4>2. srv[j] # Free => srv[j].file # r.file /\ srv[j].file \in File
        BY <1>1, <2>3, <2>11, Apart, FieldTypes
      <4>3. QED
        BY <2>8, <4>1, <4>2
    <3>2. Download(j) /\ recv'[j] = recv[j] /\ (conn' # "closed" => conn # "closed")
      BY <1>1, <2>6, <2>11 DEF IInv
    <3>3. QED
      BY <1>1, <1>4, <2>11, <3>1, <3>2, CalmSame, Untouched
  <2>12. Download(i)'
    <3>1. OneTurn(i)'
      BY <1>1, <1>4, <2>2 DEF OneTurn, Calm
    <3>2. UpFrames(i)'
      BY <1>1, <1>4, <2>2 DEF UpFrames, Calm
    <3>3. DownFrames(i)'
      <4>1. ASSUME NEW x \in Contents(toClient'), x \in DownTurn(i)
            PROVE  x \in Contents(toClient)
        BY <1>4, <4>1 DEF Calm
      <4>2. QED
        BY <1>1, <1>7, <2>2, <4>1 DEF DownFrames
    <3>4. Kept(i)'
      <4>1. /\ recv'[i].file = srv[i].file /\ recv'[i].length = srv[i].length
            /\ ~full => recv'[i].good
        BY <1>7, <2>1, <2>2, <2>6, <2>7 DEF Kept, r
      <4>2. QED
        BY <1>1, <2>2, <2>3, <4>1 DEF Kept
    <3>5. Streaming(i)'
      <4>1. SUFFICES ASSUME good PROVE Streaming(i)'
        BY <2>6, <2>7 DEF Streaming
      <4>2. r.good /\ count = End(m)
        BY <2>1, <2>4, <4>1
      <4>3. Chain(toClient', DataOf(i), count, srv[i].pos)
        BY <2>4, <4>2
      <4>4. PICK b \in 0..r.count :
               /\ b % Flux = 0 /\ srv[i].pos <= b + Flux
               /\ srv[i].state = "sending" => srv[i].pos < b + Flux
        BY <1>1, <1>7, <2>2, <4>2 DEF Streaming, r
      <4>5. b \in 0..count
        BY <2>3, <2>5, <4>4
      <4>6. QED
        BY <1>1, <2>6, <2>7, <4>3, <4>4, <4>5 DEF Streaming
    <3>6. QED
      BY <3>1, <3>2, <3>3, <3>4, <3>5 DEF Download
  <2>13. QED
    BY <1>5, <2>8, <2>9, <2>10, <2>11, <2>12 DEF IInv
<1>8. QED
  BY <1>6, <1>7

\* The next segment is asked for when the one before has been written.
LEMMA BeginBackStep ==
    ASSUME IInv, TaskFilesBeginDownloadBack
    PROVE  IInv'
<1> DEFINE m == Head(toClient)
<1>1. /\ TypeOK /\ Dispatch("begin_download_back")
      /\ Send([type |-> "begin_download", id |-> m.id])
      /\ UNCHANGED <<asked, conn, channel, recv, saved, full, result, size, srv>>
  BY DEF IInv, TaskFilesBeginDownloadBack, clientVars
<1>2. PICK i \in Id : /\ i = m.id /\ m \in DownTurn(i) /\ m \in Contents(toClient)
                      /\ m.type = "begin_download_back"
  BY <1>1, DispatchCalm, ToClientKinds
<1>3. OneTurn(i) /\ UpFrames(i) /\ DownFrames(i) /\ Kept(i) /\ Streaming(i)
  BY DEF IInv, Download
<1>4. srv[i].state = "idle"
  BY <1>2, <1>3 DEF DownFrames
<1>5. /\ srv[i] # Free
      /\ None(toServer, UpTurn(i)) /\ None(toClient', DownTurn(i))
      /\ None(toClient', DataOf(i)) /\ toClient' \in Seq(ToClient)
      /\ \A j \in Id : /\ Calm(toClient, toClient', DownTurn(j), DataOf(j))
                       /\ Keeps(toClient, toClient', DataOf(j))
  BY <1>1, <1>2, TurnAtClient
<1> DEFINE d == [type |-> "begin_download", id |-> i]
<1>6. d \in UpTurn(i) /\ Send(d)
  BY <1>1, <1>2 DEF UpTurn
<1> HIDE DEF m, d
<1>7. /\ toServer' \in Seq(ToServer)
      /\ AtMostOne(toServer', UpTurn(i))
      /\ Contents(toServer') \subseteq Contents(toServer) \union {d}
      /\ \A f : Calm(toServer, toServer', Request(f), {})
      /\ \A j : j # i => Calm(toServer, toServer', UpTurn(j), {})
  BY <1>1, <1>5, <1>6, SendTurn
<1>8. TypeOK' /\ Connected' /\ ChannelTracksFiles' /\ AllIntact'
  BY <1>1, <1>5, <1>7 DEF IInv, TypeOK, Connected, ChannelTracksFiles, AllIntact
<1>9. ASSUME NEW f \in File PROVE Once(f)'
  BY <1>1, <1>7, OnceUntouched DEF IInv, Serves
<1>10. ASSUME NEW j \in Id, j # i PROVE Download(j)'
  BY <1>1, <1>5, <1>7, <1>10, Untouched DEF IInv
<1>11. Download(i)'
  <2>1. OneTurn(i)'
    BY <1>1, <1>3, <1>4, <1>5, <1>7 DEF OneTurn, Calm
  <2>2. UpFrames(i)'
    BY <1>1, <1>4, <1>5 DEF UpFrames
  <2>3. DownFrames(i)'
    BY <1>5, NoneContents DEF DownFrames
  <2>4. Kept(i)'
    BY <1>1, <1>3, <1>5 DEF Kept
  <2>5. Streaming(i)'
    <3>1. SUFFICES ASSUME conn # "closed", recv[i] # NoRecv, recv[i].good
                   PROVE  Streaming(i)'
      BY <1>1 DEF Streaming
    <3>2. recv[i].count \in Nat /\ srv[i].pos \in Nat
      BY <1>1, <1>5, <3>1, FieldTypes
    <3>3. Chain(toClient', DataOf(i), recv[i].count, srv[i].pos)
      BY <1>3, <1>5, <3>1, <3>2 DEF Streaming, Keeps
    <3>4. QED
      BY <1>1, <1>3, <3>1, <3>3 DEF Streaming
  <2>6. QED
    BY <2>1, <2>2, <2>3, <2>4, <2>5 DEF Download
<1>12. QED
  BY <1>8, <1>9, <1>10, <1>11 DEF IInv

\* The file is closed: a download that succeeds has been written in full.
LEMMA FinishBackStep ==
    ASSUME IInv, TaskFilesFinishDownloadBack
    PROVE  IInv'
<1> DEFINE m == Head(toClient)
           r == recv[m.id]
<1>1. /\ TypeOK /\ Connected /\ ChannelTracksFiles /\ AllIntact
      /\ Dispatch("finish_download_back") /\ conn \in {"open", "broken"}
      /\ result' = [result EXCEPT ![m.id] =
                        IF CheckLengthRecv(r) /\ m.ok THEN "ok" ELSE "failed"]
      /\ saved' = IF r # NoRecv /\ r.good /\ ~full
                  THEN [saved EXCEPT ![r.file].bytes = r.count]
                  ELSE saved
      /\ recv' = [recv EXCEPT ![m.id] = NoRecv]
      /\ channel' = channel \ {m.id}
      /\ Send([type |-> "finish_download", id |-> m.id, ok |-> TRUE])
      /\ UNCHANGED <<asked, conn, full, size, srv>>
  BY DEF IInv, TaskFilesFinishDownloadBack, Dispatch
<1>2. PICK i \in Id : /\ i = m.id /\ m \in DownTurn(i) /\ m \in Contents(toClient)
                      /\ m.type = "finish_download_back" /\ m.ok \in BOOLEAN
  BY <1>1, DispatchCalm, ToClientKinds
<1>3. OneTurn(i) /\ UpFrames(i) /\ DownFrames(i) /\ Kept(i) /\ Streaming(i)
  BY DEF IInv, Download
<1>4. srv[i].state = "done"
  BY <1>2, <1>3 DEF DownFrames
<1>5. /\ srv[i] # Free
      /\ None(toServer, UpTurn(i)) /\ None(toClient', DownTurn(i))
      /\ None(toClient', DataOf(i)) /\ toClient' \in Seq(ToClient)
      /\ \A j \in Id : /\ Calm(toClient, toClient', DownTurn(j), DataOf(j))
                       /\ Keeps(toClient, toClient', DataOf(j))
  BY <1>1, <1>2, TurnAtClient
<1> DEFINE d == [type |-> "finish_download", id |-> i, ok |-> TRUE]
<1>6. d \in UpTurn(i) /\ Send(d) /\ d.type = "finish_download"
  BY <1>1, <1>2 DEF UpTurn
<1>7. r = recv[i] /\ (r # NoRecv => /\ r.file \in File /\ r.file = srv[i].file
                                    /\ r.length = srv[i].length /\ r.count \in Nat
                                    /\ (~full => r.good))
  BY <1>1, <1>2, <1>3, FieldTypes DEF Kept
<1>8. /\ recv'[i] = NoRecv /\ \A j \in Id : j # i => recv'[j] = recv[j]
      /\ \A j \in Id : j # i => result'[j] = result[j]
      /\ recv' \in [Id -> FsRecv \union {NoRecv}]
      /\ result' \in [Id -> {"none", "ok", "failed"}]
  BY <1>1, <1>2 DEF TypeOK
<1>9. /\ saved' \in [File -> Saved] /\ AllIntact'
      /\ \A f \in File : f # srv[i].file => saved'[f] = saved[f]
      /\ r # NoRecv /\ ~full => saved'[srv[i].file].bytes = r.count
  <2>1. CASE r # NoRecv /\ ~full
    <3>1. saved' = [saved EXCEPT ![r.file].bytes = r.count]
      BY <1>1, <1>7, <2>1
    <3>2. saved'[r.file] = [bytes |-> r.count, intact |-> saved[r.file].intact]
      BY <1>1, <1>7, <2>1, <3>1 DEF TypeOK, Saved
    <3>3. saved'[r.file] \in Saved /\ saved'[r.file].intact /\ saved'[r.file].bytes = r.count
      BY <1>1, <1>7, <2>1, <3>2 DEF TypeOK, AllIntact, Saved
    <3>4. \A f \in File : f # r.file => saved'[f] = saved[f]
      BY <1>1, <3>1 DEF TypeOK
    <3>5. saved' \in [File -> Saved]
      BY <1>1, <1>7, <2>1, <3>1, <3>3, <3>4 DEF TypeOK
    <3>6. QED
      BY <1>1, <1>7, <2>1, <3>3, <3>4, <3>5 DEF AllIntact
  <2>2. CASE ~(r # NoRecv /\ ~full)
    <3>1. saved' = saved
      BY <1>1, <2>2
    <3>2. QED
      BY <1>1, <2>2, <3>1 DEF TypeOK, AllIntact
  <2>3. QED
    BY <2>1, <2>2
<1>10. result'[i] = "ok" => r # NoRecv /\ r.count = r.length
  <2>1. result'[i] = IF CheckLengthRecv(r) /\ m.ok THEN "ok" ELSE "failed"
    BY <1>1, <1>2 DEF TypeOK
  <2>2. QED
    BY <2>1 DEF CheckLengthRecv
<1>11. channel' = channel \ {i} /\ channel \in SUBSET Id /\ channel # NoChannel
       /\ channel' # NoChannel
  BY <1>1, <1>2, FileDownloadAssumption DEF TypeOK, Connected, NoChannel
<1> HIDE DEF m, r, d
<1>12. /\ toServer' \in Seq(ToServer)
       /\ AtMostOne(toServer', UpTurn(i))
       /\ Contents(toServer') \subseteq Contents(toServer) \union {d}
       /\ \A f : Calm(toServer, toServer', Request(f), {})
       /\ \A j : j # i => Calm(toServer, toServer', UpTurn(j), {})
  BY <1>1, <1>5, <1>6, SendTurn
<1>13. TypeOK'
  BY <1>1, <1>5, <1>8, <1>9, <1>11, <1>12 DEF TypeOK
<1>14. Connected' /\ ChannelTracksFiles'
  BY <1>1, <1>8, <1>11 DEF Connected, ChannelTracksFiles
<1>15. ASSUME NEW f \in File PROVE Once(f)'
  BY <1>1, <1>12, OnceUntouched DEF IInv, Serves
<1>16. ASSUME NEW j \in Id, j # i PROVE Download(j)'
  <2>1. result[j] = "ok" => saved'[srv[j].file].bytes = saved[srv[j].file].bytes
    <3>1. result[j] = "ok" => srv[j] # Free
      BY <1>1, FieldTypes DEF IInv, Download, Kept, Free
    <3>2. srv[j] # Free => srv[j].file # srv[i].file /\ srv[j].file \in File
      BY <1>1, <1>5, <1>16, Apart, FieldTypes
    <3>3. QED
      BY <1>9, <3>1, <3>2
  <2>2. Download(j) /\ recv'[j] = recv[j] /\ result'[j] = result[j]
        /\ (conn' # "closed" => conn # "closed")
    BY <1>1, <1>8, <1>16 DEF IInv
  <2>3. QED
    BY <1>1, <1>5, <1>12, <1>16, <2>1, <2>2, Untouched
<1>17. Download(i)'
  <2>1. OneTurn(i)'
    BY <1>1, <1>3, <1>4, <1>5, <1>12 DEF OneTurn, Calm
  <2>2. UpFrames(i)'
    <3>1. ASSUME NEW x \in Contents(toServer'), x \in UpTurn(i) PROVE x = d
      BY <1>5, <1>12, <3>1, NoneContents
    <3>2. QED
      BY <1>6, <3>1 DEF UpFrames
  <2>3. DownFrames(i)'
    BY <1>5, NoneContents DEF DownFrames
  <2>4. Kept(i)'
    BY <1>1, <1>3, <1>4, <1>5, <1>7, <1>8, <1>9, <1>10 DEF Kept
  <2>5. Streaming(i)'
    BY <1>8 DEF Streaming
  <2>6. QED
    BY <2>1, <2>2, <2>3, <2>4, <2>5 DEF Download
<1>18. QED
  BY <1>9, <1>13, <1>14, <1>15, <1>16, <1>17 DEF IInv
-----------------------------------------------------------------------------
(***************************************************************************)
(* Steps of the server.                                                    *)
(***************************************************************************)
\* A download the server does not know is nowhere; the new one has a file of
\* its own, which nobody asks for any more.
LEMMA SrvCreateStep ==
    ASSUME IInv, SrvCreate
    PROVE  IInv'
<1> DEFINE m == Head(toServer)
           g == m.file
           back(i, ok) == [type |-> "create_download_back", id |-> i,
                           length |-> size[g], file |-> g, ok |-> ok]
<1>1. /\ TypeOK /\ SrvReads("create_download") /\ conn = "open"
      /\ UNCHANGED <<asked, conn, channel, recv, saved, full, result, size>>
  BY DEF IInv, SrvCreate, SrvReads, clientVars
<1>2. /\ m \in ToServer /\ m \in Contents(toServer) /\ m \in Request(g) /\ g \in File
      /\ size[g] \in Sizes
  BY <1>1, SrvReadsCalm, ToServerKinds DEF TypeOK
<1>3. /\ toServer' \in Seq(ToServer)
      /\ \A j : Calm(toServer, toServer', UpTurn(j), {})
      /\ \A f : Calm(toServer, toServer', Request(f), {})
      /\ AtMostOne(toServer, Request(g)) => None(toServer', Request(g))
  BY <1>1, <1>2, SrvReadsCalm
<1>4. /\ None(toServer', Request(g)) /\ g \in asked /\ \A j \in Id : ~Serves(j, g)
  <2>1. ~None(toServer, Request(g))
    BY <1>2, NoneContents
  <2>2. QED
    BY <1>2, <1>3, <2>1 DEF IInv, Once
<1>5. CASE toClient' = Append(toClient, back(NoId, FALSE)) /\ UNCHANGED srv
  <2>1. back(NoId, FALSE) \in ToClient
    BY <1>2 DEF ToClient
  <2>2. \A j \in Id : back(NoId, FALSE) \notin DownTurn(j) /\ back(NoId, FALSE) \notin DataOf(j)
    BY FileDownloadAssumption DEF DownTurn, DataOf
  <2>3. toClient \in Seq(ToClient)
    BY <1>1 DEF TypeOK
  <2>4. /\ toClient' \in Seq(ToClient)
        /\ \A j \in Id : /\ Calm(toClient, toClient', DownTurn(j), DataOf(j))
                         /\ Keeps(toClient, toClient', DataOf(j))
    BY <1>5, <2>1, <2>2, <2>3, AppendAt, CalmAppend
  <2>5. TypeOK' /\ Connected' /\ ChannelTracksFiles' /\ AllIntact'
    BY <1>1, <1>3, <1>5, <2>4 DEF IInv, TypeOK, Connected, ChannelTracksFiles, AllIntact
  <2>6. ASSUME NEW f \in File PROVE Once(f)'
    BY <1>1, <1>3, <1>5, OnceUntouched DEF IInv, Serves
  <2>7. ASSUME NEW j \in Id PROVE Download(j)'
    BY <1>1, <1>3, <1>5, <2>4, Untouched DEF IInv
  <2>8. QED
    BY <2>5, <2>6, <2>7 DEF IInv
<1>6. ASSUME NEW i \in Id, srv[i] = Free,
             srv' = [srv EXCEPT ![i] = [state |-> "idle", file |-> g,
                                        length |-> size[g], pos |-> 0]],
             toClient' = Append(toClient, back(i, TRUE))
      PROVE  IInv'
  <2> DEFINE u == [state |-> "idle", file |-> g, length |-> size[g], pos |-> 0]
             b == back(i, TRUE)
  <2>1. /\ srv'[i] = u /\ u \in Live /\ u # Free
        /\ u.state = "idle" /\ u.pos = 0 /\ u.file = g /\ u.length = size[g]
        /\ \A j \in Id : j # i => srv'[j] = srv[j]
        /\ srv' \in [Id -> Live \union {Free}]
    <3>1. u \in Live /\ u # Free
      BY <1>2 DEF Live, Free
    <3>2. QED
      BY <1>1, <1>6, <3>1 DEF TypeOK
  <2>2. b \in DownTurn(i) /\ b.type = "create_download_back" /\ b.file = g
        /\ b.length = size[g] /\ toClient' = Append(toClient, b)
    BY <1>2, <1>6 DEF DownTurn
  <2>3. OneTurn(i) /\ UpFrames(i) /\ DownFrames(i) /\ Kept(i)
    BY DEF IInv, Download
  <2>4. /\ recv[i] = NoRecv /\ None(toServer, UpTurn(i)) /\ None(toClient, DownTurn(i))
        /\ result[i] # "ok"
    BY <1>6, <2>3 DEF Kept, Free
  <2>5. None(toServer', UpTurn(i))
    BY <1>3, <2>4 DEF Calm
  <2> HIDE DEF m, u, b
  <2>6. /\ toClient' \in Seq(ToClient)
        /\ Contents(toClient') = Contents(toClient) \union {b}
        /\ AtMostOne(toClient', DownTurn(i))
        /\ NoneBehind(toClient', DownTurn(i), DataOf(i))
        /\ \A j : j # i => /\ Calm(toClient, toClient', DownTurn(j), DataOf(j))
                           /\ Keeps(toClient, toClient', DataOf(j))
    BY <1>1, <2>2, <2>4, AnswerTurn
  <2>7. TypeOK' /\ Connected' /\ ChannelTracksFiles' /\ AllIntact'
    BY <1>1, <1>3, <2>1, <2>6 DEF IInv, TypeOK, Connected, ChannelTracksFiles, AllIntact
  <2>8. ASSUME NEW f \in File PROVE Once(f)'
    <3>1. \A j \in Id : j # i => Serves(j, f)' = Serves(j, f)
      BY <2>1 DEF Serves
    <3>2. Serves(i, f)' <=> f = g
      BY <2>1 DEF Serves
    <3>3. CASE f # g
      <4>1. ~Serves(i, f)
        BY <1>6 DEF Serves
      <4>2. \A j \in Id : Serves(j, f)' = Serves(j, f)
        BY <3>1, <3>2, <3>3, <4>1 DEF Serves
      <4>3. QED
        BY <1>1, <1>3, <4>2, OnceUntouched DEF IInv
    <3>4. CASE f = g
      BY <1>1, <1>3, <1>4, <3>1, <3>2, <3>4 DEF Once, AtMostOne, None
    <3>5. QED
      BY <3>3, <3>4
  <2>9. ASSUME NEW j \in Id, j # i PROVE Download(j)'
    BY <1>1, <1>3, <2>1, <2>6, <2>9, Untouched DEF IInv
  <2>10. Download(i)'
    <3>1. OneTurn(i)'
      BY <2>1, <2>5, <2>6 DEF OneTurn, None, AtMostOne
    <3>2. UpFrames(i)'
      BY <2>5, NoneContents DEF UpFrames
    <3>3. ASSUME NEW x \in Contents(toClient'), x \in DownTurn(i) PROVE x = b
      BY <2>4, <2>6, <3>3, NoneContents
    <3>4. DownFrames(i)'
      BY <1>1, <2>1, <2>2, <2>4, <3>3 DEF DownFrames
    <3>5. 0 % Flux = 0
      BY FileDownloadAssumption
    <3>6. Kept(i)' /\ Streaming(i)'
      BY <1>1, <2>1, <2>4, <3>5 DEF Kept, Streaming
    <3>7. QED
      BY <3>1, <3>2, <3>4, <3>6 DEF Download
  <2>11. QED
    BY <2>7, <2>8, <2>9, <2>10 DEF IInv
<1>7. QED
  BY <1>5, <1>6 DEF SrvCreate

\* The server changes the state and the position of download i, and nothing
\* else it keeps: what is left of a step's proof is about download i.
LEMMA MovedStep ==
    ASSUME IInv, NEW i \in Id, srv[i] # Free, NEW state \in {"idle", "sending", "done"},
           NEW pos \in Nat,
           srv' = [srv EXCEPT ![i].state = state, ![i].pos = pos],
           UNCHANGED <<asked, conn, channel, recv, saved, full, result, size>>,
           toServer' \in Seq(ToServer), toClient' \in Seq(ToClient),
           \A f : Calm(toServer, toServer', Request(f), {}),
           \A j \in Id : j # i => /\ Calm(toServer, toServer', UpTurn(j), {})
                                  /\ Calm(toClient, toClient', DownTurn(j), DataOf(j))
                                  /\ Keeps(toClient, toClient', DataOf(j))
    PROVE  /\ srv'[i] # Free /\ srv'[i].state = state /\ srv'[i].pos = pos
           /\ srv'[i].file = srv[i].file /\ srv'[i].length = srv[i].length
           /\ Download(i)' => IInv'
<1> DEFINE u == [state |-> state, file |-> srv[i].file, length |-> srv[i].length, pos |-> pos]
<1>1. srv[i] \in Live /\ srv[i].file \in File /\ srv[i].length \in Sizes /\ TypeOK
  BY FieldTypes DEF IInv
<1>2. /\ u \in Live /\ u # Free /\ u.state = state /\ u.pos = pos
      /\ u.file = srv[i].file /\ u.length = srv[i].length
  BY <1>1 DEF Live, Free
<1>3. srv'[i] = u
  <2>1. srv'[i] = [srv[i] EXCEPT !.state = state, !.pos = pos]
    BY <1>1 DEF TypeOK
  <2>2. srv[i] = [state |-> srv[i].state, file |-> srv[i].file,
                  length |-> srv[i].length, pos |-> srv[i].pos]
    BY <1>1 DEF Live
  <2>3. QED
    BY <2>1, <2>2
<1> HIDE DEF u
<1>4. (\A j \in Id : j # i => srv'[j] = srv[j]) /\ srv' \in [Id -> Live \union {Free}]
  BY <1>1, <1>2, <1>3 DEF TypeOK
<1>5. TypeOK' /\ Connected' /\ ChannelTracksFiles' /\ AllIntact'
  BY <1>1, <1>4 DEF IInv, TypeOK, Connected, ChannelTracksFiles, AllIntact
<1>6. ASSUME NEW f \in File PROVE Once(f)'
  <2>1. \A j \in Id : Serves(j, f)' = Serves(j, f)
    BY <1>2, <1>3, <1>4 DEF Serves
  <2>2. QED
    BY <2>1, OnceUntouched DEF IInv
<1>7. ASSUME NEW j \in Id, j # i PROVE Download(j)'
  BY <1>4, <1>7, Untouched DEF IInv
<1>8. QED
  BY <1>2, <1>3, <1>5, <1>6, <1>7 DEF IInv

\* A turn that arrives at the server is the only one.
LEMMA TurnAtServer ==
    ASSUME IInv, NEW type, SrvReads(type), NEW i \in Id, Head(toServer) \in UpTurn(i)
    PROVE  /\ srv[i].state # "sending" /\ srv[i] # Free
           /\ None(toClient, DownTurn(i))
           /\ None(toServer', UpTurn(i))
           /\ toServer' \in Seq(ToServer)
           /\ \A f : Calm(toServer, toServer', Request(f), {})
           /\ \A j : Calm(toServer, toServer', UpTurn(j), {})
<1>1. OneTurn(i) /\ Kept(i) /\ TypeOK
  BY DEF IInv, Download
<1>2. Head(toServer) \in Contents(toServer)
  BY <1>1, SrvReadsCalm
<1>3. ~None(toServer, UpTurn(i))
  BY <1>2, NoneContents
<1>4. srv[i].state # "sending" /\ srv[i] # Free
  BY <1>1, <1>3 DEF OneTurn, Kept
<1>5. QED
  BY <1>1, <1>3, <1>4, SrvReadsCalm DEF OneTurn

\* A segment is begun when everything before it has been written.
LEMMA SrvBeginStep ==
    ASSUME IInv, SrvBegin
    PROVE  IInv'
<1> DEFINE m == Head(toServer)
<1>1. /\ TypeOK /\ SrvReads("begin_download") /\ toClient' = toClient
      /\ toClient \in Seq(ToClient)
      /\ srv' = [srv EXCEPT ![m.id].state = "sending"]
      /\ UNCHANGED <<asked, conn, channel, recv, saved, full, result, size>>
  BY DEF IInv, TypeOK, SrvBegin, clientVars
<1>2. PICK i \in Id : /\ i = m.id /\ m \in UpTurn(i) /\ m \in Contents(toServer)
                      /\ m.type = "begin_download"
  BY <1>1, SrvReadsCalm, ToServerKinds
<1>3. OneTurn(i) /\ UpFrames(i) /\ DownFrames(i) /\ Kept(i) /\ Streaming(i)
  BY DEF IInv, Download
<1>4. srv[i].state = "idle" /\ None(toClient, DataOf(i))
  BY <1>2, <1>3 DEF UpFrames
<1>5. /\ srv[i] # Free /\ None(toClient, DownTurn(i)) /\ None(toServer', UpTurn(i))
      /\ toServer' \in Seq(ToServer)
      /\ \A f : Calm(toServer, toServer', Request(f), {})
      /\ \A j : Calm(toServer, toServer', UpTurn(j), {})
  BY <1>1, <1>2, TurnAtServer
<1>6. srv[i] \in Live /\ srv[i].pos \in Nat /\ srv[i].pos % Flux = 0
  BY <1>1, <1>3, <1>4, <1>5, FieldTypes DEF Kept
<1>7. srv' = [srv EXCEPT ![i].state = "sending", ![i].pos = srv[i].pos]
  BY <1>1, <1>2, <1>5, <1>6 DEF Live
<1>8. /\ srv'[i] # Free /\ srv'[i].state = "sending" /\ srv'[i].pos = srv[i].pos
      /\ srv'[i].file = srv[i].file /\ srv'[i].length = srv[i].length
      /\ Download(i)' => IInv'
  BY <1>1, <1>5, <1>6, <1>7, CalmSame, MovedStep
<1> HIDE DEF m
<1>9. Download(i)'
  <2>1. OneTurn(i)'
    BY <1>1, <1>3, <1>5 DEF OneTurn, None, AtMostOne
  <2>2. UpFrames(i)' /\ DownFrames(i)'
    BY <1>1, <1>5, NoneContents DEF UpFrames, DownFrames
  <2>3. Kept(i)'
    <3>1. srv[i].pos % Buf = 0
      <4>1. /\ Flux \in Nat \ {0} /\ Buf \in Nat \ {0} /\ Flux % Buf = 0
        BY FileDownloadAssumption
      <4>2. PICK x \in Nat, y \in Nat : srv[i].pos = x * Flux /\ Flux = y * Buf
        BY <1>6, <4>1, Multiple
      <4>3. srv[i].pos = (x * y) * Buf /\ x * y \in Nat
        BY <4>1, <4>2
      <4>4. QED
        BY <4>1, <4>3, Multiple
    <3>2. QED
      BY <1>1, <1>3, <1>4, <1>8, <3>1 DEF Kept
  <2>4. Streaming(i)'
    <3>1. SUFFICES ASSUME conn # "closed", recv[i] # NoRecv, recv[i].good
                   PROVE  Streaming(i)'
      BY <1>1 DEF Streaming
    <3>2. recv[i].count \in Nat
      BY <1>1, <3>1, FieldTypes
    <3>3. Chain(toClient, DataOf(i), recv[i].count, srv[i].pos)
      BY <1>3, <3>1 DEF Streaming
    <3>4. recv[i].count = srv[i].pos
      BY <1>4, <1>6, <3>2, <3>3, ChainNone
    <3>5. /\ srv[i].pos \in 0..recv[i].count /\ srv[i].pos <= srv[i].pos + Flux
          /\ srv[i].pos < srv[i].pos + Flux
      BY <1>6, <3>4, FileDownloadAssumption
    <3>6. QED
      BY <1>1, <1>6, <1>8, <3>1, <3>3, <3>5 DEF Streaming
  <2>5. QED
    BY <2>1, <2>2, <2>3, <2>4 DEF Download
<1>10. QED
  BY <1>8, <1>9

\* The client is done with download i, or gave up.
LEMMA SrvFinishStep ==
    ASSUME IInv, SrvFinish
    PROVE  IInv'
<1> DEFINE m == Head(toServer)
<1>1. /\ TypeOK /\ SrvReads("finish_download") /\ toClient' = toClient
      /\ toClient \in Seq(ToClient)
      /\ srv' = [srv EXCEPT ![m.id].state = "done"]
      /\ UNCHANGED <<asked, conn, channel, recv, saved, full, result, size>>
  BY DEF IInv, TypeOK, SrvFinish, clientVars
<1>2. PICK i \in Id : i = m.id /\ m \in UpTurn(i)
  BY <1>1, SrvReadsCalm, ToServerKinds
<1>3. OneTurn(i) /\ UpFrames(i) /\ DownFrames(i) /\ Kept(i) /\ Streaming(i)
  BY DEF IInv, Download
<1>4. /\ srv[i] # Free /\ None(toClient, DownTurn(i)) /\ None(toServer', UpTurn(i))
      /\ toServer' \in Seq(ToServer)
      /\ \A f : Calm(toServer, toServer', Request(f), {})
      /\ \A j : Calm(toServer, toServer', UpTurn(j), {})
  BY <1>1, <1>2, TurnAtServer
<1>5. srv[i] \in Live /\ srv[i].pos \in Nat
  BY <1>1, <1>4, FieldTypes
<1>6. srv' = [srv EXCEPT ![i].state = "done", ![i].pos = srv[i].pos]
  BY <1>1, <1>2, <1>4, <1>5 DEF Live
<1>7. /\ srv'[i] # Free /\ srv'[i].state = "done" /\ srv'[i].pos = srv[i].pos
      /\ srv'[i].file = srv[i].file /\ srv'[i].length = srv[i].length
      /\ Download(i)' => IInv'
  BY <1>1, <1>4, <1>5, <1>6, CalmSame, MovedStep
<1> HIDE DEF m
<1>8. Download(i)'
  <2>1. OneTurn(i)'
    BY <1>1, <1>3, <1>4 DEF OneTurn, None, AtMostOne
  <2>2. UpFrames(i)' /\ DownFrames(i)'
    BY <1>1, <1>4, NoneContents DEF UpFrames, DownFrames
  <2>3. Kept(i)'
    BY <1>1, <1>3, <1>7 DEF Kept
  <2>4. Streaming(i)'
    BY <1>1, <1>3, <1>7 DEF Streaming
  <2>5. QED
    BY <2>1, <2>2, <2>3, <2>4 DEF Download
<1>9. QED
  BY <1>7, <1>8

\* The server gives up while it sends.
LEMMA SrvFailStep ==
    ASSUME IInv, NEW i \in Id, SrvFail(i)
    PROVE  IInv'
<1> DEFINE b == [type |-> "finish_download_back", id |-> i, ok |-> FALSE]
<1>1. /\ TypeOK /\ srv[i].state = "sending" /\ toServer' = toServer
      /\ toServer \in Seq(ToServer)
      /\ srv' = [srv EXCEPT ![i].state = "done"]
      /\ toClient' = Append(toClient, b)
      /\ UNCHANGED <<asked, conn, channel, recv, saved, full, result, size>>
  BY DEF IInv, TypeOK, SrvFail, clientVars
<1>2. OneTurn(i) /\ UpFrames(i) /\ DownFrames(i) /\ Kept(i) /\ Streaming(i)
  BY DEF IInv, Download
<1>3. srv[i] # Free /\ srv[i] \in Live /\ srv[i].pos \in Nat
  BY <1>1, FieldTypes DEF Free
<1>4. None(toServer, UpTurn(i)) /\ None(toClient, DownTurn(i))
  BY <1>1, <1>2 DEF OneTurn
<1>5. b \in DownTurn(i) /\ b.type = "finish_download_back"
  BY DEF DownTurn
<1> HIDE DEF b
<1>6. /\ toClient' \in Seq(ToClient)
      /\ Contents(toClient') = Contents(toClient) \union {b}
      /\ AtMostOne(toClient', DownTurn(i))
      /\ NoneBehind(toClient', DownTurn(i), DataOf(i))
      /\ Keeps(toClient, toClient', DataOf(i))
      /\ \A j : j # i => /\ Calm(toClient, toClient', DownTurn(j), DataOf(j))
                         /\ Keeps(toClient, toClient', DataOf(j))
  BY <1>1, <1>4, <1>5, AnswerTurn
<1>7. srv' = [srv EXCEPT ![i].state = "done", ![i].pos = srv[i].pos]
  BY <1>1, <1>3 DEF Live
<1>8. /\ srv'[i] # Free /\ srv'[i].state = "done" /\ srv'[i].pos = srv[i].pos
      /\ srv'[i].file = srv[i].file /\ srv'[i].length = srv[i].length
      /\ Download(i)' => IInv'
  BY <1>1, <1>3, <1>6, <1>7, CalmSame, MovedStep
<1>9. Download(i)'
  <2>1. OneTurn(i)'
    BY <1>1, <1>4, <1>6, <1>8 DEF OneTurn, None, AtMostOne
  <2>2. UpFrames(i)'
    BY <1>1, <1>4, NoneContents DEF UpFrames
  <2>3. DownFrames(i)'
    <3>1. ASSUME NEW x \in Contents(toClient'), x \in DownTurn(i) PROVE x = b
      BY <1>4, <1>6, <3>1, NoneContents
    <3>2. QED
      BY <1>5, <1>8, <3>1 DEF DownFrames
  <2>4. Kept(i)'
    BY <1>1, <1>2, <1>8 DEF Kept
  <2>5. Streaming(i)'
    <3>1. SUFFICES ASSUME conn # "closed", recv[i] # NoRecv, recv[i].good
                   PROVE  Streaming(i)'
      BY <1>1 DEF Streaming
    <3>2. recv[i].count \in Nat
      BY <1>1, <3>1, FieldTypes
    <3>3. Chain(toClient', DataOf(i), recv[i].count, srv[i].pos)
      BY <1>2, <1>3, <1>6, <3>1, <3>2 DEF Streaming, Keeps
    <3>4. QED
      BY <1>1, <1>2, <1>8, <3>1, <3>3 DEF Streaming
  <2>6. QED
    BY <2>1, <2>2, <2>3, <2>4, <2>5 DEF Download
<1>10. QED
  BY <1>8, <1>9

\* A data frame, and perhaps the turn behind it, put into the queue of a
\* download that is being sent.
LEMMA DataQueue ==
    ASSUME TypeOK, NEW i \in Id, NEW d \in DataOf(i), NEW t \in DownTurn(i),
           None(toClient, DownTurn(i)),
           toClient' = Append(toClient, d)
               \/ toClient' = Append(Append(toClient, d), t)
    PROVE  /\ toClient' \in Seq(ToClient)
           /\ AtMostOne(toClient', DownTurn(i))
           /\ toClient' = Append(toClient, d) => None(toClient', DownTurn(i))
           /\ NoneBehind(toClient', DownTurn(i), DataOf(i))
           /\ Contents(toClient') \subseteq Contents(toClient) \union {d, t}
           /\ \A a, b \in Nat : Chain(toClient, DataOf(i), a, b) /\ d.from = b =>
                  Chain(toClient', DataOf(i), a, b + d.bytes)
           /\ \A j : j # i => /\ Calm(toClient, toClient', DownTurn(j), DataOf(j))
                              /\ Keeps(toClient, toClient', DataOf(j))
<1> DEFINE q == Append(toClient, d)
           r == Append(q, t)
<1>1. toClient \in Seq(ToClient) /\ d \in ToClient /\ t \in ToClient
  BY FramesTyped DEF TypeOK
<1>2. /\ d \notin DownTurn(i) /\ t \notin DataOf(i)
      /\ \A j : j # i => /\ d \notin DownTurn(j) /\ d \notin DataOf(j)
                         /\ t \notin DownTurn(j) /\ t \notin DataOf(j)
      /\ \A x \in DataOf(i) : x.from \in Nat /\ x.bytes \in Nat
  BY FrameShape
<1>3. q \in Seq(ToClient) /\ Contents(q) = Contents(toClient) \union {d}
  BY <1>1, AppendAt, ContentsAppend
<1>4. None(q, DownTurn(i)) /\ NoneBehind(q, DownTurn(i), DataOf(i))
  BY <1>1, <1>2, MarksAppend
<1>5. ASSUME NEW a \in Nat, NEW b \in Nat, Chain(toClient, DataOf(i), a, b), d.from = b
      PROVE  Chain(q, DataOf(i), a, b + d.bytes)
  BY <1>1, <1>2, <1>5, ChainAppend
<1>6. ASSUME NEW j, j # i
      PROVE  Calm(toClient, q, DownTurn(j), DataOf(j)) /\ Keeps(toClient, q, DataOf(j))
  BY <1>1, <1>2, <1>6, CalmAppend
<1> HIDE DEF q
<1>7. r \in Seq(ToClient) /\ Contents(r) = Contents(toClient) \union {d, t}
  BY <1>1, <1>3, AppendAt, ContentsAppend
<1>8. AtMostOne(r, DownTurn(i)) /\ NoneBehind(r, DownTurn(i), DataOf(i))
  BY <1>1, <1>2, <1>3, <1>4, MarksAppend
<1>9. ASSUME NEW a \in Nat, NEW b \in Nat, Chain(toClient, DataOf(i), a, b), d.from = b
      PROVE  Chain(r, DataOf(i), a, b + d.bytes)
  <2>1. Chain(q, DataOf(i), a, b + d.bytes) /\ b + d.bytes \in Nat
    BY <1>2, <1>5, <1>9
  <2>2. QED
    BY <1>1, <1>2, <1>3, <2>1, ChainAppendOther
<1>10. ASSUME NEW j, j # i
       PROVE  Calm(toClient, r, DownTurn(j), DataOf(j)) /\ Keeps(toClient, r, DataOf(j))
  <2>1. Calm(q, r, DownTurn(j), DataOf(j)) /\ Keeps(q, r, DataOf(j))
    BY <1>1, <1>2, <1>3, <1>10, CalmAppend
  <2>2. QED
    BY <1>6, <1>10, <2>1, CalmTwice
<1> HIDE DEF r
<1>11. CASE toClient' = q
  <2>1. AtMostOne(q, DownTurn(i))
    BY <1>4 DEF None, AtMostOne
  <2>2. QED
    BY <1>3, <1>4, <1>5, <1>6, <1>11, <2>1
<1>12. CASE toClient' = r
  <2>1. r = Append(toClient, d) => None(r, DownTurn(i))
    BY <1>4 DEF q
  <2>2. QED
    BY <1>7, <1>8, <1>9, <1>10, <1>12, <2>1
<1>13. QED
  BY <1>11, <1>12 DEF q, r

\* One buffer from the server, seen from its download.
LEMMA SentBuffer ==
    ASSUME IInv, NEW i \in Id, SrvSend(i)
    PROVE  \E n \in 0..Buf, state \in {"idle", "sending", "done"}, t \in DownTurn(i) :
              LET p == srv[i].pos
                  d == [type |-> "data", id |-> i, from |-> p, bytes |-> n]
              IN /\ srv' = [srv EXCEPT ![i].state = state, ![i].pos = p + n]
                 /\ state = "sending" => /\ toClient' = Append(toClient, d)
                                         /\ n = Buf /\ (p + n) % Flux # 0
                 /\ state # "sending" => toClient' = Append(Append(toClient, d), t)
                 /\ state = "idle" => (p + n) % Flux = 0 /\ t.type = "begin_download_back"
                 /\ state = "done" => t.type = "finish_download_back"
<1> DEFINE p == srv[i].pos
           rest == IF size[srv[i].file] > p THEN size[srv[i].file] - p ELSE 0
           n == IF rest < Buf THEN rest ELSE Buf
           d == [type |-> "data", id |-> i, from |-> p, bytes |-> n]
           finish == [type |-> "finish_download_back", id |-> i, ok |-> TRUE]
           begin == [type |-> "begin_download_back", id |-> i]
           end == IF n < Buf THEN <<finish>>
                  ELSE IF (p + n) % Flux = 0 THEN <<begin>> ELSE <<>>
           state == IF n < Buf THEN "done"
                    ELSE IF (p + n) % Flux = 0 THEN "idle" ELSE srv[i].state
<1>1. /\ TypeOK /\ srv[i].state = "sending"
      /\ toClient' = toClient \o <<d>> \o end
      /\ srv' = [srv EXCEPT ![i].pos = p + n, ![i].state = state]
  BY DEF IInv, SrvSend
<1>2. srv[i] # Free /\ srv[i] \in Live /\ p \in Nat /\ srv[i].file \in File
  BY <1>1, FieldTypes DEF Free
<1>3. size[srv[i].file] \in Nat
  BY <1>1, <1>2, FileDownloadAssumption DEF TypeOK
<1>4. n \in 0..Buf
  BY <1>2, <1>3, FileDownloadAssumption
<1>5. /\ d \in ToClient /\ finish \in DownTurn(i) /\ begin \in DownTurn(i)
      /\ toClient \in Seq(ToClient) /\ finish.type = "finish_download_back"
      /\ begin.type = "begin_download_back"
  <2>1. n \in Nat
    BY <1>4, FileDownloadAssumption
  <2> HIDE DEF n
  <2>2. d \in DataOf(i)
    BY <1>2, <2>1 DEF DataOf
  <2>3. finish \in DownTurn(i) /\ begin \in DownTurn(i)
    BY DEF DownTurn
  <2>4. QED
    BY <1>1, <2>2, <2>3, FramesTyped DEF TypeOK
<1>6. begin \in ToClient /\ finish \in ToClient
  BY <1>5, FramesTyped
<1>7. srv' = [srv EXCEPT ![i].state = state, ![i].pos = p + n]
  BY <1>1
<1> HIDE DEF n, d, finish, begin
<1>8. /\ toClient \o <<d>> = Append(toClient, d)
      /\ Append(toClient, d) \o <<>> = Append(toClient, d)
      /\ Append(toClient, d) \o <<begin>> = Append(Append(toClient, d), begin)
      /\ Append(toClient, d) \o <<finish>> = Append(Append(toClient, d), finish)
  BY <1>5, <1>6, AppendAt, ConcatOne, ConcatNone
<1>9. n = Buf \/ n < Buf
  BY <1>4, FileDownloadAssumption
<1>10. CASE n < Buf
  <2>1. state = "done" /\ toClient' = Append(Append(toClient, d), finish)
    BY <1>1, <1>8, <1>10
  <2>2. QED
    BY <1>4, <1>5, <1>7, <2>1 DEF d
<1>11. CASE ~(n < Buf) /\ (p + n) % Flux = 0
  <2>1. state = "idle" /\ toClient' = Append(Append(toClient, d), begin)
    BY <1>1, <1>8, <1>11
  <2>2. QED
    BY <1>4, <1>5, <1>7, <1>11, <2>1 DEF d
<1>12. CASE ~(n < Buf) /\ (p + n) % Flux # 0
  <2>1. state = "sending" /\ toClient' = Append(toClient, d) /\ n = Buf
    BY <1>1, <1>8, <1>9, <1>12
  <2>2. QED
    BY <1>4, <1>5, <1>7, <1>12, <2>1 DEF d
<1>13. QED
  BY <1>10, <1>11, <1>12

\* A buffer goes on where the one before it ends and stays in its segment.
LEMMA SrvSendStep ==
    ASSUME IInv, NEW i \in Id, SrvSend(i)
    PROVE  IInv'
<1> DEFINE p == srv[i].pos
<1>1. PICK n \in 0..Buf, state \in {"idle", "sending", "done"}, t \in DownTurn(i) :
         LET d == [type |-> "data", id |-> i, from |-> p, bytes |-> n]
         IN /\ srv' = [srv EXCEPT ![i].state = state, ![i].pos = p + n]
            /\ state = "sending" => /\ toClient' = Append(toClient, d)
                                    /\ n = Buf /\ (p + n) % Flux # 0
            /\ state # "sending" => toClient' = Append(Append(toClient, d), t)
            /\ state = "idle" => (p + n) % Flux = 0 /\ t.type = "begin_download_back"
            /\ state = "done" => t.type = "finish_download_back"
  BY SentBuffer
<1> DEFINE d == [type |-> "data", id |-> i, from |-> p, bytes |-> n]
<1>2. /\ TypeOK /\ srv[i].state = "sending" /\ toServer' = toServer
      /\ toServer \in Seq(ToServer)
      /\ UNCHANGED <<asked, conn, channel, recv, saved, full, result, size>>
  BY DEF IInv, TypeOK, SrvSend, clientVars
<1>3. OneTurn(i) /\ UpFrames(i) /\ DownFrames(i) /\ Kept(i) /\ Streaming(i)
  BY DEF IInv, Download
<1>4. /\ srv[i] # Free /\ p \in Nat /\ n \in Nat /\ n <= Buf /\ p + n \in Nat
      /\ p % Buf = 0
  BY <1>2, <1>3, FieldTypes, FileDownloadAssumption DEF Free, Kept
<1>5. None(toServer, UpTurn(i)) /\ None(toClient, DownTurn(i))
  BY <1>2, <1>3 DEF OneTurn
<1>6. d \in DataOf(i) /\ d.from = p /\ d.bytes = n
  BY <1>4 DEF DataOf
<1>7. /\ state = "sending" => toClient' = Append(toClient, d)
      /\ state # "sending" => toClient' = Append(Append(toClient, d), t)
  BY <1>1
<1> HIDE DEF d
<1>8. /\ toClient' \in Seq(ToClient)
      /\ AtMostOne(toClient', DownTurn(i))
      /\ toClient' = Append(toClient, d) => None(toClient', DownTurn(i))
      /\ NoneBehind(toClient', DownTurn(i), DataOf(i))
      /\ Contents(toClient') \subseteq Contents(toClient) \union {d, t}
      /\ \A a, b \in Nat : Chain(toClient, DataOf(i), a, b) /\ d.from = b =>
             Chain(toClient', DataOf(i), a, b + d.bytes)
      /\ \A j : j # i => /\ Calm(toClient, toClient', DownTurn(j), DataOf(j))
                         /\ Keeps(toClient, toClient', DataOf(j))
  BY <1>2, <1>5, <1>6, <1>7, DataQueue
<1>9. /\ srv'[i] # Free /\ srv'[i].state = state /\ srv'[i].pos = p + n
      /\ srv'[i].file = srv[i].file /\ srv'[i].length = srv[i].length
      /\ Download(i)' => IInv'
  BY <1>1, <1>2, <1>4, <1>8, CalmSame, MovedStep
<1>10. /\ state = "sending" => n = Buf /\ (p + n) % Flux # 0
       /\ state = "idle" => (p + n) % Flux = 0 /\ t.type = "begin_download_back"
       /\ state = "done" => t.type = "finish_download_back"
  BY <1>1
<1>11. ASSUME NEW b \in Nat, b % Flux = 0, p < b + Flux
       PROVE  /\ p + n <= b + Flux
              /\ (p + n) % Flux # 0 => p + n < b + Flux
  <2>1. /\ Buf \in Nat \ {0} /\ Flux \in Multiples(Buf) /\ Flux # 0
        /\ b \in Multiples(Flux) /\ p \in Multiples(Buf)
    BY <1>4, <1>11, FileDownloadAssumption DEF Multiples
  <2> HIDE DEF p
  <2>2. p + n <= b + Flux /\ (p + n \in Multiples(Flux) \/ p + n < b + Flux)
    BY <1>4, <1>11, <2>1, BufferInSegment
  <2>3. QED
    BY <2>2 DEF Multiples
<1>12. state = "sending" => (p + n) % Buf = 0
  <2>1. Buf \in Nat \ {0}
    BY FileDownloadAssumption
  <2>2. PICK x \in Nat : p = x * Buf
    BY <1>4, <2>1, Multiple
  <2>3. p + Buf = (x + 1) * Buf /\ x + 1 \in Nat
    BY <2>1, <2>2
  <2>4. (p + Buf) % Buf = 0
    BY <2>1, <2>3, Multiple
  <2>5. QED
    BY <1>10, <2>4
<1> HIDE DEF p
<1>13. Download(i)'
  <2>1. OneTurn(i)'
    BY <1>2, <1>5, <1>7, <1>8, <1>9 DEF OneTurn, None, AtMostOne
  <2>2. UpFrames(i)'
    BY <1>2, <1>5, NoneContents DEF UpFrames
  <2>3. DownFrames(i)'
    <3>1. ASSUME NEW x \in Contents(toClient'), x \in DownTurn(i)
          PROVE  x = t /\ state # "sending"
      <4>1. x \notin Contents(toClient)
        BY <1>5, <3>1, NoneContents
      <4>2. x # d
        BY <1>6, <3>1, FrameShape
      <4>3. toClient' # Append(toClient, d)
        BY <1>8, <3>1, NoneContents
      <4>4. QED
        BY <1>7, <1>8, <3>1, <4>1, <4>2, <4>3
    <3>2. state \in {"idle", "done"} =>
             /\ t.type \in {"begin_download_back", "finish_download_back"}
             /\ t.type = "begin_download_back" => state = "idle"
             /\ t.type = "finish_download_back" => state = "done"
      BY <1>10
    <3>3. QED
      BY <1>9, <3>1, <3>2 DEF DownFrames
  <2>4. Kept(i)'
    BY <1>2, <1>3, <1>9, <1>10, <1>12 DEF Kept
  <2>5. Streaming(i)'
    <3>1. SUFFICES ASSUME conn # "closed", recv[i] # NoRecv, recv[i].good
                   PROVE  Streaming(i)'
      BY <1>2 DEF Streaming
    <3>2. recv[i].count \in Nat
      BY <1>2, <3>1, FieldTypes
    <3>3. Chain(toClient, DataOf(i), recv[i].count, p)
      BY <1>3, <3>1 DEF Streaming, p
    <3>4. Chain(toClient', DataOf(i), recv[i].count, p + n)
      BY <1>4, <1>6, <1>8, <3>2, <3>3
    <3>5. PICK b \in 0..recv[i].count : b % Flux = 0 /\ p < b + Flux
      BY <1>2, <1>3, <3>1 DEF Streaming, p
    <3>6. p + n <= b + Flux /\ (state = "sending" => p + n < b + Flux)
      BY <1>10, <1>11, <3>2, <3>5
    <3>7. QED
      BY <1>2, <1>9, <3>1, <3>4, <3>5, <3>6 DEF Streaming
  <2>6. QED
    BY <2>1, <2>2, <2>3, <2>4, <2>5 DEF Download
<1>14. QED
  BY <1>9, <1>13
-----------------------------------------------------------------------------
(***************************************************************************)
(* The theorems.                                                           *)
(***************************************************************************)
\* Every step keeps the invariant.
LEMMA NextInv == IInv /\ [Next]_vars => IInv'
<1> SUFFICES ASSUME IInv, [Next]_vars PROVE IInv'
  OBVIOUS
<1>1. CASE SlOpen \/ Break \/ SlClose
  BY <1>1, ConnStep
<1>2. CASE FillDisk \/ \E f \in File : SrvChangeFile(f)
  BY <1>2, OutsideStep
<1>3. ASSUME NEW f \in File, DownloadFile(f) PROVE IInv'
  BY <1>3, DownloadFileStep
<1>4. CASE TaskFilesCreateDownloadBack
  BY <1>4, OpenStep, RefusedStep
<1>5. CASE TaskRecvBinaryData
  BY <1>5, WriteStep
<1>6. CASE TaskFilesBeginDownloadBack
  BY <1>6, BeginBackStep
<1>7. CASE TaskFilesFinishDownloadBack
  BY <1>7, FinishBackStep
<1>8. CASE Server
  BY <1>8, SrvCreateStep, SrvBeginStep, SrvFinishStep, SrvSendStep, SrvFailStep DEF Server
<1>9. CASE UNCHANGED vars
  <2>1. UNCHANGED <<asked, conn, channel, recv, saved, full, result, toServer, toClient,
                    size, srv>>
    BY <1>9 DEF vars, clientVars
  <2>2. TypeOK' /\ Connected' /\ ChannelTracksFiles' /\ AllIntact'
    BY <2>1 DEF IInv, TypeOK, Connected, ChannelTracksFiles, AllIntact
  <2>3. ASSUME NEW f \in File PROVE Once(f)'
    BY <2>1, CalmSame, OnceUntouched DEF IInv, Serves
  <2>4. ASSUME NEW i \in Id PROVE Download(i)'
    BY <2>1, CalmSame, Untouched DEF IInv
  <2>5. QED
    BY <2>2, <2>3, <2>4 DEF IInv
<1>10. QED
  BY <1>1, <1>2, <1>3, <1>4, <1>5, <1>6, <1>7, <1>8, <1>9 DEF Next, Client

\* The invariant of the turns holds in every reachable state.
THEOREM Invariance == Spec => []IInv
<1>1. QED
  BY InitInv, NextInv, PTL DEF Spec

\* The variables keep their types.
THEOREM TypeCorrect == Spec => []TypeOK
<1>1. IInv => TypeOK
  BY DEF IInv
<1>2. QED
  BY <1>1, Invariance, PTL

\* While the disk has room, a download that task_files_finish_download_back
\* reports as successful is on the disk byte for byte.
THEOREM DownloadIntactHolds == Spec => []DownloadIntact
<1>1. IInv => DownloadIntact
  <2>1. SUFFICES ASSUME IInv, NEW i \in Id, result[i] = "ok", ~full
                 PROVE  Whole(i)
    BY DEF DownloadIntact
  <2>2. Kept(i) /\ TypeOK /\ AllIntact
    BY <2>1 DEF IInv, Download
  <2>3. srv[i].state = "done" /\ saved[srv[i].file].bytes = srv[i].length
    BY <2>1, <2>2 DEF Kept
  <2>4. srv[i].file \in File
    BY <2>2, <2>3, FieldTypes
  <2>5. QED
    BY <2>2, <2>3, <2>4 DEF Whole, AllIntact
<1>2. QED
  BY <1>1, Invariance, PTL

\* The server is never more than one segment ahead of what the client has
\* written: task_files_begin_download_back asks behind the data.
THEOREM SegmentBoundHolds == Spec => []SegmentBound
<1>1. IInv => SegmentBound
  <2>1. SUFFICES ASSUME IInv, NEW i \in Id, recv[i] # NoRecv, recv[i].good, conn = "open"
                 PROVE  /\ recv[i].count <= srv[i].pos
                        /\ srv[i].pos - recv[i].count <= Flux
    BY DEF SegmentBound
  <2>2. Streaming(i) /\ srv[i] # Free /\ TypeOK
    BY <2>1 DEF IInv, Download, Kept
  <2>3. recv[i].count \in Nat /\ srv[i].pos \in Nat
    BY <2>1, <2>2, FieldTypes
  <2>4. recv[i].count <= srv[i].pos
    BY <2>1, <2>2, <2>3, ChainGrows DEF Streaming
  <2>5. PICK b \in 0..recv[i].count : srv[i].pos <= b + Flux
    BY <2>1, <2>2 DEF Streaming
  <2>6. QED
    BY <2>3, <2>4, <2>5, FileDownloadAssumption
<1>2. QED
  BY <1>1, Invariance, PTL

\* _map_channel lists exactly the open files of a connection that is up.
THEOREM ChannelTracksFilesHolds == Spec => []ChannelTracksFiles
<1>1. IInv => ChannelTracksFiles
  BY DEF IInv
<1>2. QED
  BY <1>1, Invariance, PTL
=============================================================================
