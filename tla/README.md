# simple_chat in TLA+

simple_chat is a chat client written with Qt. Clients talk to a server over web
sockets (libhv), keep their conversations in sqlite databases and move files
over a second connection. The server is not part of the repository. This
directory holds TLA+ modules of the client, the TLC configurations that check
them on small instances, and TLAPS proofs that hold for every instance.

## The system

The program `main.cpp` starts is the one `wid_test::test_20` (`wid_test_20.cpp`)
puts together; everything below is about that program.

| Component | State | Operations | Talks to |
|---|---|---|---|
| `qweb_client` (`qweb_client.*`, `inter_client.h`) | connection, account, open databases | `ask_*` on the GUI thread, `task_*` on the libhv thread | server by frames, windows by Qt signals, databases by calls |
| `sqlite_history` (`sqlite_op.*`) | one table per friend: send time (key), confirmation time, unread flag, type, side, text | create, insert, update `feed_back` / `non_read`, select | called from both threads |
| `sqlite_record` (`sqlite_op.*`) | friend requests | insert (the table is never created) | called by `task_swap_friens_add` |
| `sqlite_read_history` (`sqlite_read_history.h`) | none | `read_history`, `read_history_non_read`: select, then mark row by row | called by the windows, GUI thread |
| `wid_friend_list`, `wid_chat`, `wid_chat_input` | friends, chat windows, the visible one, bubbles | clicks, `add_recv_msg`, `make_chat`, `send_text`, drops | `qweb_client` through the slots of `test_20` |
| `qweb_files` over `files_channel`, `files_io` (`qweb_files.*`, `files_transfer.h`) | open files by id, counts, ids of each connection | `upload_file`, `download_file`, `task_files_*`, data frames | file server; signals to the callers |
| `qweb_ac_download`, `qweb_ac_upload` (`qweb_files.h`), `sn_connect.h` | the callback of one icon | one transfer each, over `qweb_files` | windows, from the libhv thread |
| `wid_friend_add`, `wid_friend_info`, `wid_person_info` | the account shown | search, show, save | `qweb_client`, icons |
| `web_protocol.h` | none | frames to and from JSON | every network component |
| `swap_files.h`, `format.h`, `Tvlog.h` | queue of transfers (not built), none, log file | | |

### What is hard

* **Two threads.** The libhv thread stores and confirms messages while the GUI
  thread stores, sends and reads. The database is shared, signals are queued:
  what a signal reports may be old when its slot runs.
* **Handlers of several steps.** A message is stored, then sent; a received one
  is stored, then confirmed; a history is selected, marked, then shown. The
  process can end, or the connection break, between any two of these.
* **Restart.** The databases outlive the process, everything else does not, and
  nothing is ever sent again. The connection of a running process is not reopened.
* **A server that owes little.** Messages wait for an offline account and may be
  delivered again.
* **Files.** Lengths are announced before a file is opened; it may change
  meanwhile. Segments end at multiples of a size, the end of the file is seen
  only by reading past it, progress is a division by the length, streams buffer
  what they write.
* **Late answers.** One panel serves all friends, dialogs run the event loop, and
  the answer to a request may find the panel showing someone else.
* **Icons.** Several transfers write one path, their callbacks run on threads of
  their own, and a file that exists counts as an icon.
* **Text as code.** Statements are put together by replacing markers in a text
  that already contains users' values.

`PROJECT.json` lists these places line by line under `hazards`.

### What makes each component correct

* Message exchange: a received message was sent, with that text; a confirmation
  is about a message its receiver handled; histories only grow; between two
  connected accounts the confirmation comes.
* Chat windows: a received message is shown once; it counts as read exactly if
  it is shown; what arrives in the visible conversation appears there.
* Transfers: success means a faithful copy; finishing means everything has been
  sent; at most a segment is under way; a transfer that began ends.
* Panels: a remark goes to the friend it was typed about; buttons agree with the
  server; what is sent has been verified; saving comes to an end.
* Icons: overlapping downloads leave a whole file; what was fetched is shown; what
  is missing is fetched.
* Statements: the row that is inserted is the row that was given.

## Modules

| Module | Models | State and actions |
|---|---|---|
| `SwapMsg` | `qweb_client`, history tables, server | per account: process and connection, tables, rows, what either thread has half done, frames in transit; server: accounts online, kept frames, friend pairs |
| `Delivery` | what the exchange promises | sets of messages sent, stored, dropped, confirmed |
| `ChatView` | chat windows of one client | rows with their unread flag, message the libhv thread is handling, queued signals, windows, history being read, bubbles |
| `FileUpload` | `upload_file` and the upload handlers | local files, open files, the segment loop, channel, frames, the server's copies |
| `FileDownload` | `download_file` and the download handlers | open files and their streams, disk, channel, frames, the server's files |
| `PersonInfo` | `wid_person_info`, `wid_friend_info`, `wid_friend_butt`, the `ac_info_all`, `ac_update_info` and `ac_update_remarks` requests | area shown, both panels (what was set, what the fields hold), remarks on the buttons, open dialogs, frames; server: information and remarks |
| `IconTransfer` | `qweb_ac_download`, `qweb_ac_upload` and their callbacks, `wid_friend_add`, `add_friend` | icon files part by part, transfers, friend list being filled, pictures loaded, search panel |
| `SqlInsert` | `sformat`, `insert_db`, `update_db`, `delete_db` | the text being formatted, its arguments, the place the search has reached, the values still to come |
| `Queues` | | facts about queues of frames that several proofs use |
| `SwapMsgProof`, `ChatViewProof`, `FileUploadProof`, `FileDownloadProof`, `PersonInfoProof`, `IconTransferProof`, `SqlInsertProof` | | theorems and proofs |
| `MC...` | | constants for TLC |

Actions bear the names of the functions they model (`task_swap_msg` is
`TaskSwapMsg`); the second half of a handler is an action of its own where the
other thread or the end of the process can come between (`SendSwapMsgBack`).
`map` in `PROJECT.json` gives the lines of each definition. Definitions called
`X_Something`, marked "Mutant", are not part of a specification: each is a
plausible defect of `X` that one of the properties detects.

**SwapMsg.** A row is keyed by friend and send time. `InsertOk` is the outcome of
the INSERT: the table must exist, the key be free, and the text free of single
quotes, since `sqlite_op.h` does not escape it (`Quoted` is the set of texts
that are rejected). `update_feed_back` finds its row by time alone.
`task_swap_msg` goes on to confirm when its insert failed; `dropped` remembers
those messages. It is a history variable: no action reads it. Tables are created
only by `task_ac_login_back`, so a friend made later has none until the next
login; `task_ac_update_friends_back` changes nothing (`TaskNoEffect`).
`task_swap_cache_back` passes each kept frame through `sl_message`; the rest of
its loop is `replay`. Account information and remarks use the same dispatch and
connection but touch none of this state; they have a module of their own.

The server answers a login or refuses it, forwards, keeps and returns. It may
return frames again. It is marked external in the map, as are users, network and
the programs that change files.

**ChatView.** The database is abstracted to one row per friend and time with its
side and unread flag. `read` is the local state of `read_history` /
`read_history_non_read` on the GUI thread: the rows selected and those still to be
marked. Meanwhile the libhv thread may insert and signal. A dropped image is sent
with type `File`, for which `make_msg` has no widget; the call through the null
pointer ends the process (`SendDrop`).

**FileUpload, FileDownload.** Bytes are positions: a data frame says from where in
the file its bytes come and how many they are, so order, loss and duplication show
as a position that does not continue the copy. Both have one connection, with any
number of transfers alternating. Buffers of 1024 bytes and segments of 2 MiB
become `Buf` and `Flux`. A file whose length is zero ends the process in the
progress computation. In downloads the stream keeps bytes until it flushes;
`FillDisk` makes every later flush fail. When the connection ends `sl_close` drops
the channel's list of files and closes none of them.

**PersonInfo.** A remark carries the friend it was typed about, so that one that
strays is seen. Of one's own information only the sex is looked into: it may be
left empty, and `get_edit_info` then sends an uninitialized number (`GetEditInfo`
chooses). `make_box` runs the event loop: while a dialog is open answers change the
panels, and the code behind the dialog runs when it closes (`ConfirmInfo`,
`CloseFailed`). The server answers in order, may refuse a change of information
with an answer and one of remarks without.

**IconTransfer.** Moving bytes is the business of the two modules before; here an
icon is a few parts that a download writes in order, each at its place, into a file
it has emptied when it opened it. `add_friend` is three steps, because callbacks
come in between: the check whether the file exists, which starts a download; the
button loading the file; the entry into `_map_friends`. A look-up in that map
while the GUI thread is inserting another friend may or may not find its friend.
`failed`, `suspect`, `excused` and `late` are history variables: no action's guard
reads them.

**SqlInsert.** Texts are sequences of characters, since the places of braces are what
matters; words of SQL are single letters, and `Other` is what else the values are
made of. One step is one turn of the loop in
`sformat_t`. `find_flg` takes the first `}` that has a `{` before it, and the last
such `{`, wherever either comes from: an opening brace of one value and a closing
one of another are as good as a marker. `std::stoi` passes over spaces and a sign,
reads the digits that follow and refuses what is no `int`. Behind a replaced marker
the search goes on where the marker ended in the old text, plus the length of what
was put in. `_vec.at` outside the `try` is `Throw`. A value is quoted or not by its
C++ type; `Numbers` are the values of the other types as `to_string` writes them,
never empty and never with a brace.

## Runs

`tlc -workers 2 -config X.cfg M` for the module M a run names.

| Run | Configuration | Shows |
|---|---|---|
| `msg` | `MCSwapMsg` | two accounts, two starts each, crashes, lost connections, redelivery, an unstorable text: histories, confirmations and frames agree, the exchange implements `Delivery`, and a confirmation comes while both stay logged in |
| `msg_stored` | `MCSwapMsg_stored` | violated: a confirmed message is stored |
| `chat` | `MCChatView` | two conversations, two messages each, two starts: shown once, read exactly if shown, never unread again, and what arrives in the visible conversation appears |
| `upload` | `MCFileUpload` | two uploads of a changing file over a breaking connection: faithful copies, nothing finished early, one segment under way, and each ends |
| `upload_empty` | `MCFileUpload_empty` | violated: every accepted upload gets its result |
| `download` | `MCFileDownload` | two downloads, changing files, full disk, breaking connection: faithful copies while the disk has room, one segment ahead, and each that was opened ends |
| `download_flush` | `MCFileDownload_flush` | violated: a successful download is complete |
| `profile` | `MCPersonInfo` | two friends, two frames or dialogs at a time: remarks reach the right friend, buttons agree with the server, verified information is what is sent, a confirmed change ends |
| `profile_remarks` | `MCPersonInfo_remarks` | violated: the panel shows the remark of the friend it shows |
| `icons` | `MCIconTransfer` | a friend, two starts, two transfers at a time, a search and a new icon: overlapping downloads heal, buttons and panel show what came, missing icons are fetched |
| `icon_restart` | `MCIconTransfer_restart` | violated: an icon that is not there in full is fetched |
| `sql_insert` | `MCSqlInsert` | rows of a number and two or three texts with braces in every arrangement: inserted exactly if the values but for the last, taken together, have no pair of braces; formatting ends |

Five runs are expected to fail. Each refutes a sentence of the repository that
the code does not live up to; `findings` in `PROJECT.json` quotes it.

What `sql_insert` means for the two databases: a history row ends with the message,
so any message is put into its statement unchanged; a friend request ends with the
remark, and notes with a pair of braces make a wrong statement or an exception that
nobody catches. Rows of three texts show that the pair may be in two of them, one
brace in each.

### Bounds

* `MaxSession` (2): one start in which messages are stored, and one that finds
  them; a redelivered message needs no more, since the server keeps what it sent
  while the receiver was away before its first login. Liveness of confirmations
  is about one start, because nothing is resent by the next.
* `Time` (1 value), `Clock` (2): with one send time two friends that write to each
  other collide at once; a second clock reading tells a confirmation that hits
  the wrong row. The theorems cover any number.
* `MaxSignal` (2): a signal that finds its message read by an earlier one.
* `Buf` 2, `Flux` 4: a segment of two buffers. Uploads have lengths 4 (ends at a
  segment) and 9 (two segments and a partial buffer), and change from one to the
  other at any point. Downloads use `Flux` 2 with lengths 2 (ends at a segment)
  and 3 (a segment and a partial buffer), and `Flux` 4 with 1 to 9 in
  `download_flush`. Two transfers show interference; more do not share more.
* `MaxAsk` (2), and one download per file.
* `MaxFrames` (2): frames and dialogs at a time, enough for an answer to overtake
  the user between typing and saving, or during a dialog. `Entry`: a complete
  form, one without a sex, one out of range.
* `Transfer` (2), `Parts` (2), one friend, one change of the own icon: two downloads
  of one file at different places, or a download and an upload of the own icon.
  The look-up that misses a friend because another is being inserted needs two
  friends and is not reached.
* `SmallTexts`: every text of at most two characters out of braces, a digit and a
  letter, the texts of three that look like a marker, and longer ones with two
  markers, a sign or a space. `PartTexts`: a brace, or two the wrong way round, for
  the first two of three texts. The theorem covers any number of any texts.
* Symmetry is not used: most runs check liveness.

Deadlock is not checked: users need not do anything, a lost connection is not
reopened, and starts are bounded, so a state without steps is a program at rest.
That work is not left undone is what the liveness properties say.

### Fairness

Weak fairness of the libhv thread (`Handlers`, `EmitRecvMsg`, `Client`), of the GUI
thread in the middle of a call or with a signal queued (`SendSwapMsg`, `Reader`,
`AddRecvMsg`), and of the server for frames it has received and downloads it is
sending; of the answers' slots and the account server (`Slots`, `Server`), of the
login's loop over the friends (`Gui`) and of each icon transfer, which goes on or
breaks off (`Moves`); of the function that formats. These are event loops and running functions: they go on as long as the
process does. Nothing is assumed of users, of the network, of crashes, or of the
programs that change files; liveness properties therefore end with "or the
connection is gone", "or the transfer failed", or "or the user has turned to
another conversation".

## Proofs

`tlapm M.tla` for each module `...Proof` and for `Queues`. The theorems hold for any
sets of accounts, friends, files, times, texts and rows and for any bounds. What
they assume of the constants is in the `ASSUME` of each module, evaluated by its
runs: markers such as `NoFriend`, `NoId`, `Absent` are not what they are told apart
from; clock readings are positive and send times are clock readings; bounds are
numbers; a buffer is not empty and a segment is a whole number of buffers (2 MiB
and 1024 in the code); values are sequences of characters, a row has one at
least, and what a number is written as is not
empty and has no brace. Each invariant `IInv` was checked with TLC on the instance of the component's
run before it was proved.

**SwapMsgProof.** `ReceivedWasSent` is not inductive: a message on its way would be
stored whether or not its sender has it. `IInv` adds `FramesVouched`: every frame,
in either direction, in the server's cache, in the rest of a replay or held by a
thread, is vouched for by the histories. A message is a sent row with that text, a
confirmation is about a sent row whose receiver has handled it, and what is bound
for an account is addressed to it. The proof shows first, for every step, that rows
stay (`HistoryStep`), hence what vouches for a frame stays (`VouchedStable`), then
goes through the actions that move frames (`FramesStep`), then through the three
that change rows (`HistoryInvStep`). From it follow `FramesVouchedHolds`,
`ReceivedWasSentHolds`, `ReceivedFeedBackHolds`, `ConfirmedWasHandledHolds`,
`HistoryOnlyGrowsHolds`, and `Refinement`: each step maps to a step of `Delivery` or
to none.

**ChatViewProof.** `IInv` adds `ReadingOK`, what the GUI thread holds between select
and show (rows that exist, not received ones already shown, marked if past the
loop), and `IdleOK` (no bubbles without a window, sent rows are never unread). One
lemma per action. From it `ShownOnceHolds`, `ReadIsShownHolds`, `ShownIsReadHolds`
and `ReadStaysReadHolds`.

**Queues.** What appending a frame and taking one off do to statements about a queue:
it has none, or at most one, of a kind (`None`, `AtMostOne`); none of one kind comes
behind one of another (`NoneBehind`); its data frames, read in order, lead from one
position to another without gap or overlap (`Chain`). All are stated with positions,
not by recursion, so that no induction is needed. The last two lemmas are about
remainders: between two multiples of the buffer that lie in a segment there is room
for a whole buffer.

**FileUploadProof.** That the server's copy is faithful says nothing of frames on
their way. The idea of `IInv` is the turn: for each upload at most one frame that
asks or answers is in transit, or the loop of `add_data_send` runs, never two of
these (`OneTurn`), and data never travels behind the client's turn. `UpFrames` and
`DownFrames` say what has happened when a frame of each type is under way;
`Streaming`, that the data frames in transit are a chain from the server's bytes to
the client's count, all within one segment; `Served`, that the copy is intact.
Hence `UploadIntactHolds`, `FinishedIsDeliveredHolds` and `FluxBoundHolds`; for
`ChannelTracksFilesHolds` also `Connected`.

**FileDownloadProof.** The same with the sides exchanged: the server has the turn while
it sends a segment, and the chain leads from the client's count to its position.
Once a stream has gone bad its count stops, so the chain is about good ones; without
a full disk all are. The model asks for each file once (`asked`), and `Once` makes
that inductive: two downloads never write one file. The theorems, as the run, are
about downloads under that premise.

**PersonInfoProof.** `RemarksForFriend` needs `TypedForShown` (the fields hold what was
set or what was typed about the friend shown: an answer about another friend
replaces both). `SentIsVerified` needs that information an answer puts under a
waiting dialog is in range (`ConfirmIsVerified`), hence that the server has and says
only what was verified (`ServedIsVerified`). `RemarksAgree` needs `LastAgrees`: the
last answer about a friend's remark in transit carries what the server stores.

**IconTransferProof.** `OverlapHeals` needs `Mending`: every part of an icon is on the
disk, or some download that will still write it has not come to it, whatever
emptied the file in between. `ButtonShowsFile` needs for each friend what its button
is waiting for (`Button`): the list's download goes on, or the picture is loaded, or
there is a file that is not whole and nobody at work on it. `Finding` names the
transfer that the search panel waits for.

**SqlInsertProof.** `SearchShrinksHolds` is about one step and rests on `TypeOK` and on
where `find_flg` finds a marker (`MarkerFound`: not before the search begins, inside
the text, two characters at least; `PairFound`: whenever there is a pair). That the
least `}` and the last `{` exist comes from the well-foundedness of the natural
numbers (`MinIsLeast`, `MaxIsGreatest`).

`InsertFaithfulHolds` needs to know the text at every turn of the loop. `IInv` has one
part per operation, `Inserting`, `Updating`, `Deleting`, and each says of each call of
`sformat` which texts it can be working on. A text may be `Waiting` for its next
argument: `find_flg` then finds that marker and nothing else (`WaitingFound`), one turn
puts the argument in (`TurnWaiting`), and the text waits for the marker after it,
behind the place where the search goes on (`TurnToNext`; the templates have two
characters between markers), or the search has passed its end (`TurnToEnd`). For
updates and deletes this is all that happens. In an insert the statement so far,
`Before`, holds the values put in earlier. Without a pair of braces it waits like the
others (`ReadyWaiting`); with one, that pair is found before the marker
(`BracesFirst`), and what takes its place does not begin with a brace (`PieceText`).
From there on the text is `Spoilt`: it agrees with the statement that should come out
up to a brace of that statement, where it has something else. Every later replacement
either leaves that place alone or spoils an earlier one (`SpoiltByReplace`), so a
spoilt text is never the right one. `BracedBefore` ties the pair to `SafeRow`.

Two recursive functions are read this way: `Natural` only on one digit, which is all
a marker has, and `Listing` step by step: its equation is shown to have a solution up
to the length of the row, by induction over a set of numbers (`Upwards`,
`ListingStep`), since the induction theorems of the library take operators.

`SafeRow` is about the values as the statement lists them and not about each by
itself: no invariant of that form is inductive, since two texts with one brace each
are as unsafe as one text with two.

Only model-checked: all liveness (`Confirmation`, `ArrivalIsShown`, `UploadEnds`,
`DownloadEnds`, `SaveReturns`, `MissingIsFetched`, `Terminates`), which needs
fairness and `ENABLED` and is out of the prover's reach. Every invariant and every
action property of the passing runs is a theorem.

## Not modelled

* Vendored libraries (libhv, sqlite3, two copies of nlohmann json): `src/include` is
  nine tenths of all the lines of code and none of the program's own logic; they
  are represented by what the program uses of them. For this reason the modules
  stand for a small share of the repository's lines, though for most of the
  client's own state changes.
* Painting and layout (`qbutt_line`, `qmove_pos`, `qlab_*`, `wid_msg_*`, and most of
  the lines of every window), the interactive experiments of `wid_test.cpp`, the
  echo server of `tests/web_server`.
* JSON text and the binary header of data frames: a frame is a record of the
  fields its handler uses.
* Registration and friend requests: the running program has no way to send them;
  a request that arrives is inserted into a table that does not exist and nothing
  follows. `SqlInsert` covers the statement.
* The online mark of a friend, which is only drawn.
* Data races inside Qt widgets touched by a libhv thread, beyond what the order of
  steps and the look-up in `_map_friends` show.
* `swap_files.h`, which is not built: `files_transfer.h` has taken its place.
* `Tvlog`: nothing depends on the log.

Known and left without a property, because nothing in the repository claims
otherwise or because the property would only restate an action: an image dropped on
a conversation ends the process (`SendDrop`), files stay open when a connection
ends (`SlClose`), messages that arrive for a hidden conversation stay hidden until
the next one, saving a panel that was never filled in sends account 0.

## Plan

Done: `SwapMsg`, `Delivery`, `ChatView`, `FileUpload`, `FileDownload`, `PersonInfo`,
`IconTransfer`, `SqlInsert`, and the proofs of every safety property the runs check.
What could come next:

1. Downloads of one file asked for again: `Once` weakened to "not at the same time".
2. `Chat`: `SwapMsg` and `ChatView` composed on one database, `ChatView`'s arrivals
   being `SwapMsg`'s inserts.
