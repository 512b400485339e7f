------------------------------- MODULE SwapMsg -------------------------------
(***************************************************************************)
(* Exchange of chat messages between clients (qweb_client.cpp) through the *)
(* server, with the history database each client keeps (sqlite_op.cpp).    *)
(*                                                                         *)
(* A client runs two threads.  The GUI thread executes ask_swap_msg: store *)
(* the message, then send it.  The libhv loop thread executes sl_message   *)
(* and the task_* handlers: store a received message, then acknowledge it. *)
(* The two parts of both are separate steps here, because the other thread *)
(* and the end of the process can come between them.  Connections are FIFO *)
(* and are never reopened by a running process (inter_client.h:37), but    *)
(* the user may start the program again, on the same database files.       *)
(*                                                                         *)
(* The server is not in this repository.  It does what the clients use it  *)
(* for: answer a login, forward to an online account, keep for an offline  *)
(* one, return what it kept.  Whether it forgets what it returned is left  *)
(* open, so a message can be delivered twice.                              *)
(***************************************************************************)
EXTENDS Naturals, Sequences, FiniteSets

CONSTANTS Account,      \* the accounts that take part
          Clock,        \* millisecond clock readings, get_time_now()
          Time,         \* bound: the readings at which messages are sent
          Content,      \* message texts
          Quoted,       \* texts the unescaped INSERT of sqlite_op.h rejects
          MaxSession    \* bound: how often one account starts the program

ASSUME SwapMsgAssumption ==
    /\ Clock \subseteq Nat \ {0}
    /\ Time \subseteq Clock
    /\ Quoted \subseteq Content
    /\ MaxSession \in Nat

VARIABLES
    conn,       \* conn[a]: state of the process of a and of its connection
    session,    \* session[a]: number of starts so far
    flist,      \* flist[a]: friends shown in this session (_map_friends)
    table,      \* table[a]: friends with a history table in a's database
    hist,       \* hist[a][b][t]: row of table history_b with send_time t
    gui,        \* gui[a]: message ask_swap_msg has stored and not yet sent
    hv,         \* hv[a]: message task_swap_msg has handled, not yet confirmed
    replay,     \* replay[a]: rest of the loop of task_swap_cache_back
    toServer,   \* toServer[a]: frames from a to the server
    toClient,   \* toClient[a]: frames from the server to a
    online,     \* server: the accounts logged in
    cache,      \* server: cache[a], frames kept for a
    pals,       \* server: the friend lists, a symmetric set of pairs
    dropped     \* history: <<source, target, time>> whose insert failed

dbVars == <<table, hist, dropped>>
netVars == <<toServer, toClient>>
srvVars == <<online, cache, pals>>
procVars == <<conn, session, flist>>
vars == <<procVars, dbVars, gui, hv, replay, netVars, srvVars>>
-----------------------------------------------------------------------------
(***************************************************************************)
(* Frames and rows.                                                        *)
(***************************************************************************)
SwapMsgs == [type : {"swap_msg"}, source : Account, target : Account,
             time_to : Time, content : Content]
SwapMsgBacks == [type : {"swap_msg_back"}, source : Account, target : Account,
                 time_to : Time, time_ok : Clock]
Relayed == SwapMsgs \union SwapMsgBacks
Asks == [type : {"ac_login", "swap_cache"}]
Answers == [type : {"ac_login_back"}, friends : SUBSET Account]
             \union [type : {"swap_cache_back"}, vec : Seq(Relayed)]
             \union [type : {"ac_update_friends_back", "error_info"}]

NoMsg == [type |-> "none"]

\* A row of a history table: who the bubble is attached to (AL, received;
\* AR, sent), the confirmation time and the text.
Row == [object : {"AL", "AR"}, feed_back : Clock \union {0}, content : Content]
NoRow == [object |-> "none"]
Histories == [Account -> [Account -> [Time -> Row \union {NoRow}]]]

Friends(a) == {b \in Account : <<a, b>> \in pals}

Connected(a) == conn[a] \in {"open", "login"}

\* WebSocketClient::send gives the frame to the connection, if there is one.
Send(a, m) ==
    toServer' = IF Connected(a) THEN [toServer EXCEPT ![a] = Append(@, m)]
                                ELSE toServer

\* Mutant: INSERT OR REPLACE, any row may be overwritten.
InsertOk_Replace(a, b, t, c) == b \in table[a] /\ c \notin Quoted

\* sqlite_history::insert_history: the table exists, send_time is a fresh
\* primary key and the text leaves the statement well formed.
InsertOk(a, b, t, c) ==
    /\ b \in table[a]
    /\ hist[a][b][t] = NoRow
    /\ c \notin Quoted

InsertHistory(a, b, t, row) == [hist EXCEPT ![a][b][t] = row]

\* sqlite_history::update_feed_back: UPDATE of the row with that send_time,
\* which does nothing when there is none.
UpdateFeedBack(a, b, t, ok) ==
    IF b \in table[a] /\ hist[a][b][t] # NoRow
    THEN [hist EXCEPT ![a][b][t].feed_back = ok]
    ELSE hist
-----------------------------------------------------------------------------
Init ==
    /\ conn = [a \in Account |-> "exit"]
    /\ session = [a \in Account |-> 0]
    /\ flist = [a \in Account |-> {}]
    /\ table = [a \in Account |-> {}]
    /\ hist = [a \in Account |-> [b \in Account |-> [t \in Time |-> NoRow]]]
    /\ gui = [a \in Account |-> NoMsg]
    /\ hv = [a \in Account |-> NoMsg]
    /\ replay = [a \in Account |-> <<>>]
    /\ toServer = [a \in Account |-> <<>>]
    /\ toClient = [a \in Account |-> <<>>]
    /\ online = {}
    /\ cache = [a \in Account |-> <<>>]
    /\ pals = {}
    /\ dropped = {}
-----------------------------------------------------------------------------
(***************************************************************************)
(* The process and its connection.                                         *)
(***************************************************************************)
\* The user starts the program: wc->open(), and when the connection opens
\* sl_open and the sn_open slot send the login request.
Start(a) ==
    /\ conn[a] = "exit"
    /\ session[a] < MaxSession
    /\ session' = [session EXCEPT ![a] = @ + 1]
    /\ conn' = [conn EXCEPT ![a] = "open"]
    /\ toServer' = [toServer EXCEPT ![a] = Append(@, [type |-> "ac_login"])]
    /\ UNCHANGED <<flist, dbVars, gui, hv, replay, toClient, srvVars>>

\* What the network and the server forget about a when its connection ends.
CutOff(a) ==
    /\ toServer' = [toServer EXCEPT ![a] = <<>>]
    /\ toClient' = [toClient EXCEPT ![a] = <<>>]
    /\ online' = online \ {a}
    /\ UNCHANGED <<cache, pals>>

\* The connection is lost and sl_close runs.  The process goes on without
\* a connection: its windows stay usable and a handler that is running ends.
Disconnect(a) ==
    /\ Connected(a)
    /\ conn' = [conn EXCEPT ![a] = "lost"]
    /\ CutOff(a)
    /\ UNCHANGED <<session, flist, dbVars, gui, hv, replay>>

\* The process ends, at any point of its two threads.
Exit(a) ==
    /\ conn[a] # "exit"
    /\ conn' = [conn EXCEPT ![a] = "exit"]
    /\ flist' = [flist EXCEPT ![a] = {}]
    /\ gui' = [gui EXCEPT ![a] = NoMsg]
    /\ hv' = [hv EXCEPT ![a] = NoMsg]
    /\ replay' = [replay EXCEPT ![a] = <<>>]
    /\ CutOff(a)
    /\ UNCHANGED <<session, dbVars>>
-----------------------------------------------------------------------------
(***************************************************************************)
(* GUI thread.                                                             *)
(***************************************************************************)
\* Mutant: feed_back is filled in as it is for received messages.
AskSwapMsg_FedBack(a, b, t, c) ==
    /\ gui[a] = NoMsg
    /\ b \in flist[a]
    /\ InsertOk(a, b, t, c)
    /\ hist' = InsertHistory(a, b, t,
                   [object |-> "AR", feed_back |-> t, content |-> c])
    /\ gui' = [gui EXCEPT ![a] = [type |-> "swap_msg", source |-> a,
                   target |-> b, time_to |-> t, content |-> c]]
    /\ UNCHANGED <<procVars, table, dropped, hv, replay, netVars, srvVars>>

\* Mutant: the message is sent although it could not be stored.
AskSwapMsg_Unchecked(a, b, t, c) ==
    /\ gui[a] = NoMsg
    /\ b \in flist[a]
    /\ hist' = IF InsertOk(a, b, t, c)
               THEN InsertHistory(a, b, t,
                      [object |-> "AR", feed_back |-> 0, content |-> c])
               ELSE hist
    /\ gui' = [gui EXCEPT ![a] = [type |-> "swap_msg", source |-> a,
                   target |-> b, time_to |-> t, content |-> c]]
    /\ UNCHANGED <<procVars, table, dropped, hv, replay, netVars, srvVars>>

\* ask_swap_msg, first half: the message goes into the sender's history.  If
\* that fails nothing is sent.
AskSwapMsg(a, b, t, c) ==
    /\ gui[a] = NoMsg
    /\ b \in flist[a]
    /\ InsertOk(a, b, t, c)
    /\ hist' = InsertHistory(a, b, t,
                   [object |-> "AR", feed_back |-> 0, content |-> c])
    /\ gui' = [gui EXCEPT ![a] = [type |-> "swap_msg", source |-> a,
                   target |-> b, time_to |-> t, content |-> c]]
    /\ UNCHANGED <<procVars, table, dropped, hv, replay, netVars, srvVars>>

\* ask_swap_msg, second half: send_msg.
SendSwapMsg(a) ==
    /\ gui[a] # NoMsg
    /\ Send(a, gui[a])
    /\ gui' = [gui EXCEPT ![a] = NoMsg]
    /\ UNCHANGED <<procVars, dbVars, hv, replay, toClient, srvVars>>
-----------------------------------------------------------------------------
(***************************************************************************)
(* libhv thread: sl_message and the handlers it dispatches to.             *)
(***************************************************************************)
\* The frame sl_message is called with: the next one of the cached frames
\* task_swap_cache_back is replaying, else the next one of the connection.
Frame(a) == IF replay[a] # <<>> THEN Head(replay[a]) ELSE Head(toClient[a])

Dispatch(a, type) ==
    /\ hv[a] = NoMsg
    /\ replay[a] # <<>> \/ toClient[a] # <<>>
    /\ Frame(a).type = type

Consume(a) ==
    IF replay[a] # <<>>
    THEN /\ replay' = [replay EXCEPT ![a] = Tail(@)]
         /\ UNCHANGED toClient
    ELSE /\ toClient' = [toClient EXCEPT ![a] = Tail(@)]
         /\ UNCHANGED replay

\* Mutant: the tables are created anew at every login.
TaskAcLoginBack_Recreated(a) ==
    /\ Dispatch(a, "ac_login_back")
    /\ table' = [table EXCEPT ![a] = @ \union Frame(a).friends]
    /\ hist' = [hist EXCEPT ![a] = [b \in Account |->
                   IF b \in Frame(a).friends THEN [t \in Time |-> NoRow]
                                             ELSE @[b]]]
    /\ flist' = [flist EXCEPT ![a] = Frame(a).friends]
    /\ conn' = [conn EXCEPT ![a] = "login"]
    /\ Send(a, [type |-> "swap_cache"])
    /\ Consume(a)
    /\ UNCHANGED <<session, dropped, gui, hv, srvVars>>

\* task_ac_login_back: open the database, create a history table for every
\* friend of the answer, show them, ask for the cached frames.
TaskAcLoginBack(a) ==
    /\ Dispatch(a, "ac_login_back")
    /\ table' = [table EXCEPT ![a] = @ \union Frame(a).friends]
    /\ flist' = [flist EXCEPT ![a] = Frame(a).friends]
    /\ conn' = [conn EXCEPT ![a] = "login"]
    /\ Send(a, [type |-> "swap_cache"])
    /\ Consume(a)
    /\ UNCHANGED <<session, hist, dropped, gui, hv, srvVars>>

\* Mutant: the frame itself is replayed, not what it contains.
TaskSwapCacheBack_Whole(a) ==
    /\ Dispatch(a, "swap_cache_back")
    /\ replay' = [replay EXCEPT ![a] = <<Frame(a)>>]
    /\ toClient' = [toClient EXCEPT ![a] = Tail(@)]
    /\ UNCHANGED <<procVars, dbVars, gui, hv, toServer, srvVars>>

\* Mutant: the loop starts one frame too late.
TaskSwapCacheBack_Late(a) ==
    /\ Dispatch(a, "swap_cache_back")
    /\ replay' = [replay EXCEPT ![a] = SubSeq(Frame(a).vec, 2, Len(Frame(a).vec))]
    /\ toClient' = [toClient EXCEPT ![a] = Tail(@)]
    /\ UNCHANGED <<procVars, dbVars, gui, hv, toServer, srvVars>>

\* task_swap_cache_back: every cached frame goes through sl_message.
TaskSwapCacheBack(a) ==
    /\ Dispatch(a, "swap_cache_back")
    /\ replay' = [replay EXCEPT ![a] = Frame(a).vec]
    /\ toClient' = [toClient EXCEPT ![a] = Tail(@)]
    /\ UNCHANGED <<procVars, dbVars, gui, hv, toServer, srvVars>>

\* Mutant: a received message is stored with the object of a sent one.
TaskSwapMsg_AsSent(a) ==
    /\ Dispatch(a, "swap_msg")
    /\ LET m == Frame(a)
           ok == InsertOk(a, m.source, m.time_to, m.content)
       IN /\ hist' = IF ok
                     THEN InsertHistory(a, m.source, m.time_to,
                            [object |-> "AR", feed_back |-> m.time_to,
                             content |-> m.content])
                     ELSE hist
          /\ hv' = [hv EXCEPT ![a] = m]
    /\ Consume(a)
    /\ UNCHANGED <<procVars, dropped, table, gui, toServer, srvVars>>

\* task_swap_msg, first half: insert the message into the history of its
\* source.  A failed insert is logged and the handler goes on.
TaskSwapMsg(a) ==
    /\ Dispatch(a, "swap_msg")
    /\ LET m == Frame(a)
           ok == InsertOk(a, m.source, m.time_to, m.content)
           known == hist[a][m.source][m.time_to].object = "AL"
       IN /\ hist' = IF ok
                     THEN InsertHistory(a, m.source, m.time_to,
                            [object |-> "AL", feed_back |-> m.time_to,
                             content |-> m.content])
                     ELSE hist
          /\ dropped' = IF ok \/ known THEN dropped
                        ELSE dropped \union {<<m.source, a, m.time_to>>}
          /\ hv' = [hv EXCEPT ![a] = m]
    /\ Consume(a)
    /\ UNCHANGED <<procVars, table, gui, toServer, srvVars>>

\* Mutant: source and target are not exchanged.
SendSwapMsgBack_Misaddressed(a, ok) ==
    /\ hv[a] # NoMsg
    /\ Send(a, [type |-> "swap_msg_back", source |-> hv[a].source,
                target |-> hv[a].target, time_to |-> hv[a].time_to,
                time_ok |-> ok])
    /\ hv' = [hv EXCEPT ![a] = NoMsg]
    /\ UNCHANGED <<procVars, dbVars, gui, replay, toClient, srvVars>>

\* task_swap_msg, second half: confirm, with the receiver's clock.
SendSwapMsgBack(a, ok) ==
    /\ hv[a] # NoMsg
    /\ Send(a, [type |-> "swap_msg_back", source |-> hv[a].target,
                target |-> hv[a].source, time_to |-> hv[a].time_to,
                time_ok |-> ok])
    /\ hv' = [hv EXCEPT ![a] = NoMsg]
    /\ UNCHANGED <<procVars, dbVars, gui, replay, toClient, srvVars>>

\* task_swap_msg_back: the confirmation time goes into the sender's history.
TaskSwapMsgBack(a) ==
    /\ Dispatch(a, "swap_msg_back")
    /\ LET m == Frame(a)
       IN hist' = UpdateFeedBack(a, m.source, m.time_to, m.time_ok)
    /\ Consume(a)
    /\ UNCHANGED <<procVars, table, dropped, gui, hv, toServer, srvVars>>

\* task_ac_update_friends_back emits a signal nothing is connected to, and
\* creates no table for the new friend; task_error_info only logs.
TaskNoEffect(a) ==
    /\ \/ Dispatch(a, "ac_update_friends_back")
       \/ Dispatch(a, "error_info")
    /\ Consume(a)
    /\ UNCHANGED <<procVars, dbVars, gui, hv, toServer, srvVars>>
-----------------------------------------------------------------------------
(***************************************************************************)
(* The server (external).                                                  *)
(***************************************************************************)
SrvReads(a, type) ==
    /\ toServer[a] # <<>>
    /\ Head(toServer[a]).type = type
    /\ toServer' = [toServer EXCEPT ![a] = Tail(@)]

\* A login is accepted, and answered with the friend list, or refused.
SrvLogin(a) ==
    /\ SrvReads(a, "ac_login")
    /\ \/ /\ online' = online \union {a}
          /\ toClient' = [toClient EXCEPT ![a] =
                 Append(@, [type |-> "ac_login_back", friends |-> Friends(a)])]
       \/ /\ toClient' = [toClient EXCEPT ![a] =
                 Append(@, [type |-> "error_info"])]
          /\ UNCHANGED online
    /\ UNCHANGED <<procVars, dbVars, gui, hv, replay, cache, pals>>

\* The kept frames are returned, and forgotten or not.
SrvSwapCache(a) ==
    /\ SrvReads(a, "swap_cache")
    /\ toClient' = [toClient EXCEPT ![a] =
           Append(@, [type |-> "swap_cache_back", vec |-> cache[a]])]
    /\ \/ cache' = [cache EXCEPT ![a] = <<>>]
       \/ UNCHANGED cache
    /\ UNCHANGED <<procVars, dbVars, gui, hv, replay, online, pals>>

\* A message or a confirmation is forwarded, or kept for an offline account.
SrvForward(a) ==
    /\ \/ SrvReads(a, "swap_msg")
       \/ SrvReads(a, "swap_msg_back")
    /\ LET m == Head(toServer[a])
           b == m.target
       IN IF b \in online
          THEN /\ toClient' = [toClient EXCEPT ![b] = Append(@, m)]
               /\ UNCHANGED cache
          ELSE /\ cache' = [cache EXCEPT ![b] = Append(@, m)]
               /\ UNCHANGED toClient
    /\ UNCHANGED <<procVars, dbVars, gui, hv, replay, online, pals>>

\* Two accounts become friends; those online are told.
SrvUpdateFriends(a, b) ==
    /\ a # b
    /\ <<a, b>> \notin pals
    /\ pals' = pals \union {<<a, b>>, <<b, a>>}
    /\ toClient' = [c \in Account |->
           IF c \in {a, b} \intersect online
           THEN Append(toClient[c], [type |-> "ac_update_friends_back"])
           ELSE toClient[c]]
    /\ UNCHANGED <<procVars, dbVars, gui, hv, replay, toServer, online, cache>>
-----------------------------------------------------------------------------
Handlers(a) ==
    \/ TaskAcLoginBack(a)
    \/ TaskSwapCacheBack(a)
    \/ TaskSwapMsg(a)
    \/ \E ok \in Clock : SendSwapMsgBack(a, ok)
    \/ TaskSwapMsgBack(a)
    \/ TaskNoEffect(a)

Server(a) ==
    \/ SrvLogin(a)
    \/ SrvSwapCache(a)
    \/ SrvForward(a)

User(a) ==
    \/ Start(a)
    \/ Exit(a)
    \/ \E b \in Account, t \in Time, c \in Content : AskSwapMsg(a, b, t, c)

Next ==
    \/ \E a \in Account :
          \/ User(a)
          \/ Disconnect(a)
          \/ SendSwapMsg(a)
          \/ Handlers(a)
          \/ Server(a)
    \/ \E a, b \in Account : SrvUpdateFriends(a, b)

Spec == Init /\ [][Next]_vars

\* Threads and the server keep running; users and the network owe nothing.
Fairness ==
    \A a \in Account :
        /\ WF_vars(SendSwapMsg(a))
        /\ WF_vars(Handlers(a))
        /\ WF_vars(Server(a))

FairSpec == Spec /\ Fairness
-----------------------------------------------------------------------------
(***************************************************************************)
(* Properties.                                                             *)
(***************************************************************************)
TypeOK ==
    /\ conn \in [Account -> {"exit", "open", "login", "lost"}]
    /\ session \in [Account -> Nat]
    /\ flist \in [Account -> SUBSET Account]
    /\ table \in [Account -> SUBSET Account]
    /\ hist \in Histories
    /\ gui \in [Account -> SwapMsgs \union {NoMsg}]
    /\ hv \in [Account -> SwapMsgs \union {NoMsg}]
    /\ replay \in [Account -> Seq(Relayed)]
    /\ toServer \in [Account -> Seq(Relayed \union Asks)]
    /\ toClient \in [Account -> Seq(Relayed \union Answers)]
    /\ online \in SUBSET Account
    /\ cache \in [Account -> Seq(Relayed)]
    /\ pals \in SUBSET (Account \X Account)
    /\ dropped \in SUBSET (Account \X Account \X Time)

\* a has sent b a message at t / b has stored a's message of t.
Sent(a, b, t) == hist[a][b][t].object = "AR"
Stored(a, b, t) == hist[b][a][t].object = "AL"
Confirmed(a, b, t) == Sent(a, b, t) /\ hist[a][b][t].feed_back # 0

\* What a history shows as received from a friend is a message that friend's
\* own history shows as sent, at the same time and with the same text, however
\* often the server delivers it and whenever either process ends: ask_swap_msg
\* stores before it sends, and send_time is a key.
ReceivedWasSent ==
    \A a, b \in Account, t \in Time :
        Stored(a, b, t) => /\ Sent(a, b, t)
                           /\ hist[b][a][t].content = hist[a][b][t].content

\* A received row keeps feed_back == send_time, as create_history documents:
\* a confirmation only ever updates a sent row, although update_feed_back
\* selects by send_time alone in a table that holds both kinds.
ReceivedFeedBack ==
    \A a, b \in Account, t \in Time :
        Stored(a, b, t) => hist[b][a][t].feed_back = t

\* A message confirmed at its sender was handled by its receiver, which has
\* stored it or has failed to: no confirmation is invented or misdirected.
ConfirmedWasHandled ==
    \A a, b \in Account, t \in Time :
        Confirmed(a, b, t) => Stored(a, b, t) \/ <<a, b, t>> \in dropped

\* No step of any client removes or rewrites a row, or takes a confirmation
\* back: redelivered messages and late confirmations leave the history alone.
HistoryOnlyGrows ==
    [][\A a, b \in Account, t \in Time :
          hist[a][b][t] # NoRow =>
             /\ hist'[a][b][t].object = hist[a][b][t].object
             /\ hist'[a][b][t].content = hist[a][b][t].content
             /\ Confirmed(a, b, t) => Confirmed(a, b, t)']_vars

\* A message between two accounts that are logged in gets its confirmation,
\* also when its receiver was offline at first, unless a connection ends.
\* (It is about the first start of both: nothing is ever sent again.)
Confirmation ==
    \A a, b \in Account, t \in Time :
        (/\ Sent(a, b, t)
         /\ conn[a] = "login" /\ session[a] = 1
         /\ conn[b] = "login" /\ session[b] = 1)
            ~> (Confirmed(a, b, t) \/ conn[a] # "login" \/ conn[b] # "login")

\* The exchange as qweb_client.h documents it: the receiver confirms the
\* message and adds it to its history.
ConfirmedIsStored ==
    \A a, b \in Account, t \in Time :
        Confirmed(a, b, t) => Stored(a, b, t)
-----------------------------------------------------------------------------
(***************************************************************************)
(* The exchange implements Delivery.                                       *)
(***************************************************************************)
Messages == Account \X Account \X Time

Promise == INSTANCE Delivery WITH
    sent <- {m \in Messages : Sent(m[1], m[2], m[3])},
    stored <- {m \in Messages : Stored(m[1], m[2], m[3])},
    confirmed <- {m \in Messages : Confirmed(m[1], m[2], m[3])}

\* Every step of the clients and of the server is a step of Delivery or leaves
\* its state alone: a message is recorded by its sender, then recorded or
\* dropped by its receiver, then confirmed, and never the other way round.
ImplementsDelivery == Promise!Spec
-----------------------------------------------------------------------------
(***************************************************************************)
(* The inductive invariant.                                                *)
(***************************************************************************)
Frames(q) == {q[i] : i \in DOMAIN q}

Handled(a, b, t) == Stored(a, b, t) \/ <<a, b, t>> \in dropped

\* A message in transit is recorded as sent, with its text; a confirmation in
\* transit is about a message recorded as sent, which its receiver handled.
Vouched(m) ==
    /\ m.type = "swap_msg" =>
           /\ Sent(m.source, m.target, m.time_to)
           /\ hist[m.source][m.target][m.time_to].content = m.content
    /\ m.type = "swap_msg_back" =>
           /\ Sent(m.target, m.source, m.time_to)
           /\ Handled(m.target, m.source, m.time_to)

Inbound(a, m) ==
    /\ Vouched(m)
    /\ m.type \in {"swap_msg", "swap_msg_back"} => m.target = a

\* Every frame, wherever it waits, is vouched for by the histories and waits
\* for the account it is addressed to; a message whose confirmation is still
\* to be sent has been handled.
FramesVouched ==
    \A a \in Account :
        /\ \A m \in Frames(toServer[a]) : Vouched(m)
        /\ \A m \in Frames(cache[a]) \union Frames(replay[a]) : Inbound(a, m)
        /\ \A m \in Frames(toClient[a]) :
               /\ Inbound(a, m)
               /\ m.type = "swap_cache_back" =>
                      \A n \in Frames(m.vec) : Inbound(a, n)
        /\ \A m \in {gui[a]} \ {NoMsg} : Vouched(m)
        /\ \A m \in {hv[a]} \ {NoMsg} :
               /\ Inbound(a, m)
               /\ Handled(m.source, a, m.time_to)

IInv ==
    /\ TypeOK
    /\ FramesVouched
    /\ ReceivedWasSent
    /\ ReceivedFeedBack
    /\ ConfirmedWasHandled
=============================================================================
