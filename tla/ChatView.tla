------------------------------- MODULE ChatView -------------------------------
(***************************************************************************)
(* The chat windows of one client: wid_friend_list, wid_chat and           *)
(* sqlite_read_history on the GUI thread, fed by task_swap_msg on the      *)
(* libhv thread.  The two threads share the history tables and the queue   *)
(* of sn_recv_msg signals; everything else belongs to the GUI thread.      *)
(*                                                                         *)
(* Reading a history is not atomic: read_history and read_history_non_read *)
(* select rows, then clear non_read row by row, and only then are the rows *)
(* shown.  The libhv thread inserts and signals in between, and the        *)
(* process may end at any point.                                           *)
(***************************************************************************)
EXTENDS Naturals, Sequences

CONSTANTS Friend,       \* the friends in the list, each with a history table
          Time,         \* millisecond clock readings
          NoFriend,     \* no chat window is shown
          MaxSignal,    \* bound: sn_recv_msg signals waiting
          MaxSession    \* bound: how often the program is started

ASSUME ChatViewAssumption ==
    /\ NoFriend \notin Friend
    /\ MaxSignal \in Nat
    /\ MaxSession \in Nat

VARIABLES
    hist,       \* hist[f][t]: row of table history_f with send_time t
    run,        \* "on", or how the process ended
    session,    \* number of starts so far
    hv,         \* message task_swap_msg has inserted and not yet signalled
    signals,    \* queued sn_recv_msg: the friend each message is from
    chat,       \* friends whose wid_chat exists
    show,       \* friend whose wid_chat is visible (_show_friend)
    read,       \* the history being read
    bubble      \* bubble[f][o][t]: bubbles of side o, time t in f's window

vars == <<hist, run, session, hv, signals, chat, show, read, bubble>>

NoRow == [object |-> "none"]
Row == [object : {"AL", "AR"}, non_read : {0, 1}]
NoMsg == [friend |-> NoFriend]

\* No history is being read / the rows of f selected (got), those of them whose
\* non_read is still to be cleared (todo), and whether f is then made visible.
NoRead == [friend |-> NoFriend]
Reading(f, rows, raise) ==
    [friend |-> f, got |-> rows, todo |-> rows, raise |-> raise]

NoBubbles == [o \in {"AL", "AR"} |-> [t \in Time |-> 0]]

GuiIdle == run = "on" /\ read = NoRead

\* sqlite_history::select_history and select_non_read.
SelectHistory(f) == {t \in Time : hist[f][t] # NoRow}
SelectNonRead(f) == {t \in SelectHistory(f) : hist[f][t].non_read = 1}

\* Mutant: INSERT OR REPLACE.
InsertHistory_Replace(f, t, row) == [hist EXCEPT ![f][t] = row]

\* sqlite_history::insert_history: send_time is the primary key.
InsertHistory(f, t, row) ==
    IF hist[f][t] = NoRow THEN [hist EXCEPT ![f][t] = row] ELSE hist
-----------------------------------------------------------------------------
Init ==
    /\ hist = [f \in Friend |-> [t \in Time |-> NoRow]]
    /\ run = "exit"
    /\ session = 0
    /\ hv = NoMsg
    /\ signals = <<>>
    /\ chat = {}
    /\ show = NoFriend
    /\ read = NoRead
    /\ bubble = [f \in Friend |-> NoBubbles]

\* The program is started and the login has filled the friend list.
Start ==
    /\ run # "on"
    /\ session < MaxSession
    /\ run' = "on"
    /\ session' = session + 1
    /\ UNCHANGED <<hist, hv, signals, chat, show, read, bubble>>

\* The process ends; only the database remains.
End(how) ==
    /\ run = "on"
    /\ run' = how
    /\ hv' = NoMsg
    /\ signals' = <<>>
    /\ chat' = {}
    /\ show' = NoFriend
    /\ read' = NoRead
    /\ bubble' = [f \in Friend |-> NoBubbles]
    /\ UNCHANGED <<hist, session>>
-----------------------------------------------------------------------------
(***************************************************************************)
(* libhv thread.                                                           *)
(***************************************************************************)
\* task_swap_msg inserts the message; if its send_time is taken it is lost.
TaskSwapMsg(f, t) ==
    /\ run = "on"
    /\ hv = NoMsg
    /\ Len(signals) < MaxSignal
    /\ hist' = InsertHistory(f, t, [object |-> "AL", non_read |-> 1])
    /\ hv' = [friend |-> f, time |-> t]
    /\ UNCHANGED <<run, session, signals, chat, show, read, bubble>>

\* ... and emits sn_recv_msg, which is queued for the GUI thread.
EmitRecvMsg ==
    /\ hv # NoMsg
    /\ signals' = Append(signals, hv.friend)
    /\ hv' = NoMsg
    /\ UNCHANGED <<hist, run, session, chat, show, read, bubble>>
-----------------------------------------------------------------------------
(***************************************************************************)
(* GUI thread.                                                             *)
(***************************************************************************)
\* Mutant: make_chat does not store the window in ct->chat.
Click_NotKept(f) ==
    /\ GuiIdle
    /\ read' = Reading(f, SelectHistory(f), TRUE)
    /\ UNCHANGED <<hist, run, session, hv, signals, chat, show, bubble>>

\* A click on a friend's button.  The first one makes the chat window and
\* starts to read the whole history (make_chat); the window becomes visible
\* when that is done.
Click(f) ==
    /\ GuiIdle
    /\ IF f \in chat
       THEN /\ show' = f
            /\ UNCHANGED <<chat, read>>
       ELSE /\ chat' = chat \union {f}
            /\ read' = Reading(f, SelectHistory(f), TRUE)
            /\ UNCHANGED show
    /\ UNCHANGED <<hist, run, session, hv, signals, bubble>>

\* Mutant: every signal reads the whole history.
AddRecvMsg_All ==
    /\ GuiIdle
    /\ signals # <<>>
    /\ signals' = Tail(signals)
    /\ LET f == Head(signals)
       IN read' = IF f \in chat /\ show = f
                  THEN Reading(f, SelectHistory(f), FALSE)
                  ELSE read
    /\ UNCHANGED <<hist, run, session, hv, chat, show, bubble>>

\* Mutant: the first signal stands for all that wait.
AddRecvMsg_Coalesced ==
    /\ GuiIdle
    /\ signals # <<>>
    /\ signals' = <<>>
    /\ LET f == Head(signals)
       IN read' = IF f \in chat /\ show = f
                  THEN Reading(f, SelectNonRead(f), FALSE)
                  ELSE read
    /\ UNCHANGED <<hist, run, session, hv, chat, show, bubble>>

\* The slot of sn_recv_msg (add_recv_msg): if the message is from the friend
\* whose window is visible, read what is unread; otherwise do nothing.
AddRecvMsg ==
    /\ GuiIdle
    /\ signals # <<>>
    /\ signals' = Tail(signals)
    /\ LET f == Head(signals)
       IN read' = IF f \in chat /\ show = f
                  THEN Reading(f, SelectNonRead(f), FALSE)
                  ELSE read
    /\ UNCHANGED <<hist, run, session, hv, chat, show, bubble>>

\* Mutant: the UPDATE has no WHERE clause.
UpdateNonRead_Table(t) ==
    /\ read # NoRead
    /\ t \in read.todo
    /\ hist' = [hist EXCEPT ![read.friend] = [u \in Time |->
                   IF @[u] = NoRow THEN NoRow ELSE [@[u] EXCEPT !.non_read = 0]]]
    /\ read' = [read EXCEPT !.todo = @ \ {t}]
    /\ UNCHANGED <<run, session, hv, signals, chat, show, bubble>>

\* Mutant: the rows are shown and never marked.
UpdateNonRead_Skipped(t) ==
    /\ read # NoRead
    /\ t \in read.todo
    /\ read' = [read EXCEPT !.todo = @ \ {t}]
    /\ UNCHANGED <<hist, run, session, hv, signals, chat, show, bubble>>

\* read_history: clear non_read of one of the selected rows.
UpdateNonRead(t) ==
    /\ read # NoRead
    /\ t \in read.todo
    /\ hist' = [hist EXCEPT ![read.friend][t].non_read = 0]
    /\ read' = [read EXCEPT !.todo = @ \ {t}]
    /\ UNCHANGED <<run, session, hv, signals, chat, show, bubble>>

\* set_history_msg shows the selected rows; a click also raises the window.
SetHistoryMsg ==
    /\ read # NoRead
    /\ read.todo = {}
    /\ LET f == read.friend
       IN /\ bubble' = [bubble EXCEPT ![f] =
                 [o \in {"AL", "AR"} |-> [t \in Time |->
                     IF t \in read.got /\ hist[f][t].object = o
                     THEN bubble[f][o][t] + 1 ELSE bubble[f][o][t]]]]
          /\ show' = IF read.raise THEN f ELSE show
    /\ read' = NoRead
    /\ UNCHANGED <<hist, run, session, hv, signals, chat>>

\* send_text in the visible window: wid_chat adds the bubble, then ask_swap_msg
\* stores the message, and sends it if that succeeds (bound: one bubble per
\* time, though two messages can be sent in one millisecond).
SendText(t) ==
    /\ GuiIdle
    /\ show # NoFriend
    /\ bubble[show]["AR"][t] = 0
    /\ bubble' = [bubble EXCEPT ![show]["AR"][t] = @ + 1]
    /\ hist' = InsertHistory(show, t, [object |-> "AR", non_read |-> 0])
    /\ UNCHANGED <<run, session, hv, signals, chat, show, read>>

\* An image dropped on the visible window is sent with type File, for which
\* make_msg has no widget: it calls update_msg through a null pointer.
SendDrop ==
    /\ GuiIdle
    /\ show # NoFriend
    /\ End("crash")
-----------------------------------------------------------------------------
Reader == (\E t \in Time : UpdateNonRead(t)) \/ SetHistoryMsg

Next ==
    \/ Start
    \/ End("exit")
    \/ \E f \in Friend : Click(f)
    \/ \E f \in Friend, t \in Time : TaskSwapMsg(f, t)
    \/ EmitRecvMsg
    \/ AddRecvMsg
    \/ Reader
    \/ \E t \in Time : SendText(t)
    \/ SendDrop

Spec == Init /\ [][Next]_vars

\* The two threads run; the event loop serves queued signals.  The user and
\* the network owe nothing.
Fairness ==
    /\ WF_vars(EmitRecvMsg)
    /\ WF_vars(Reader)
    /\ WF_vars(AddRecvMsg)

FairSpec == Spec /\ Fairness
-----------------------------------------------------------------------------
(***************************************************************************)
(* Properties.                                                             *)
(***************************************************************************)
TypeOK ==
    /\ hist \in [Friend -> [Time -> Row \union {NoRow}]]
    /\ run \in {"on", "exit", "crash"}
    /\ session \in Nat
    /\ hv \in [friend : Friend, time : Time] \union {NoMsg}
    /\ signals \in Seq(Friend)
    /\ chat \in SUBSET Friend
    /\ show \in chat \union {NoFriend}
    /\ read \in [friend : Friend, got : SUBSET Time, todo : SUBSET Time,
                 raise : BOOLEAN] \union {NoRead}
    /\ bubble \in [Friend -> [{"AL", "AR"} -> [Time -> Nat]]]

Received(f, t) == hist[f][t].object = "AL"
Pending(f, t) == read.friend = f /\ t \in read.got

\* A received message is never shown twice in a window: neither by the signal
\* of a message that make_chat has already read, nor by a signal that finds
\* its message read on behalf of an earlier one.
ShownOnce ==
    \A f \in Friend, t \in Time : bubble[f]["AL"][t] <= 1

\* A window that exists shows every received message that counts as read, and
\* every stored message of the user, or is about to: non_read is never cleared
\* of a row that is then not shown.
ReadIsShown ==
    \A f \in chat, t \in Time :
        /\ Received(f, t) /\ hist[f][t].non_read = 0 =>
               bubble[f]["AL"][t] > 0 \/ Pending(f, t)
        /\ hist[f][t].object = "AR" =>
               bubble[f]["AR"][t] > 0 \/ Pending(f, t)

\* A received message that is shown counts as read, whatever is inserted
\* while the history is read.
ShownIsRead ==
    \A f \in Friend, t \in Time :
        bubble[f]["AL"][t] > 0 => Received(f, t) /\ hist[f][t].non_read = 0

\* A read message never becomes unread again, not even by redelivery or by a
\* restart of the program.
ReadStaysRead ==
    [][\A f \in Friend, t \in Time :
          (Received(f, t) /\ hist[f][t].non_read = 0)
             => (Received(f, t) /\ hist[f][t].non_read = 0)']_vars

\* A message that arrives in the visible conversation is shown, unless the user
\* turns to another one or the process ends.
ArrivalIsShown ==
    \A f \in Friend, t \in Time :
        (hv = [friend |-> f, time |-> t] /\ Received(f, t) /\ show = f)
            ~> (bubble[f]["AL"][t] = 1 \/ show # f)
-----------------------------------------------------------------------------
(***************************************************************************)
(* The inductive invariant.                                                *)
(***************************************************************************)
\* What the GUI thread has read and not yet shown: rows that exist, none of
\* them received and already shown, those past the update all read.
ReadingOK ==
    read # NoRead =>
        /\ read.friend \in chat
        /\ read.todo \subseteq read.got
        /\ \A t \in read.got :
              /\ hist[read.friend][t] # NoRow
              /\ bubble[read.friend]["AL"][t] = 0
              /\ t \notin read.todo => hist[read.friend][t].non_read = 0

\* A friend without a window has no bubbles, and sent rows are never unread.
IdleOK ==
    \A f \in Friend, t \in Time :
        /\ f \notin chat => bubble[f]["AL"][t] = 0
        /\ hist[f][t].object = "AR" => hist[f][t].non_read = 0

IInv ==
    /\ TypeOK
    /\ ReadingOK
    /\ IdleOK
    /\ ShownOnce
    /\ ReadIsShown
    /\ ShownIsRead
=============================================================================
