----------------------------- MODULE SwapMsgProof -----------------------------
(***************************************************************************)
(* Proofs about SwapMsg, for any number of accounts, times, texts and      *)
(* sessions.                                                               *)
(***************************************************************************)
EXTENDS SwapMsg, TLAPS

\* Facts about the queues the frames wait in: what Append adds, what Head and
\* Tail return.
LEMMA FramesAppend ==
    ASSUME NEW S, NEW q \in Seq(S), NEW m \in S
    PROVE  /\ Append(q, m) \in Seq(S)
           /\ Frames(Append(q, m)) = Frames(q) \union {m}
<1>1. Append(q, m) \in Seq(S)
  OBVIOUS
<1>2. /\ Len(q) \in Nat
      /\ DOMAIN q = 1..Len(q)
      /\ DOMAIN Append(q, m) = 1..(Len(q) + 1)
      /\ Append(q, m)[Len(q) + 1] = m
      /\ \A i \in 1..Len(q) : Append(q, m)[i] = q[i]
  OBVIOUS
<1>3. Frames(Append(q, m)) \subseteq Frames(q) \union {m}
  BY <1>2 DEF Frames
<1>4. Frames(q) \union {m} \subseteq Frames(Append(q, m))
  BY <1>2 DEF Frames
<1>5. QED
  BY <1>1, <1>3, <1>4

\* The head of a queue is one of its frames, its tail has no other frames.
LEMMA FramesHeadTail ==
    ASSUME NEW S, NEW q \in Seq(S), q # <<>>
    PROVE  /\ Head(q) \in Frames(q)
           /\ Head(q) \in S
           /\ Tail(q) \in Seq(S)
           /\ Frames(Tail(q)) \subseteq Frames(q)
<1>1. /\ Len(q) \in Nat
      /\ Len(q) > 0
      /\ DOMAIN q = 1..Len(q)
      /\ Tail(q) \in Seq(S)
      /\ Head(q) = q[1]
      /\ Len(Tail(q)) = Len(q) - 1
      /\ DOMAIN Tail(q) = 1..Len(Tail(q))
      /\ \A i \in 1..(Len(q) - 1) : Tail(q)[i] = q[i + 1]
  OBVIOUS
<1>2. Head(q) \in Frames(q) /\ Head(q) \in S
  BY <1>1 DEF Frames
<1>3. Frames(Tail(q)) \subseteq Frames(q)
  <2>1. SUFFICES ASSUME NEW i \in 1..(Len(q) - 1)
                 PROVE  q[i + 1] \in Frames(q)
    BY <1>1 DEF Frames
  <2>2. i + 1 \in 1..Len(q)
    BY <1>1
  <2>3. QED
    BY <1>1, <2>2 DEF Frames
<1>4. QED
  BY <1>1, <1>2, <1>3

\* An empty queue holds no frames.
LEMMA FramesEmpty ==
    ASSUME NEW S
    PROVE  <<>> \in Seq(S) /\ Frames(<<>>) = {}
BY DEF Frames

\* The frames of a queue are of the type of its elements.
LEMMA FramesType ==
    ASSUME NEW S, NEW q \in Seq(S)
    PROVE  Frames(q) \subseteq S
BY DEF Frames
-----------------------------------------------------------------------------
(***************************************************************************)
(* Type correctness.                                                       *)
(***************************************************************************)
\* What a frame that is dispatched looks like, by its type.
LEMMA FrameType ==
    ASSUME TypeOK, NEW a \in Account, NEW type,
           type \in {"swap_msg", "swap_msg_back", "ac_login_back",
                     "swap_cache_back", "ac_update_friends_back", "error_info"},
           Dispatch(a, type)
    PROVE  /\ Frame(a) \in Relayed \union Answers
           /\ replay[a] # <<>> => Frame(a) \in Frames(replay[a])
           /\ replay[a] = <<>> => Frame(a) \in Frames(toClient[a])
           /\ type = "swap_msg" => Frame(a) \in SwapMsgs
           /\ type = "swap_msg_back" => Frame(a) \in SwapMsgBacks
           /\ type = "ac_login_back" => Frame(a).friends \in SUBSET Account
           /\ type = "swap_cache_back" => /\ replay[a] = <<>>
                                          /\ Frame(a).vec \in Seq(Relayed)
<1>1. /\ replay[a] # <<>> => /\ Head(replay[a]) \in Relayed
                             /\ Head(replay[a]) \in Frames(replay[a])
      /\ toClient[a] # <<>> => /\ Head(toClient[a]) \in Relayed \union Answers
                               /\ Head(toClient[a]) \in Frames(toClient[a])
  BY FramesHeadTail DEF TypeOK
<1>2. /\ replay[a] # <<>> => Frame(a) = Head(replay[a])
      /\ replay[a] = <<>> => /\ toClient[a] # <<>>
                             /\ Frame(a) = Head(toClient[a])
      /\ Frame(a).type = type
  BY DEF Dispatch, Frame
<1>3. Frame(a) \in Relayed \union Answers
  BY <1>1, <1>2
<1>4. type = "swap_cache_back" => replay[a] = <<>>
  BY <1>1, <1>2 DEF Relayed, SwapMsgs, SwapMsgBacks
<1>5. QED
  BY <1>1, <1>2, <1>3, <1>4 DEF Relayed, SwapMsgs, SwapMsgBacks, Answers

\* Consume leaves well-typed queues with no new frames.
LEMMA ConsumeQueues ==
    ASSUME TypeOK, NEW a \in Account,
           replay[a] # <<>> \/ toClient[a] # <<>>, Consume(a)
    PROVE  /\ replay' \in [Account -> Seq(Relayed)]
           /\ toClient' \in [Account -> Seq(Relayed \union Answers)]
           /\ \A c \in Account : /\ Frames(replay'[c]) \subseteq Frames(replay[c])
                                 /\ Frames(toClient'[c]) \subseteq Frames(toClient[c])
<1>1. CASE replay[a] # <<>>
  <2>1. /\ Tail(replay[a]) \in Seq(Relayed)
        /\ Frames(Tail(replay[a])) \subseteq Frames(replay[a])
    BY <1>1, FramesHeadTail DEF TypeOK
  <2>2. QED
    BY <1>1, <2>1 DEF TypeOK, Consume
<1>2. CASE replay[a] = <<>>
  <2>1. /\ Tail(toClient[a]) \in Seq(Relayed \union Answers)
        /\ Frames(Tail(toClient[a])) \subseteq Frames(toClient[a])
    BY <1>2, FramesHeadTail DEF TypeOK
  <2>2. QED
    BY <1>2, <2>1 DEF TypeOK, Consume
<1>3. QED
  BY <1>1, <1>2

\* A send adds the frame to the sender's queue, or is lost.
LEMMA SendQueue ==
    ASSUME TypeOK, NEW a \in Account, NEW m \in Relayed \union Asks, Send(a, m)
    PROVE  /\ toServer' \in [Account -> Seq(Relayed \union Asks)]
           /\ \A c \in Account :
                 Frames(toServer'[c]) \subseteq Frames(toServer[c]) \union {m}
<1> DEFINE S == Relayed \union Asks
<1>1. toServer[a] \in Seq(S) /\ m \in S
  BY DEF TypeOK
<1>2. /\ Append(toServer[a], m) \in Seq(S)
      /\ Frames(Append(toServer[a], m)) = Frames(toServer[a]) \union {m}
  <2> HIDE DEF S
  <2>1. QED
    BY <1>1, FramesAppend
<1>3. QED
  BY <1>2 DEF TypeOK, Send

\* The server takes the next frame off a connection.
LEMMA SrvReadsQueue ==
    ASSUME TypeOK, NEW a \in Account, NEW type,
           type \in {"ac_login", "swap_cache", "swap_msg", "swap_msg_back"},
           SrvReads(a, type)
    PROVE  /\ toServer' \in [Account -> Seq(Relayed \union Asks)]
           /\ \A c \in Account : Frames(toServer'[c]) \subseteq Frames(toServer[c])
           /\ Head(toServer[a]) \in Frames(toServer[a])
           /\ type \in {"swap_msg", "swap_msg_back"} => Head(toServer[a]) \in Relayed
<1>1. /\ Head(toServer[a]) \in Frames(toServer[a])
      /\ Head(toServer[a]) \in Relayed \union Asks
      /\ Tail(toServer[a]) \in Seq(Relayed \union Asks)
      /\ Frames(Tail(toServer[a])) \subseteq Frames(toServer[a])
  BY FramesHeadTail DEF TypeOK, SrvReads
<1>2. QED
  BY <1>1 DEF TypeOK, SrvReads, Relayed, Asks, SwapMsgs, SwapMsgBacks

\* A frame put into an account's queue of answers.
LEMMA AnswerQueue ==
    ASSUME TypeOK, NEW a \in Account, NEW m \in Relayed \union Answers,
           toClient' = [toClient EXCEPT ![a] = Append(@, m)]
    PROVE  /\ toClient' \in [Account -> Seq(Relayed \union Answers)]
           /\ \A c \in Account : c # a => toClient'[c] = toClient[c]
           /\ Frames(toClient'[a]) = Frames(toClient[a]) \union {m}
<1> DEFINE S == Relayed \union Answers
<1>1. toClient[a] \in Seq(S) /\ m \in S
  BY DEF TypeOK
<1>2. /\ Append(toClient[a], m) \in Seq(S)
      /\ Frames(Append(toClient[a], m)) = Frames(toClient[a]) \union {m}
  <2> HIDE DEF S
  <2>1. QED
    BY <1>1, FramesAppend
<1>3. QED
  BY <1>2 DEF TypeOK

\* Rows stay rows: what an insert and an update make of a history.
LEMMA HistType ==
    ASSUME hist \in Histories,
           NEW a \in Account, NEW b \in Account, NEW t \in Time
    PROVE  /\ \A row \in Row : InsertHistory(a, b, t, row) \in Histories
           /\ \A ok \in Clock : UpdateFeedBack(a, b, t, ok) \in Histories
<1>1. ASSUME NEW row \in Row
      PROVE  InsertHistory(a, b, t, row) \in Histories
  BY DEF InsertHistory, Histories
<1>2. ASSUME NEW ok \in Clock, hist[a][b][t] # NoRow
      PROVE  [hist EXCEPT ![a][b][t].feed_back = ok] \in Histories
  <2>1. hist[a][b][t] \in Row
    BY <1>2 DEF Histories
  <2>2. [hist[a][b][t] EXCEPT !.feed_back = ok] \in Row
    BY <1>2, <2>1 DEF Row
  <2>3. QED
    BY <2>2 DEF Histories
<1>3. QED
  BY <1>1, <1>2 DEF UpdateFeedBack

\* Every step preserves the types of the state.
LEMMA TypeStep == TypeOK /\ [Next]_vars => TypeOK'
<1> SUFFICES ASSUME TypeOK, [Next]_vars PROVE TypeOK'
  OBVIOUS
<1> USE DEF procVars, dbVars, netVars, srvVars
<1>1. ASSUME NEW a \in Account, Start(a) PROVE TypeOK'
  <2> DEFINE S == Relayed \union Asks
             m == [type |-> "ac_login"]
  <2>1. toServer[a] \in Seq(S) /\ m \in S
    BY DEF TypeOK, Asks
  <2>2. Append(toServer[a], m) \in Seq(S)
    <3> HIDE DEF S, m
    <3>1. QED
      BY <2>1, FramesAppend
  <2>3. toServer' \in [Account -> Seq(S)]
    BY <1>1, <2>2 DEF TypeOK, Start
  <2>4. QED
    BY <1>1, <2>3 DEF TypeOK, Start
<1>2. ASSUME NEW a \in Account, Exit(a) PROVE TypeOK'
  BY <1>2, FramesEmpty DEF TypeOK, Exit, CutOff
<1>3. ASSUME NEW a \in Account, NEW b \in Account, NEW t \in Time,
             NEW c \in Content, AskSwapMsg(a, b, t, c)
      PROVE  TypeOK'
  <2>1. [object |-> "AR", feed_back |-> 0, content |-> c] \in Row
    BY DEF Row
  <2>2. hist' \in Histories
    BY <1>3, <2>1, HistType DEF AskSwapMsg, TypeOK
  <2>3. [type |-> "swap_msg", source |-> a, target |-> b, time_to |-> t,
         content |-> c] \in SwapMsgs
    BY DEF SwapMsgs
  <2>4. gui' \in [Account -> SwapMsgs \union {NoMsg}]
    BY <1>3, <2>3 DEF AskSwapMsg, TypeOK
  <2>5. QED
    BY <1>3, <2>2, <2>4 DEF AskSwapMsg, TypeOK
<1>4. ASSUME NEW a \in Account, Disconnect(a) PROVE TypeOK'
  BY <1>4, FramesEmpty DEF TypeOK, Disconnect, CutOff
<1>5. ASSUME NEW a \in Account, SendSwapMsg(a) PROVE TypeOK'
  <2>1. gui[a] \in Relayed \union Asks
    BY <1>5 DEF TypeOK, SendSwapMsg, Relayed
  <2>2. toServer' \in [Account -> Seq(Relayed \union Asks)]
    BY <1>5, <2>1, SendQueue DEF SendSwapMsg
  <2>3. QED
    BY <1>5, <2>2 DEF TypeOK, SendSwapMsg
<1>6. ASSUME NEW a \in Account, TaskAcLoginBack(a) PROVE TypeOK'
  <2>1. Frame(a).friends \in SUBSET Account
    BY <1>6, FrameType DEF TaskAcLoginBack
  <2>2. [type |-> "swap_cache"] \in Relayed \union Asks
    BY DEF Asks
  <2>3. toServer' \in [Account -> Seq(Relayed \union Asks)]
    BY <1>6, <2>2, SendQueue DEF TaskAcLoginBack
  <2>4. /\ replay' \in [Account -> Seq(Relayed)]
        /\ toClient' \in [Account -> Seq(Relayed \union Answers)]
    BY <1>6, ConsumeQueues DEF TaskAcLoginBack, Dispatch
  <2>5. QED
    BY <1>6, <2>1, <2>3, <2>4 DEF TypeOK, TaskAcLoginBack
<1>7. ASSUME NEW a \in Account, TaskSwapCacheBack(a) PROVE TypeOK'
  <2>1. replay[a] = <<>> /\ Frame(a).vec \in Seq(Relayed) /\ toClient[a] # <<>>
    BY <1>7, FrameType DEF TaskSwapCacheBack, Dispatch
  <2>2. Tail(toClient[a]) \in Seq(Relayed \union Answers)
    BY <2>1, FramesHeadTail DEF TypeOK
  <2>3. QED
    BY <1>7, <2>1, <2>2 DEF TypeOK, TaskSwapCacheBack
<1>8. ASSUME NEW a \in Account, TaskSwapMsg(a) PROVE TypeOK'
  <2> DEFINE m == Frame(a)
             row == [object |-> "AL", feed_back |-> m.time_to,
                     content |-> m.content]
  <2>1. m \in SwapMsgs
    BY <1>8, FrameType DEF TaskSwapMsg
  <2>2. /\ m.source \in Account /\ m.time_to \in Time
        /\ row \in Row
    BY <2>1, SwapMsgAssumption DEF SwapMsgs, Row
  <2>3. hist' \in Histories
    <3>1. \/ hist' = InsertHistory(a, m.source, m.time_to, row)
          \/ hist' = hist
      BY <1>8 DEF TaskSwapMsg
    <3>2. hist \in Histories
      BY DEF TypeOK
    <3> HIDE DEF m, row
    <3>3. QED
      BY <2>2, <3>1, <3>2, HistType
  <2>4. /\ replay' \in [Account -> Seq(Relayed)]
        /\ toClient' \in [Account -> Seq(Relayed \union Answers)]
    BY <1>8, ConsumeQueues DEF TaskSwapMsg, Dispatch
  <2>5. dropped' \in SUBSET (Account \X Account \X Time)
    BY <1>8, <2>2 DEF TypeOK, TaskSwapMsg
  <2>6. hv' \in [Account -> SwapMsgs \union {NoMsg}]
    BY <1>8, <2>1 DEF TypeOK, TaskSwapMsg
  <2>7. QED
    BY <1>8, <2>3, <2>4, <2>5, <2>6 DEF TypeOK, TaskSwapMsg
<1>9. ASSUME NEW a \in Account, NEW ok \in Clock, SendSwapMsgBack(a, ok)
      PROVE  TypeOK'
  <2> DEFINE m == [type |-> "swap_msg_back", source |-> hv[a].target,
                   target |-> hv[a].source, time_to |-> hv[a].time_to,
                   time_ok |-> ok]
  <2>1. m \in Relayed \union Asks
    BY <1>9 DEF TypeOK, SendSwapMsgBack, Relayed, SwapMsgs, SwapMsgBacks
  <2>2. toServer' \in [Account -> Seq(Relayed \union Asks)]
    BY <1>9, <2>1, SendQueue DEF SendSwapMsgBack
  <2>3. QED
    BY <1>9, <2>2 DEF TypeOK, SendSwapMsgBack
<1>10. ASSUME NEW a \in Account, TaskSwapMsgBack(a) PROVE TypeOK'
  <2> DEFINE m == Frame(a)
  <2>1. /\ m.source \in Account /\ m.time_to \in Time /\ m.time_ok \in Clock
    BY <1>10, FrameType DEF TaskSwapMsgBack, SwapMsgBacks
  <2>2. hist' \in Histories
    BY <1>10, <2>1, HistType DEF TypeOK, TaskSwapMsgBack
  <2>3. /\ replay' \in [Account -> Seq(Relayed)]
        /\ toClient' \in [Account -> Seq(Relayed \union Answers)]
    BY <1>10, ConsumeQueues DEF TaskSwapMsgBack, Dispatch
  <2>4. QED
    BY <1>10, <2>2, <2>3 DEF TypeOK, TaskSwapMsgBack
<1>11. ASSUME NEW a \in Account, TaskNoEffect(a) PROVE TypeOK'
  <2>1. /\ replay' \in [Account -> Seq(Relayed)]
        /\ toClient' \in [Account -> Seq(Relayed \union Answers)]
    BY <1>11, ConsumeQueues DEF TaskNoEffect, Dispatch
  <2>2. QED
    BY <1>11, <2>1 DEF TypeOK, TaskNoEffect
<1>12. ASSUME NEW a \in Account, SrvLogin(a) PROVE TypeOK'
  <2>1. toServer' \in [Account -> Seq(Relayed \union Asks)]
    BY <1>12, SrvReadsQueue DEF SrvLogin
  <2>2. /\ [type |-> "ac_login_back", friends |-> Friends(a)] \in Relayed \union Answers
        /\ [type |-> "error_info"] \in Relayed \union Answers
    BY DEF Answers, Friends
  <2>3. toClient' \in [Account -> Seq(Relayed \union Answers)]
    BY <1>12, <2>2, AnswerQueue DEF SrvLogin
  <2>4. QED
    BY <1>12, <2>1, <2>3 DEF TypeOK, SrvLogin
<1>13. ASSUME NEW a \in Account, SrvSwapCache(a) PROVE TypeOK'
  <2>1. toServer' \in [Account -> Seq(Relayed \union Asks)]
    BY <1>13, SrvReadsQueue DEF SrvSwapCache
  <2>2. [type |-> "swap_cache_back", vec |-> cache[a]] \in Relayed \union Answers
    BY DEF Answers, TypeOK
  <2>3. toClient' \in [Account -> Seq(Relayed \union Answers)]
    BY <1>13, <2>2, AnswerQueue DEF SrvSwapCache
  <2>4. cache' \in [Account -> Seq(Relayed)]
    <3>1. <<>> \in Seq(Relayed)
      BY FramesEmpty
    <3>2. QED
      BY <1>13, <3>1 DEF SrvSwapCache, TypeOK
  <2>5. QED
    BY <1>13, <2>1, <2>3, <2>4 DEF TypeOK, SrvSwapCache
<1>14. ASSUME NEW a \in Account, SrvForward(a) PROVE TypeOK'
  <2> DEFINE m == Head(toServer[a])
  <2>1. /\ toServer' \in [Account -> Seq(Relayed \union Asks)]
        /\ m \in Relayed
    BY <1>14, SrvReadsQueue DEF SrvForward
  <2>2. m.target \in Account
    BY <2>1 DEF Relayed, SwapMsgs, SwapMsgBacks
  <2>3. CASE m.target \in online
    <3>1. toClient' \in [Account -> Seq(Relayed \union Answers)]
      BY <1>14, <2>1, <2>2, <2>3, AnswerQueue DEF SrvForward
    <3>2. QED
      BY <1>14, <2>1, <2>3, <3>1 DEF TypeOK, SrvForward
  <2>4. CASE m.target \notin online
    <3>1. Append(cache[m.target], m) \in Seq(Relayed)
      BY <2>1, <2>2, FramesAppend DEF TypeOK
    <3>2. cache' \in [Account -> Seq(Relayed)]
      BY <1>14, <2>2, <2>4, <3>1 DEF TypeOK, SrvForward
    <3>3. QED
      BY <1>14, <2>1, <2>4, <3>2 DEF TypeOK, SrvForward
  <2>5. QED
    BY <2>3, <2>4
<1>15. ASSUME NEW a \in Account, NEW b \in Account, SrvUpdateFriends(a, b)
       PROVE  TypeOK'
  <2> DEFINE S == Relayed \union Answers
             m == [type |-> "ac_update_friends_back"]
  <2>1. m \in S /\ \A c \in Account : toClient[c] \in Seq(S)
    BY DEF Answers, TypeOK
  <2>2. \A c \in Account : Append(toClient[c], m) \in Seq(S)
    <3> HIDE DEF S, m
    <3>1. QED
      BY <2>1, FramesAppend
  <2>3. toClient' \in [Account -> Seq(S)]
    BY <1>15, <2>1, <2>2 DEF SrvUpdateFriends
  <2>4. pals' \in SUBSET (Account \X Account)
    BY <1>15 DEF TypeOK, SrvUpdateFriends
  <2>5. QED
    BY <1>15, <2>3, <2>4 DEF TypeOK, SrvUpdateFriends
<1>16. CASE UNCHANGED vars
  BY <1>16 DEF TypeOK, vars
<1>17. QED
  BY <1>1, <1>2, <1>3, <1>4, <1>5, <1>6, <1>7, <1>8, <1>9, <1>10, <1>11,
     <1>12, <1>13, <1>14, <1>15, <1>16
     DEF Next, User, Handlers, Server

\* The state of the clients, of their connections and of the server keeps its
\* types: in particular a history row is never half written.
THEOREM TypeCorrect == Spec => []TypeOK
<1>1. Init => TypeOK
  BY FramesEmpty DEF Init, TypeOK, Histories
<1>2. QED
  BY <1>1, TypeStep, PTL DEF Spec

\* Reading a history after an insert: the row, or what was there before.
LEMMA InsertRead ==
    ASSUME hist \in Histories,
           NEW a \in Account, NEW b \in Account, NEW t \in Time, NEW row,
           NEW a1 \in Account, NEW b1 \in Account, NEW t1 \in Time
    PROVE  InsertHistory(a, b, t, row)[a1][b1][t1] =
               IF a1 = a /\ b1 = b /\ t1 = t THEN row ELSE hist[a1][b1][t1]
BY DEF InsertHistory, Histories
-----------------------------------------------------------------------------
(***************************************************************************)
(* Rows are permanent, so what vouches for a frame does so for good.       *)
(***************************************************************************)
RowsKept ==
    /\ \A a, b \in Account, t \in Time :
          hist[a][b][t] # NoRow =>
             /\ hist'[a][b][t] # NoRow
             /\ hist'[a][b][t].object = hist[a][b][t].object
             /\ hist'[a][b][t].content = hist[a][b][t].content
             /\ Confirmed(a, b, t) => hist'[a][b][t].feed_back # 0
    /\ dropped \subseteq dropped'

\* No insert or update removes a row or changes who sent it, its text or the
\* fact that it is confirmed.
LEMMA HistoryStep == TypeOK /\ [Next]_vars => RowsKept
<1> SUFFICES ASSUME TypeOK, [Next]_vars PROVE RowsKept
  OBVIOUS
<1> USE DEF procVars, dbVars, netVars, srvVars
<1>1. hist \in Histories
  BY DEF TypeOK
<1>2. CASE UNCHANGED <<hist, dropped>>
  BY <1>2 DEF RowsKept, Confirmed, Sent
<1>3. ASSUME NEW a \in Account, NEW b \in Account, NEW t \in Time,
             NEW c \in Content, AskSwapMsg(a, b, t, c)
      PROVE  RowsKept
  <2>1. \A a1, b1 \in Account, t1 \in Time :
           hist[a1][b1][t1] # NoRow => hist'[a1][b1][t1] = hist[a1][b1][t1]
    BY <1>1, <1>3, InsertRead DEF AskSwapMsg, InsertOk
  <2>2. QED
    BY <1>3, <2>1 DEF RowsKept, AskSwapMsg, Confirmed
<1>4. ASSUME NEW a \in Account, TaskSwapMsg(a) PROVE RowsKept
  <2> DEFINE m == Frame(a)
             row == [object |-> "AL", feed_back |-> m.time_to,
                     content |-> m.content]
  <2>1. m.source \in Account /\ m.time_to \in Time
    BY <1>4, FrameType DEF TaskSwapMsg, SwapMsgs
  <2>2. dropped \subseteq dropped'
    BY <1>4 DEF TaskSwapMsg
  <2>3. \/ hist' = hist
        \/ /\ hist[a][m.source][m.time_to] = NoRow
           /\ hist' = InsertHistory(a, m.source, m.time_to, row)
    BY <1>4 DEF TaskSwapMsg, InsertOk
  <2> HIDE DEF m, row
  <2>4. \A a1, b1 \in Account, t1 \in Time :
           hist[a1][b1][t1] # NoRow => hist'[a1][b1][t1] = hist[a1][b1][t1]
    BY <1>1, <2>1, <2>3, InsertRead
  <2>5. QED
    BY <2>2, <2>4 DEF RowsKept, Confirmed
<1>5. ASSUME NEW a \in Account, TaskSwapMsgBack(a) PROVE RowsKept
  <2> DEFINE m == Frame(a)
             b == m.source
             t == m.time_to
             ok == m.time_ok
  <2>1. b \in Account /\ t \in Time /\ ok \in Clock
    BY <1>5, FrameType DEF TaskSwapMsgBack, SwapMsgBacks
  <2>2. hist' = UpdateFeedBack(a, b, t, ok) /\ dropped' = dropped
    BY <1>5 DEF TaskSwapMsgBack
  <2> HIDE DEF m, b, t, ok
  <2>3. ok # 0
    BY <2>1, SwapMsgAssumption
  <2>4. CASE hist' = hist
    BY <1>2, <2>2, <2>4
  <2>5. CASE hist[a][b][t] # NoRow /\ hist' = [hist EXCEPT ![a][b][t].feed_back = ok]
    <3>1. hist[a][b][t] \in Row
      BY <1>1, <2>1, <2>5 DEF Histories
    <3>2. /\ hist'[a][b][t] = [hist[a][b][t] EXCEPT !.feed_back = ok]
          /\ \A a1, b1 \in Account, t1 \in Time :
                \/ a1 = a /\ b1 = b /\ t1 = t
                \/ hist'[a1][b1][t1] = hist[a1][b1][t1]
      BY <1>1, <2>1, <2>5 DEF Histories
    <3>3. /\ hist'[a][b][t].object = hist[a][b][t].object
          /\ hist'[a][b][t].content = hist[a][b][t].content
          /\ hist'[a][b][t].feed_back = ok
          /\ hist'[a][b][t] # NoRow
      BY <3>1, <3>2 DEF Row, NoRow
    <3>4. ASSUME NEW a1 \in Account, NEW b1 \in Account, NEW t1 \in Time,
                 hist[a1][b1][t1] # NoRow
          PROVE  /\ hist'[a1][b1][t1] # NoRow
                 /\ hist'[a1][b1][t1].object = hist[a1][b1][t1].object
                 /\ hist'[a1][b1][t1].content = hist[a1][b1][t1].content
                 /\ Confirmed(a1, b1, t1) => hist'[a1][b1][t1].feed_back # 0
      <4>1. CASE a1 = a /\ b1 = b /\ t1 = t
        BY <2>3, <3>3, <4>1
      <4>2. CASE hist'[a1][b1][t1] = hist[a1][b1][t1]
        BY <3>4, <4>2 DEF Confirmed
      <4>3. QED
        BY <3>2, <4>1, <4>2
    <3>5. QED
      BY <2>2, <3>4 DEF RowsKept
  <2>6. QED
    BY <2>2, <2>4, <2>5 DEF UpdateFeedBack
<1>6. QED
  <2>1. UNCHANGED vars => UNCHANGED <<hist, dropped>>
    BY DEF vars
  <2>2. ASSUME NEW a \in Account,
               \/ Start(a) \/ Exit(a) \/ Disconnect(a) \/ SendSwapMsg(a)
               \/ TaskAcLoginBack(a) \/ TaskSwapCacheBack(a) \/ TaskNoEffect(a)
               \/ (\E ok \in Clock : SendSwapMsgBack(a, ok)) \/ Server(a)
        PROVE  UNCHANGED <<hist, dropped>>
    BY <2>2 DEF Start, Exit, Disconnect, SendSwapMsg, TaskAcLoginBack,
                TaskSwapCacheBack, TaskNoEffect, SendSwapMsgBack, Server,
                SrvLogin, SrvSwapCache, SrvForward
  <2>3. ASSUME NEW a \in Account, NEW b \in Account, SrvUpdateFriends(a, b)
        PROVE  UNCHANGED <<hist, dropped>>
    BY <2>3 DEF SrvUpdateFriends
  <2>4. QED
    BY <1>2, <1>3, <1>4, <1>5, <2>1, <2>2, <2>3 DEF Next, User, Handlers

\* A frame that is vouched for stays vouched for, and a message that was
\* handled stays handled.
LEMMA VouchedStable ==
    ASSUME TypeOK, RowsKept
    PROVE  /\ \A a, b \in Account, t \in Time : Sent(a, b, t) => Sent(a, b, t)'
           /\ \A a, b \in Account, t \in Time : Handled(a, b, t) => Handled(a, b, t)'
           /\ \A m \in Relayed \union Asks \union Answers : Vouched(m) => Vouched(m)'
           /\ \A m \in Relayed \union Asks \union Answers, a \in Account :
                 Inbound(a, m) => Inbound(a, m)'
<1>1. \A a, b \in Account, t \in Time : Sent(a, b, t) => Sent(a, b, t)'
  BY DEF RowsKept, Sent, NoRow
<1>2. \A a, b \in Account, t \in Time : Handled(a, b, t) => Handled(a, b, t)'
  BY DEF RowsKept, Handled, Stored, NoRow
<1>3. ASSUME NEW m \in Relayed \union Asks \union Answers, Vouched(m)
      PROVE  Vouched(m)'
  <2>1. CASE m.type = "swap_msg"
    <3>1. m \in SwapMsgs
      BY <2>1 DEF Relayed, SwapMsgBacks, Asks, Answers
    <3>2. m.source \in Account /\ m.target \in Account /\ m.time_to \in Time
      BY <3>1 DEF SwapMsgs
    <3>3. hist[m.source][m.target][m.time_to] # NoRow
      BY <1>3, <2>1 DEF Vouched, Sent, NoRow
    <3>4. QED
      BY <1>1, <1>3, <2>1, <3>2, <3>3 DEF Vouched, RowsKept
  <2>2. CASE m.type = "swap_msg_back"
    <3>1. m \in SwapMsgBacks
      BY <2>2 DEF Relayed, SwapMsgs, Asks, Answers
    <3>2. m.source \in Account /\ m.target \in Account /\ m.time_to \in Time
      BY <3>1 DEF SwapMsgBacks
    <3>3. QED
      BY <1>1, <1>2, <1>3, <2>2, <3>2 DEF Vouched
  <2>3. CASE m.type # "swap_msg" /\ m.type # "swap_msg_back"
    BY <2>3 DEF Vouched
  <2>4. QED
    BY <2>1, <2>2, <2>3
<1>4. QED
  BY <1>1, <1>2, <1>3 DEF Inbound

\* What every frame of the old queues still satisfies after the step.
LEMMA QueuesKept ==
    ASSUME TypeOK, FramesVouched, RowsKept, NEW a \in Account
    PROVE  /\ \A m \in Frames(toServer[a]) : Vouched(m)'
           /\ \A m \in Frames(cache[a]) \union Frames(replay[a]) : Inbound(a, m)'
           /\ \A m \in Frames(toClient[a]) :
                 /\ Inbound(a, m)'
                 /\ m.type = "swap_cache_back" =>
                        \A n \in Frames(m.vec) : Inbound(a, n)'
           /\ \A m \in {gui[a]} \ {NoMsg} : Vouched(m)'
           /\ \A m \in {hv[a]} \ {NoMsg} :
                 /\ Inbound(a, m)'
                 /\ Handled(m.source, a, m.time_to)'
<1>1. /\ Frames(toServer[a]) \subseteq Relayed \union Asks
      /\ Frames(cache[a]) \subseteq Relayed
      /\ Frames(replay[a]) \subseteq Relayed
      /\ Frames(toClient[a]) \subseteq Relayed \union Answers
  BY FramesType DEF TypeOK
<1>2. ASSUME NEW m \in Frames(toClient[a]), m.type = "swap_cache_back",
             NEW n \in Frames(m.vec)
      PROVE  Inbound(a, n)'
  <2>1. m.vec \in Seq(Relayed)
    BY <1>1, <1>2 DEF Relayed, SwapMsgs, SwapMsgBacks, Answers
  <2>2. n \in Relayed
    BY <2>1, FramesType
  <2>3. Inbound(a, n)
    BY <1>2 DEF FramesVouched
  <2>4. QED
    BY <2>2, <2>3, VouchedStable
<1>3. ASSUME NEW m \in {gui[a]} \ {NoMsg} PROVE Vouched(m)'
  BY VouchedStable DEF TypeOK, FramesVouched, Relayed
<1>4. ASSUME NEW m \in {hv[a]} \ {NoMsg}
      PROVE  Inbound(a, m)' /\ Handled(m.source, a, m.time_to)'
  <2>1. m \in SwapMsgs
    BY DEF TypeOK
  <2>2. m \in Relayed /\ m.source \in Account /\ m.time_to \in Time
    BY <2>1 DEF SwapMsgs, Relayed
  <2>3. Inbound(a, m) /\ Handled(m.source, a, m.time_to)
    BY DEF FramesVouched
  <2>4. QED
    BY <2>2, <2>3, VouchedStable
<1>5. QED
  BY <1>1, <1>2, <1>3, <1>4, VouchedStable DEF FramesVouched

\* Hence only the frames a step adds have to be vouched for.
LEMMA FramesFrom ==
    ASSUME TypeOK, FramesVouched, RowsKept,
           \A c \in Account :
              /\ \A m \in Frames(toServer'[c]) :
                    m \in Frames(toServer[c]) \/ Vouched(m)'
              /\ \A m \in Frames(cache'[c]) \union Frames(replay'[c]) :
                    m \in Frames(cache[c]) \union Frames(replay[c]) \/ Inbound(c, m)'
              /\ \A m \in Frames(toClient'[c]) :
                    \/ m \in Frames(toClient[c])
                    \/ /\ Inbound(c, m)'
                       /\ m.type = "swap_cache_back" =>
                             \A n \in Frames(m.vec) : Inbound(c, n)'
              /\ \A m \in {gui'[c]} \ {NoMsg} : m = gui[c] \/ Vouched(m)'
              /\ \A m \in {hv'[c]} \ {NoMsg} :
                    \/ m = hv[c]
                    \/ Inbound(c, m)' /\ Handled(m.source, c, m.time_to)'
    PROVE  FramesVouched'
<1> SUFFICES ASSUME NEW c \in Account
             PROVE  /\ \A m \in Frames(toServer'[c]) : Vouched(m)'
                    /\ \A m \in Frames(cache'[c]) \union Frames(replay'[c]) : Inbound(c, m)'
                    /\ \A m \in Frames(toClient'[c]) :
                          /\ Inbound(c, m)'
                          /\ m.type = "swap_cache_back" =>
                                 \A n \in Frames(m.vec) : Inbound(c, n)'
                    /\ \A m \in {gui'[c]} \ {NoMsg} : Vouched(m)'
                    /\ \A m \in {hv'[c]} \ {NoMsg} :
                          Inbound(c, m)' /\ Handled(m.source, c, m.time_to)'
  BY DEF FramesVouched
<1>1. QED
  BY QueuesKept

\* Every step preserves FramesVouched.
LEMMA FramesStep == TypeOK /\ FramesVouched /\ [Next]_vars => FramesVouched'
<1> SUFFICES ASSUME TypeOK, FramesVouched, [Next]_vars PROVE FramesVouched'
  OBVIOUS
<1> USE DEF procVars, dbVars, netVars, srvVars
<1>0. RowsKept /\ TypeOK'
  BY HistoryStep, TypeStep
<1>1. ASSUME NEW a \in Account, Start(a) PROVE FramesVouched'
  <2> DEFINE S == Relayed \union Asks
             m == [type |-> "ac_login"]
  <2>1. toServer[a] \in Seq(S) /\ m \in S
    BY DEF TypeOK, Asks
  <2>2. Frames(Append(toServer[a], m)) = Frames(toServer[a]) \union {m}
    <3> HIDE DEF S, m
    <3>1. QED
      BY <2>1, FramesAppend
  <2>3. Vouched(m)'
    BY DEF Vouched
  <2> HIDE DEF m
  <2>4. \A c \in Account : Frames(toServer'[c]) \subseteq Frames(toServer[c]) \union {m}
    BY <1>1, <2>2 DEF TypeOK, Start, m
  <2>5. UNCHANGED <<cache, replay, toClient, gui, hv>>
    BY <1>1 DEF Start
  <2>6. QED
    BY <1>0, <2>3, <2>4, <2>5, FramesFrom
<1>2. ASSUME NEW a \in Account, Exit(a) \/ Disconnect(a) PROVE FramesVouched'
  <2>1. \A c \in Account :
           /\ Frames(toServer'[c]) \subseteq Frames(toServer[c])
           /\ Frames(toClient'[c]) \subseteq Frames(toClient[c])
           /\ Frames(replay'[c]) \subseteq Frames(replay[c])
           /\ gui'[c] \in {gui[c], NoMsg}
           /\ hv'[c] \in {hv[c], NoMsg}
    BY <1>2, FramesEmpty DEF TypeOK, Exit, Disconnect, CutOff
  <2>2. UNCHANGED cache
    BY <1>2 DEF Exit, Disconnect, CutOff
  <2>3. QED
    BY <1>0, <2>1, <2>2, FramesFrom
<1>3. ASSUME NEW a \in Account, NEW b \in Account, NEW t \in Time,
             NEW c \in Content, AskSwapMsg(a, b, t, c)
      PROVE  FramesVouched'
  <2> DEFINE m == [type |-> "swap_msg", source |-> a, target |-> b,
                   time_to |-> t, content |-> c]
  <2>1. hist'[a][b][t] = [object |-> "AR", feed_back |-> 0, content |-> c]
    BY <1>3, InsertRead DEF AskSwapMsg, TypeOK
  <2>2. Vouched(m)'
    BY <2>1 DEF Vouched, Sent
  <2> HIDE DEF m
  <2>3. \A x \in Account : gui'[x] \in {gui[x], m}
    BY <1>3 DEF AskSwapMsg, TypeOK, m
  <2>4. UNCHANGED <<toServer, cache, replay, toClient, hv>>
    BY <1>3 DEF AskSwapMsg
  <2>5. QED
    BY <1>0, <2>2, <2>3, <2>4, FramesFrom
<1>4. ASSUME NEW a \in Account, SendSwapMsg(a) PROVE FramesVouched'
  <2>1. gui[a] \in Relayed \union Asks /\ gui[a] # NoMsg
    BY <1>4 DEF TypeOK, SendSwapMsg, Relayed
  <2>2. \A c \in Account :
           Frames(toServer'[c]) \subseteq Frames(toServer[c]) \union {gui[a]}
    BY <1>4, <2>1, SendQueue DEF SendSwapMsg
  <2>3. \A m \in {gui[a]} : Vouched(m)'
    BY <1>0, <2>1, QueuesKept
  <2>4. \A c \in Account : gui'[c] \in {gui[c], NoMsg}
    BY <1>4 DEF SendSwapMsg, TypeOK
  <2>5. UNCHANGED <<cache, replay, toClient, hv>>
    BY <1>4 DEF SendSwapMsg
  <2>6. QED
    BY <1>0, <2>2, <2>3, <2>4, <2>5, FramesFrom
<1>5. ASSUME NEW a \in Account, TaskAcLoginBack(a) PROVE FramesVouched'
  <2> DEFINE m == [type |-> "swap_cache"]
  <2>1. m \in Relayed \union Asks
    BY DEF Asks
  <2>2. Vouched(m)'
    BY DEF Vouched
  <2>3. Send(a, m)
    BY <1>5 DEF TaskAcLoginBack
  <2> HIDE DEF m
  <2>4. \A c \in Account : Frames(toServer'[c]) \subseteq Frames(toServer[c]) \union {m}
    BY <2>1, <2>3, SendQueue
  <2>5. \A c \in Account : /\ Frames(replay'[c]) \subseteq Frames(replay[c])
                           /\ Frames(toClient'[c]) \subseteq Frames(toClient[c])
    BY <1>5, ConsumeQueues DEF TaskAcLoginBack, Dispatch
  <2>6. UNCHANGED <<cache, gui, hv>>
    BY <1>5 DEF TaskAcLoginBack
  <2>7. QED
    BY <1>0, <2>2, <2>4, <2>5, <2>6, FramesFrom
<1>6. ASSUME NEW a \in Account, TaskSwapCacheBack(a) PROVE FramesVouched'
  <2>1. /\ Frame(a) \in Frames(toClient[a])
        /\ Frame(a).type = "swap_cache_back"
        /\ toClient[a] # <<>>
    BY <1>6, FrameType DEF TaskSwapCacheBack, Dispatch
  <2>2. \A n \in Frames(Frame(a).vec) : Inbound(a, n)'
    BY <1>0, <2>1, QueuesKept
  <2>3. \A c \in Account :
           c # a => replay'[c] = replay[c] /\ toClient'[c] = toClient[c]
    BY <1>6 DEF TaskSwapCacheBack, TypeOK
  <2>4. replay'[a] = Frame(a).vec
    BY <1>6 DEF TaskSwapCacheBack, TypeOK
  <2>5. Frames(toClient'[a]) \subseteq Frames(toClient[a])
    BY <1>6, <2>1, FramesHeadTail DEF TaskSwapCacheBack, TypeOK
  <2>6. UNCHANGED <<toServer, cache, gui, hv>>
    BY <1>6 DEF TaskSwapCacheBack
  <2>7. QED
    BY <1>0, <2>2, <2>3, <2>4, <2>5, <2>6, FramesFrom
<1>7. ASSUME NEW a \in Account, TaskSwapMsg(a) PROVE FramesVouched'
  <2>0. PICK m : m = Frame(a)
    OBVIOUS
  <2>1. /\ m \in SwapMsgs
        /\ m \in Frames(toClient[a]) \union Frames(replay[a])
    BY <1>7, <2>0, FrameType DEF TaskSwapMsg
  <2>2. m.source \in Account /\ m.time_to \in Time
    BY <2>1 DEF SwapMsgs
  <2>3. Inbound(a, m)'
    BY <1>0, <2>1, QueuesKept
  <2>4. \/ hist'[a][m.source][m.time_to].object = "AL"
        \/ <<m.source, a, m.time_to>> \in dropped'
    <3> DEFINE row == [object |-> "AL", feed_back |-> m.time_to,
                       content |-> m.content]
    <3>1. CASE hist' = InsertHistory(a, m.source, m.time_to, row)
      <4>1. hist'[a][m.source][m.time_to] = row
        <5> HIDE DEF row
        <5>1. QED
          BY <2>2, <3>1, InsertRead DEF TypeOK
      <4>2. QED
        BY <4>1
    <3>2. CASE /\ hist' = hist
               /\ \/ hist[a][m.source][m.time_to].object = "AL"
                  \/ <<m.source, a, m.time_to>> \in dropped'
      BY <3>2
    <3>3. QED
      BY <1>7, <2>0, <3>1, <3>2 DEF TaskSwapMsg
  <2>5. \A c \in Account : c # a => hv'[c] = hv[c]
    BY <1>7 DEF TaskSwapMsg, TypeOK
  <2>6. hv'[a] = m
    BY <1>7, <2>0 DEF TaskSwapMsg, TypeOK
  <2>7. \A c \in Account : /\ Frames(replay'[c]) \subseteq Frames(replay[c])
                           /\ Frames(toClient'[c]) \subseteq Frames(toClient[c])
    BY <1>7, ConsumeQueues DEF TaskSwapMsg, Dispatch
  <2>8. UNCHANGED <<toServer, cache, gui>>
    BY <1>7 DEF TaskSwapMsg
  <2>9. \A n \in {m} : Inbound(a, n)' /\ Handled(n.source, a, n.time_to)'
    BY <2>3, <2>4 DEF Handled, Stored
  <2>10. QED
    BY <1>0, <2>5, <2>6, <2>7, <2>8, <2>9, FramesFrom
<1>8. ASSUME NEW a \in Account, NEW ok \in Clock, SendSwapMsgBack(a, ok)
      PROVE  FramesVouched'
  <2> DEFINE b == [type |-> "swap_msg_back", source |-> hv[a].target,
                   target |-> hv[a].source, time_to |-> hv[a].time_to,
                   time_ok |-> ok]
  <2>1. hv[a] \in SwapMsgs /\ hv[a] # NoMsg
    BY <1>8 DEF SendSwapMsgBack, TypeOK
  <2>2. b \in Relayed \union Asks
    BY <2>1 DEF Relayed, SwapMsgs, SwapMsgBacks
  <2>3. \A m \in {hv[a]} : Inbound(a, m)' /\ Handled(m.source, a, m.time_to)'
    BY <1>0, <2>1, QueuesKept
  <2>4. \A m \in {b} : Vouched(m)'
    BY <2>1, <2>3 DEF Inbound, Vouched, SwapMsgs
  <2>5. Send(a, b)
    BY <1>8 DEF SendSwapMsgBack
  <2> HIDE DEF b
  <2>6. \A c \in Account : Frames(toServer'[c]) \subseteq Frames(toServer[c]) \union {b}
    BY <2>2, <2>5, SendQueue
  <2>7. \A c \in Account : hv'[c] \in {hv[c], NoMsg}
    BY <1>8 DEF SendSwapMsgBack, TypeOK
  <2>8. UNCHANGED <<cache, replay, toClient, gui>>
    BY <1>8 DEF SendSwapMsgBack
  <2>9. QED
    BY <1>0, <2>4, <2>6, <2>7, <2>8, FramesFrom
<1>9. ASSUME NEW a \in Account, TaskSwapMsgBack(a) \/ TaskNoEffect(a)
      PROVE  FramesVouched'
  <2>1. \A c \in Account : /\ Frames(replay'[c]) \subseteq Frames(replay[c])
                           /\ Frames(toClient'[c]) \subseteq Frames(toClient[c])
    BY <1>9, ConsumeQueues DEF TaskSwapMsgBack, TaskNoEffect, Dispatch
  <2>2. UNCHANGED <<toServer, cache, gui, hv>>
    BY <1>9 DEF TaskSwapMsgBack, TaskNoEffect
  <2>3. QED
    BY <1>0, <2>1, <2>2, FramesFrom
<1>10. ASSUME NEW a \in Account, SrvLogin(a) PROVE FramesVouched'
  <2>1. \A c \in Account : Frames(toServer'[c]) \subseteq Frames(toServer[c])
    BY <1>10, SrvReadsQueue DEF SrvLogin
  <2>2. PICK m \in Answers : /\ toClient' = [toClient EXCEPT ![a] = Append(@, m)]
                             /\ m.type \in {"ac_login_back", "error_info"}
    <3> DEFINE yes == [type |-> "ac_login_back", friends |-> Friends(a)]
               no == [type |-> "error_info"]
    <3>1. yes \in Answers /\ no \in Answers
      BY DEF Answers, Friends
    <3>2. /\ yes.type \in {"ac_login_back", "error_info"}
          /\ no.type \in {"ac_login_back", "error_info"}
      OBVIOUS
    <3>3. \/ toClient' = [toClient EXCEPT ![a] = Append(@, yes)]
          \/ toClient' = [toClient EXCEPT ![a] = Append(@, no)]
      BY <1>10 DEF SrvLogin
    <3> HIDE DEF yes, no
    <3>4. QED
      BY <3>1, <3>2, <3>3
  <2>3. /\ \A c \in Account : c # a => toClient'[c] = toClient[c]
        /\ Frames(toClient'[a]) = Frames(toClient[a]) \union {m}
    BY <2>2, AnswerQueue
  <2>4. Inbound(a, m)'
    BY <2>2 DEF Inbound, Vouched
  <2>5. UNCHANGED <<cache, replay, gui, hv>>
    BY <1>10 DEF SrvLogin
  <2>6. QED
    BY <1>0, <2>1, <2>2, <2>3, <2>4, <2>5, FramesFrom
<1>11. ASSUME NEW a \in Account, SrvSwapCache(a) PROVE FramesVouched'
  <2> DEFINE m == [type |-> "swap_cache_back", vec |-> cache[a]]
  <2>1. \A c \in Account : Frames(toServer'[c]) \subseteq Frames(toServer[c])
    BY <1>11, SrvReadsQueue DEF SrvSwapCache
  <2>2. m \in Relayed \union Answers
    BY DEF Answers, TypeOK
  <2>3. toClient' = [toClient EXCEPT ![a] = Append(@, m)]
    BY <1>11 DEF SrvSwapCache
  <2>4. \A x \in {m} : Inbound(a, x)'
    BY DEF Inbound, Vouched
  <2>5. \A n \in Frames(m.vec) : Inbound(a, n)'
    BY <1>0, QueuesKept
  <2>6. \A c \in Account : Frames(cache'[c]) \subseteq Frames(cache[c])
    BY <1>11, FramesEmpty DEF SrvSwapCache, TypeOK
  <2> HIDE DEF m
  <2>7. /\ \A c \in Account : c # a => toClient'[c] = toClient[c]
        /\ Frames(toClient'[a]) = Frames(toClient[a]) \union {m}
    BY <2>2, <2>3, AnswerQueue
  <2>8. UNCHANGED <<replay, gui, hv>>
    BY <1>11 DEF SrvSwapCache
  <2>9. QED
    BY <1>0, <2>1, <2>4, <2>5, <2>6, <2>7, <2>8, FramesFrom
<1>12. ASSUME NEW a \in Account, SrvForward(a) PROVE FramesVouched'
  <2>0. PICK m, b : m = Head(toServer[a]) /\ b = m.target
    OBVIOUS
  <2>1. /\ \A c \in Account : Frames(toServer'[c]) \subseteq Frames(toServer[c])
        /\ m \in Relayed
        /\ m \in Frames(toServer[a])
    BY <1>12, <2>0, SrvReadsQueue DEF SrvForward
  <2>2. b \in Account /\ m.type \in {"swap_msg", "swap_msg_back"}
    BY <2>0, <2>1 DEF Relayed, SwapMsgs, SwapMsgBacks
  <2>3. \A x \in {m} : Inbound(b, x)'
    <3>1. \A x \in {m} : Vouched(x)'
      BY <1>0, <2>1, QueuesKept
    <3>2. QED
      BY <2>0, <3>1 DEF Inbound
  <2>4. \/ /\ toClient' = [toClient EXCEPT ![b] = Append(@, m)]
           /\ UNCHANGED cache
        \/ /\ cache' = [cache EXCEPT ![b] = Append(@, m)]
           /\ UNCHANGED toClient
    BY <1>12, <2>0 DEF SrvForward
  <2>5. UNCHANGED <<replay, gui, hv>>
    BY <1>12 DEF SrvForward
  <2>6. CASE toClient' = [toClient EXCEPT ![b] = Append(@, m)] /\ UNCHANGED cache
    <3>1. /\ \A c \in Account : c # b => toClient'[c] = toClient[c]
          /\ Frames(toClient'[b]) = Frames(toClient[b]) \union {m}
      BY <2>1, <2>2, <2>6, AnswerQueue
    <3>2. m.type # "swap_cache_back"
      BY <2>2
    <3>3. QED
      BY <1>0, <2>1, <2>3, <2>5, <2>6, <3>1, <3>2, FramesFrom
  <2>7. CASE cache' = [cache EXCEPT ![b] = Append(@, m)] /\ UNCHANGED toClient
    <3>1. Frames(Append(cache[b], m)) = Frames(cache[b]) \union {m}
      BY <2>1, <2>2, FramesAppend DEF TypeOK
    <3>2. /\ \A c \in Account : c # b => cache'[c] = cache[c]
          /\ Frames(cache'[b]) = Frames(cache[b]) \union {m}
      BY <2>2, <2>7, <3>1 DEF TypeOK
    <3>3. QED
      BY <1>0, <2>1, <2>3, <2>5, <2>7, <3>2, FramesFrom
  <2>8. QED
    BY <2>4, <2>6, <2>7
<1>13. ASSUME NEW a \in Account, NEW b \in Account, SrvUpdateFriends(a, b)
       PROVE  FramesVouched'
  <2> DEFINE S == Relayed \union Answers
             m == [type |-> "ac_update_friends_back"]
  <2>1. m \in S /\ \A c \in Account : toClient[c] \in Seq(S)
    BY DEF Answers, TypeOK
  <2>2. \A c \in Account : Frames(Append(toClient[c], m)) = Frames(toClient[c]) \union {m}
    <3> HIDE DEF S, m
    <3>1. QED
      BY <2>1, FramesAppend
  <2>3. \A c \in Account : toClient'[c] \in {toClient[c], Append(toClient[c], m)}
    BY <1>13 DEF SrvUpdateFriends
  <2>4. \A c \in Account : Inbound(c, m)'
    BY DEF Inbound, Vouched
  <2>5. m.type # "swap_cache_back"
    OBVIOUS
  <2> HIDE DEF m
  <2>6. \A c \in Account : Frames(toClient'[c]) \subseteq Frames(toClient[c]) \union {m}
    BY <2>2, <2>3
  <2>7. UNCHANGED <<toServer, cache, replay, gui, hv>>
    BY <1>13 DEF SrvUpdateFriends
  <2>8. QED
    BY <1>0, <2>4, <2>5, <2>6, <2>7, FramesFrom
<1>14. CASE UNCHANGED vars
  <2>1. UNCHANGED <<toServer, cache, replay, toClient, gui, hv>>
    BY <1>14 DEF vars
  <2>2. QED
    BY <1>0, <2>1, FramesFrom
<1>15. QED
  BY <1>1, <1>2, <1>3, <1>4, <1>5, <1>6, <1>7, <1>8, <1>9, <1>10, <1>11,
     <1>12, <1>13, <1>14
     DEF Next, User, Handlers, Server
-----------------------------------------------------------------------------
(***************************************************************************)
(* The safety properties.                                                  *)
(***************************************************************************)
\* The three properties of the histories, for one message.
Good(a, b, t) ==
    /\ Stored(a, b, t) => /\ Sent(a, b, t)
                          /\ hist[b][a][t].content = hist[a][b][t].content
                          /\ hist[b][a][t].feed_back = t
    /\ Confirmed(a, b, t) => Handled(a, b, t)

\* The properties of the histories are preserved by every step from a state in
\* which the frames are vouched for.
LEMMA HistoryInvStep ==
    ASSUME TypeOK, FramesVouched, ReceivedWasSent, ReceivedFeedBack,
           ConfirmedWasHandled, [Next]_vars
    PROVE  ReceivedWasSent' /\ ReceivedFeedBack' /\ ConfirmedWasHandled'
<1> USE DEF procVars, dbVars, netVars, srvVars, Good
<1>1. RowsKept /\ hist \in Histories
  BY HistoryStep DEF TypeOK
<1>2. \A a, b \in Account, t \in Time : Good(a, b, t)
  BY DEF ReceivedWasSent, ReceivedFeedBack, ConfirmedWasHandled, Handled
<1>3. SUFFICES \A a, b \in Account, t \in Time : Good(a, b, t)'
  <2>1. ASSUME \A a, b \in Account, t \in Time : Good(a, b, t)'
        PROVE  ReceivedWasSent' /\ ReceivedFeedBack' /\ ConfirmedWasHandled'
    BY <2>1 DEF ReceivedWasSent, ReceivedFeedBack, ConfirmedWasHandled, Handled
  <2>2. QED
    BY <2>1
\* Whether <<a, b, t>> is good depends on two rows and on dropped.
<1>4. ASSUME NEW a \in Account, NEW b \in Account, NEW t \in Time,
             hist'[a][b][t] = hist[a][b][t], hist'[b][a][t] = hist[b][a][t]
      PROVE  Good(a, b, t)'
  BY <1>1, <1>2, <1>4 DEF RowsKept, Stored, Sent, Confirmed, Handled
<1>5. CASE hist' = hist
  BY <1>4, <1>5
<1>6. ASSUME NEW a \in Account, NEW b \in Account, NEW t \in Time,
             NEW c \in Content, AskSwapMsg(a, b, t, c)
      PROVE  \A x, y \in Account, z \in Time : Good(x, y, z)'
  <2>1. /\ hist[a][b][t] = NoRow
        /\ hist'[a][b][t] = [object |-> "AR", feed_back |-> 0, content |-> c]
        /\ \A x, y \in Account, z \in Time :
              (x = a /\ y = b /\ z = t) \/ hist'[x][y][z] = hist[x][y][z]
    BY <1>1, <1>6, InsertRead DEF AskSwapMsg, InsertOk
  <2>2. ASSUME NEW x \in Account, NEW y \in Account, NEW z \in Time
        PROVE  Good(x, y, z)'
    <3>1. CASE x = a /\ y = b /\ z = t
      <4>1. ~Confirmed(x, y, z)'
        BY <2>1, <3>1 DEF Confirmed
      <4>2. ~Stored(x, y, z)'
        <5>1. ~Stored(x, y, z)
          BY <1>2, <2>1, <3>1 DEF Sent, NoRow
        <5>2. QED
          BY <2>1, <3>1, <5>1 DEF Stored
      <4>3. QED
        BY <4>1, <4>2
    <3>2. CASE x = b /\ y = a /\ z = t /\ a # b
      <4>1. ~Stored(x, y, z)'
        BY <2>1, <3>2 DEF Stored
      <4>2. Confirmed(x, y, z)' => Handled(x, y, z)'
        <5>1. hist'[x][y][z] = hist[x][y][z]
          BY <2>1, <3>2
        <5>2. ~Stored(x, y, z)
          BY <2>1, <3>2 DEF Stored, NoRow
        <5>3. QED
          BY <1>1, <1>2, <5>1, <5>2 DEF Confirmed, Sent, Handled, RowsKept
      <4>3. QED
        BY <4>1, <4>2
    <3>3. CASE /\ ~(x = a /\ y = b /\ z = t)
               /\ ~(y = a /\ x = b /\ z = t)
      BY <1>4, <2>1, <3>3
    <3>4. QED
      BY <3>1, <3>2, <3>3
  <2>3. QED
    BY <2>2
<1>7. ASSUME NEW a \in Account, TaskSwapMsg(a)
      PROVE  \A x, y \in Account, z \in Time : Good(x, y, z)'
  <2>0. PICK m : m = Frame(a)
    OBVIOUS
  <2>1. /\ m \in SwapMsgs
        /\ m \in Frames(toClient[a]) \union Frames(replay[a])
    BY <1>7, <2>0, FrameType DEF TaskSwapMsg
  <2>2. PICK b \in Account, t \in Time, c \in Content :
           m.source = b /\ m.time_to = t /\ m.content = c /\ m.type = "swap_msg"
    BY <2>1 DEF SwapMsgs
  <2>3. Sent(b, a, t) /\ hist[b][a][t].content = c
    <3>1. Inbound(a, m)
      BY <2>1 DEF FramesVouched
    <3>2. QED
      BY <2>2, <3>1 DEF Inbound, Vouched
  <2> DEFINE row == [object |-> "AL", feed_back |-> t, content |-> c]
  <2>4. \/ hist' = hist
        \/ hist' = InsertHistory(a, b, t, row) /\ hist[a][b][t] = NoRow
    BY <1>7, <2>0, <2>2 DEF TaskSwapMsg, InsertOk
  <2>5. CASE hist' = InsertHistory(a, b, t, row) /\ hist[a][b][t] = NoRow
    <3>1. /\ hist'[a][b][t] = row
          /\ \A x, y \in Account, z \in Time :
                (x = a /\ y = b /\ z = t) \/ hist'[x][y][z] = hist[x][y][z]
      <4> HIDE DEF row
      <4>1. QED
        BY <1>1, <2>5, InsertRead
    <3>2. a # b
      BY <2>3, <2>5 DEF Sent, NoRow
    <3>3. hist'[b][a][t] = hist[b][a][t]
      BY <3>1, <3>2
    <3>4. ASSUME NEW x \in Account, NEW y \in Account, NEW z \in Time
          PROVE  Good(x, y, z)'
      <4>1. CASE x = a /\ y = b /\ z = t
        <5>1. ~Stored(x, y, z)' /\ ~Confirmed(x, y, z)'
          BY <2>3, <3>1, <3>3, <4>1 DEF Stored, Confirmed, Sent
        <5>2. QED
          BY <5>1
      <4>2. CASE x = b /\ y = a /\ z = t
        BY <2>3, <3>1, <3>3, <4>2 DEF Stored, Sent, Handled
      <4>3. CASE /\ ~(x = a /\ y = b /\ z = t)
                 /\ ~(y = a /\ x = b /\ z = t)
        BY <1>4, <3>1, <4>3
      <4>4. QED
        BY <4>1, <4>2, <4>3
    <3>5. QED
      BY <3>4
  <2>6. QED
    BY <1>5, <2>4, <2>5
<1>8. ASSUME NEW a \in Account, TaskSwapMsgBack(a)
      PROVE  \A x, y \in Account, z \in Time : Good(x, y, z)'
  <2>0. PICK m : m = Frame(a)
    OBVIOUS
  <2>1. /\ m \in SwapMsgBacks
        /\ m \in Frames(toClient[a]) \union Frames(replay[a])
    BY <1>8, <2>0, FrameType DEF TaskSwapMsgBack
  <2>2. PICK b \in Account, t \in Time, ok \in Clock :
           /\ m.source = b /\ m.time_to = t /\ m.time_ok = ok
           /\ m.type = "swap_msg_back"
    BY <2>1 DEF SwapMsgBacks
  <2>3. Sent(a, b, t) /\ Handled(a, b, t)
    <3>1. Inbound(a, m)
      BY <2>1 DEF FramesVouched
    <3>2. QED
      BY <2>2, <3>1 DEF Inbound, Vouched
  <2>4. hist' = UpdateFeedBack(a, b, t, ok) /\ dropped' = dropped
    BY <1>8, <2>0, <2>2 DEF TaskSwapMsgBack
  <2>5. CASE hist[a][b][t] # NoRow /\ hist' = [hist EXCEPT ![a][b][t].feed_back = ok]
    <3>1. hist[a][b][t] \in Row
      BY <1>1, <2>5 DEF Histories
    <3>2. /\ hist'[a][b][t] = [hist[a][b][t] EXCEPT !.feed_back = ok]
          /\ \A x, y \in Account, z \in Time :
                (x = a /\ y = b /\ z = t) \/ hist'[x][y][z] = hist[x][y][z]
      BY <1>1, <2>5 DEF Histories
    <3>3. /\ hist'[a][b][t].object = "AR"
          /\ hist'[a][b][t].content = hist[a][b][t].content
      BY <2>3, <3>1, <3>2 DEF Row, Sent
    <3>4. ASSUME NEW x \in Account, NEW y \in Account, NEW z \in Time
          PROVE  Good(x, y, z)'
      <4>1. CASE x = a /\ y = b /\ z = t /\ a # b
        <5>1. hist'[b][a][t] = hist[b][a][t]
          BY <3>2, <4>1
        <5>2. QED
          BY <1>2, <2>3, <2>4, <3>3, <4>1, <5>1 DEF Stored, Sent, Handled
      <4>2. CASE x = b /\ y = a /\ z = t /\ a # b
        <5>1. hist'[b][a][t] = hist[b][a][t]
          BY <3>2, <4>2
        <5>2. ~Stored(x, y, z)' /\ ~Stored(x, y, z)
          BY <2>3, <3>3, <4>2 DEF Stored, Sent
        <5>3. QED
          BY <1>2, <2>4, <4>2, <5>1, <5>2 DEF Confirmed, Sent, Handled
      <4>3. CASE x = a /\ y = a /\ z = t /\ a = b
        <5>1. ~Stored(x, y, z)' /\ ~Stored(a, b, t)
          BY <2>3, <3>3, <4>3 DEF Stored, Sent
        <5>2. QED
          BY <2>3, <2>4, <4>3, <5>1 DEF Handled
      <4>4. CASE /\ ~(x = a /\ y = b /\ z = t)
                 /\ ~(y = a /\ x = b /\ z = t)
        BY <1>4, <3>2, <4>4
      <4>5. QED
        BY <4>1, <4>2, <4>3, <4>4
    <3>5. QED
      BY <3>4
  <2>6. QED
    BY <1>5, <2>4, <2>5 DEF UpdateFeedBack
<1>9. QED
  <2>1. ASSUME NEW a \in Account,
               \/ Start(a) \/ Exit(a) \/ Disconnect(a) \/ SendSwapMsg(a)
               \/ TaskAcLoginBack(a) \/ TaskSwapCacheBack(a) \/ TaskNoEffect(a)
               \/ (\E ok \in Clock : SendSwapMsgBack(a, ok)) \/ Server(a)
        PROVE  hist' = hist
    BY <2>1 DEF Start, Exit, Disconnect, SendSwapMsg, TaskAcLoginBack,
                TaskSwapCacheBack, TaskNoEffect, SendSwapMsgBack, Server,
                SrvLogin, SrvSwapCache, SrvForward
  <2>2. ASSUME NEW a \in Account, NEW b \in Account, SrvUpdateFriends(a, b)
        PROVE  hist' = hist
    BY <2>2 DEF SrvUpdateFriends
  <2>3. UNCHANGED vars => hist' = hist
    BY DEF vars
  <2>4. QED
    BY <1>5, <1>6, <1>7, <1>8, <2>1, <2>2, <2>3 DEF Next, User, Handlers

\* In every state of every run the histories agree: received rows were sent,
\* with the same text, and keep their feed_back; confirmed messages were
\* handled; and all frames in transit are vouched for.
THEOREM Invariance == Spec => []IInv
<1>1. Init => IInv
  <2> SUFFICES ASSUME Init PROVE IInv
    OBVIOUS
  <2>1. TypeOK
    BY FramesEmpty DEF Init, TypeOK, Histories
  <2>2. \A a, b \in Account, t \in Time : hist[a][b][t].object = "none"
    BY DEF Init, NoRow
  <2>3. ReceivedWasSent /\ ReceivedFeedBack /\ ConfirmedWasHandled
    BY <2>2 DEF ReceivedWasSent, ReceivedFeedBack, ConfirmedWasHandled, Stored,
                Confirmed, Sent
  <2>4. FramesVouched
    BY FramesEmpty DEF Init, FramesVouched
  <2>5. QED
    BY <2>1, <2>3, <2>4 DEF IInv
<1>2. IInv /\ [Next]_vars => IInv'
  BY TypeStep, FramesStep, HistoryInvStep DEF IInv
<1>3. QED
  BY <1>1, <1>2, PTL DEF Spec

\* Every frame in transit says what its sender's history, or the server, vouches
\* for, over losses, relogins and forwarded messages.
THEOREM FramesVouchedHolds == Spec => []FramesVouched
BY Invariance, PTL DEF IInv

\* A message in a receiver's history is in its sender's history.
THEOREM ReceivedWasSentHolds == Spec => []ReceivedWasSent
BY Invariance, PTL DEF IInv

\* A received row keeps feed_back == send_time.
THEOREM ReceivedFeedBackHolds == Spec => []ReceivedFeedBack
BY Invariance, PTL DEF IInv

\* A confirmed message was handled by its receiver.
THEOREM ConfirmedWasHandledHolds == Spec => []ConfirmedWasHandled
BY Invariance, PTL DEF IInv

\* Rows are never removed or rewritten, confirmations never taken back.
THEOREM HistoryOnlyGrowsHolds == Spec => HistoryOnlyGrows
<1> DEFINE Grows ==
        \A a, b \in Account, t \in Time :
            hist[a][b][t] # NoRow =>
               /\ hist'[a][b][t].object = hist[a][b][t].object
               /\ hist'[a][b][t].content = hist[a][b][t].content
               /\ Confirmed(a, b, t) => Confirmed(a, b, t)'
<1>1. TypeOK /\ [Next]_vars => [Grows]_vars
  <2> SUFFICES ASSUME TypeOK, [Next]_vars PROVE Grows
    OBVIOUS
  <2>1. RowsKept
    BY HistoryStep
  <2>2. QED
    BY <2>1 DEF RowsKept, Confirmed, Sent
<1>2. QED
  BY <1>1, TypeCorrect, PTL DEF Spec, HistoryOnlyGrows
-----------------------------------------------------------------------------
(***************************************************************************)
(* The refinement.                                                         *)
(***************************************************************************)
SentSet == {m \in Messages : Sent(m[1], m[2], m[3])}
StoredSet == {m \in Messages : Stored(m[1], m[2], m[3])}
ConfirmedSet == {m \in Messages : Confirmed(m[1], m[2], m[3])}

\* How the state of Delivery changes when one row changes.
LEMMA SetsStep ==
    ASSUME NEW a \in Account, NEW b \in Account, NEW t \in Time
    PROVE  /\ (\A x, y \in Account, z \in Time :
                 Sent(x, y, z)' <=> Sent(x, y, z) \/ (x = a /\ y = b /\ z = t))
              => SentSet' = SentSet \union {<<a, b, t>>}
           /\ (\A x, y \in Account, z \in Time : Sent(x, y, z)' <=> Sent(x, y, z))
              => SentSet' = SentSet
           /\ (\A x, y \in Account, z \in Time :
                 Stored(x, y, z)' <=> Stored(x, y, z) \/ (x = a /\ y = b /\ z = t))
              => StoredSet' = StoredSet \union {<<a, b, t>>}
           /\ (\A x, y \in Account, z \in Time : Stored(x, y, z)' <=> Stored(x, y, z))
              => StoredSet' = StoredSet
           /\ (\A x, y \in Account, z \in Time :
                 Confirmed(x, y, z)' <=> Confirmed(x, y, z) \/ (x = a /\ y = b /\ z = t))
              => ConfirmedSet' = ConfirmedSet \union {<<a, b, t>>}
           /\ (\A x, y \in Account, z \in Time : Confirmed(x, y, z)' <=> Confirmed(x, y, z))
              => ConfirmedSet' = ConfirmedSet
<1>1. \A m \in Messages : /\ m[1] \in Account /\ m[2] \in Account /\ m[3] \in Time
                          /\ m = <<m[1], m[2], m[3]>>
  BY DEF Messages
<1>2. <<a, b, t>> \in Messages
  BY DEF Messages
<1>3. QED
  BY <1>1, <1>2 DEF SentSet, StoredSet, ConfirmedSet

\* Every step of the exchange is a step of Delivery, or a stuttering one.
LEMMA DeliveryStep ==
    ASSUME IInv, [Next]_vars
    PROVE  [Promise!Next]_(Promise!vars)
<1> USE DEF procVars, dbVars, netVars, srvVars
<1>0. /\ TypeOK /\ FramesVouched /\ hist \in Histories
      /\ \A x, y \in Account, z \in Time : Stored(x, y, z) => Sent(x, y, z)
  BY DEF IInv, TypeOK, ReceivedWasSent
<1>1. CASE UNCHANGED <<hist, dropped>>
  BY <1>1 DEF Promise!vars, Sent, Stored, Confirmed
<1>2. ASSUME NEW a \in Account, NEW b \in Account, NEW t \in Time,
             NEW c \in Content, AskSwapMsg(a, b, t, c)
      PROVE  Promise!Next
  <2>1. /\ hist[a][b][t] = NoRow
        /\ hist'[a][b][t] = [object |-> "AR", feed_back |-> 0, content |-> c]
        /\ \A x, y \in Account, z \in Time :
              (x = a /\ y = b /\ z = t) \/ hist'[x][y][z] = hist[x][y][z]
        /\ dropped' = dropped
    BY <1>0, <1>2, InsertRead DEF AskSwapMsg, InsertOk
  <2>2. \A x, y \in Account, z \in Time :
           /\ Sent(x, y, z)' <=> Sent(x, y, z) \/ (x = a /\ y = b /\ z = t)
           /\ Stored(x, y, z)' <=> Stored(x, y, z)
           /\ Confirmed(x, y, z)' <=> Confirmed(x, y, z)
    BY <2>1 DEF Sent, Stored, Confirmed, NoRow
  <2>3. /\ SentSet' = SentSet \union {<<a, b, t>>}
        /\ StoredSet' = StoredSet
        /\ ConfirmedSet' = ConfirmedSet
    BY <2>2, SetsStep
  <2>4. <<a, b, t>> \notin SentSet /\ <<b, a, t>> \notin StoredSet
    BY <2>1 DEF SentSet, StoredSet, Sent, Stored, NoRow
  <2>5. Promise!SendMsg(<<a, b, t>>)
    BY <2>1, <2>3, <2>4 DEF Promise!SendMsg, Promise!Crossing, SentSet, StoredSet,
                            ConfirmedSet
  <2>6. QED
    BY <2>5 DEF Promise!Next, Promise!Message
<1>3. ASSUME NEW a \in Account, TaskSwapMsg(a)
      PROVE  [Promise!Next]_(Promise!vars)
  <2>0. PICK m : m = Frame(a)
    OBVIOUS
  <2>1. /\ m \in SwapMsgs
        /\ m \in Frames(toClient[a]) \union Frames(replay[a])
    BY <1>0, <1>3, <2>0, FrameType DEF TaskSwapMsg
  <2>2. PICK b \in Account, t \in Time, c \in Content :
           m.source = b /\ m.time_to = t /\ m.content = c /\ m.type = "swap_msg"
    BY <2>1 DEF SwapMsgs
  <2>3. Sent(b, a, t)
    <3>1. Inbound(a, m)
      BY <1>0, <2>1 DEF FramesVouched
    <3>2. QED
      BY <2>2, <3>1 DEF Inbound, Vouched
  <2>4. <<b, a, t>> \in SentSet /\ <<b, a, t>> \in Messages
    BY <2>3 DEF SentSet, Messages
  <2> DEFINE row == [object |-> "AL", feed_back |-> t, content |-> c]
  <2>5. \/ UNCHANGED <<hist, dropped>>
        \/ /\ hist' = hist /\ dropped' = dropped \union {<<b, a, t>>}
           /\ hist[a][b][t].object # "AL"
        \/ /\ hist' = InsertHistory(a, b, t, row) /\ hist[a][b][t] = NoRow
           /\ dropped' = dropped
    BY <1>3, <2>0, <2>2 DEF TaskSwapMsg, InsertOk
  <2>6. CASE /\ hist' = hist /\ dropped' = dropped \union {<<b, a, t>>}
             /\ hist[a][b][t].object # "AL"
    <3>1. SentSet' = SentSet /\ StoredSet' = StoredSet /\ ConfirmedSet' = ConfirmedSet
      BY <2>6 DEF SentSet, StoredSet, ConfirmedSet, Sent, Stored, Confirmed
    <3>2. <<b, a, t>> \notin StoredSet
      BY <2>6 DEF StoredSet, Stored
    <3>3. Promise!Drop(<<b, a, t>>)
      BY <2>4, <2>6, <3>1, <3>2 DEF Promise!Drop, SentSet, StoredSet, ConfirmedSet
    <3>4. QED
      BY <2>4, <3>3 DEF Promise!Next, Promise!Message, Messages
  <2>7. CASE /\ hist' = InsertHistory(a, b, t, row) /\ hist[a][b][t] = NoRow
             /\ dropped' = dropped
    <3>1. /\ hist'[a][b][t] = row
          /\ \A x, y \in Account, z \in Time :
                (x = a /\ y = b /\ z = t) \/ hist'[x][y][z] = hist[x][y][z]
      <4> HIDE DEF row
      <4>1. QED
        BY <1>0, <2>7, InsertRead
    <3>2. \A x, y \in Account, z \in Time :
             /\ Stored(x, y, z)' <=> Stored(x, y, z) \/ (x = b /\ y = a /\ z = t)
             /\ Sent(x, y, z)' <=> Sent(x, y, z)
             /\ Confirmed(x, y, z)' <=> Confirmed(x, y, z)
      BY <2>7, <3>1 DEF Sent, Stored, Confirmed, NoRow
    <3>3. /\ StoredSet' = StoredSet \union {<<b, a, t>>}
          /\ SentSet' = SentSet
          /\ ConfirmedSet' = ConfirmedSet
      <4>1. StoredSet' = StoredSet \union {<<b, a, t>>}
        BY <3>2, SetsStep
      <4>2. SentSet' = SentSet
        BY <3>2, SetsStep
      <4>3. ConfirmedSet' = ConfirmedSet
        BY <3>2, SetsStep
      <4>4. QED
        BY <4>1, <4>2, <4>3
    <3>4. <<b, a, t>> \notin StoredSet /\ <<a, b, t>> \notin SentSet
      BY <2>7 DEF SentSet, StoredSet, Sent, Stored, NoRow
    <3>5. Promise!Store(<<b, a, t>>)
      BY <2>4, <2>7, <3>3, <3>4 DEF Promise!Store, Promise!Crossing, SentSet,
                                    StoredSet, ConfirmedSet
    <3>6. QED
      BY <2>4, <3>5 DEF Promise!Next, Promise!Message, Messages
  <2>8. QED
    BY <1>1, <2>5, <2>6, <2>7
<1>4. ASSUME NEW a \in Account, TaskSwapMsgBack(a)
      PROVE  [Promise!Next]_(Promise!vars)
  <2>0. PICK m : m = Frame(a)
    OBVIOUS
  <2>1. /\ m \in SwapMsgBacks
        /\ m \in Frames(toClient[a]) \union Frames(replay[a])
    BY <1>0, <1>4, <2>0, FrameType DEF TaskSwapMsgBack
  <2>2. PICK b \in Account, t \in Time, ok \in Clock :
           /\ m.source = b /\ m.time_to = t /\ m.time_ok = ok
           /\ m.type = "swap_msg_back"
    BY <2>1 DEF SwapMsgBacks
  <2>3. Sent(a, b, t) /\ Handled(a, b, t)
    <3>1. Inbound(a, m)
      BY <1>0, <2>1 DEF FramesVouched
    <3>2. QED
      BY <2>2, <3>1 DEF Inbound, Vouched
  <2>4. hist' = UpdateFeedBack(a, b, t, ok) /\ dropped' = dropped
    BY <1>4, <2>0, <2>2 DEF TaskSwapMsgBack
  <2>5. CASE hist[a][b][t] # NoRow /\ hist' = [hist EXCEPT ![a][b][t].feed_back = ok]
    <3>1. hist[a][b][t] \in Row
      BY <1>0, <2>5 DEF Histories
    <3>2. /\ hist'[a][b][t] = [hist[a][b][t] EXCEPT !.feed_back = ok]
          /\ \A x, y \in Account, z \in Time :
                (x = a /\ y = b /\ z = t) \/ hist'[x][y][z] = hist[x][y][z]
      BY <1>0, <2>5 DEF Histories
    <3>3. /\ hist'[a][b][t].object = "AR"
          /\ hist'[a][b][t].feed_back # 0
      BY <2>3, <3>1, <3>2, SwapMsgAssumption DEF Row, Sent
    <3>4. \A x, y \in Account, z \in Time :
             /\ Confirmed(x, y, z)' <=> Confirmed(x, y, z) \/ (x = a /\ y = b /\ z = t)
             /\ Sent(x, y, z)' <=> Sent(x, y, z)
             /\ Stored(x, y, z)' <=> Stored(x, y, z)
      <4>1. hist[a][b][t].object = "AR"
        BY <2>3 DEF Sent
      <4>2. ASSUME NEW x \in Account, NEW y \in Account, NEW z \in Time
            PROVE  /\ hist'[x][y][z].object = hist[x][y][z].object
                   /\ \/ x = a /\ y = b /\ z = t
                      \/ hist'[x][y][z] = hist[x][y][z]
        <5>1. CASE x = a /\ y = b /\ z = t
          BY <3>3, <4>1, <5>1
        <5>2. CASE hist'[x][y][z] = hist[x][y][z]
          BY <5>2
        <5>3. QED
          BY <3>2, <5>1, <5>2
      <4>3. ASSUME NEW x \in Account, NEW y \in Account, NEW z \in Time
            PROVE  Confirmed(x, y, z)' <=>
                       Confirmed(x, y, z) \/ (x = a /\ y = b /\ z = t)
        <5>1. CASE x = a /\ y = b /\ z = t
          BY <3>3, <5>1 DEF Confirmed, Sent
        <5>2. CASE ~(x = a /\ y = b /\ z = t)
          BY <4>2, <5>2 DEF Confirmed, Sent
        <5>3. QED
          BY <5>1, <5>2
      <4>4. \A x, y \in Account, z \in Time :
               /\ Sent(x, y, z)' <=> Sent(x, y, z)
               /\ Stored(x, y, z)' <=> Stored(x, y, z)
        BY <4>2 DEF Sent, Stored
      <4>5. QED
        BY <4>3, <4>4
    <3>5. /\ ConfirmedSet' = ConfirmedSet \union {<<a, b, t>>}
          /\ SentSet' = SentSet
          /\ StoredSet' = StoredSet
      BY <3>4, SetsStep
    <3>6. <<a, b, t>> \in SentSet /\ <<a, b, t>> \in StoredSet \union dropped
      BY <2>3 DEF SentSet, StoredSet, Handled, Messages
    <3>7. Promise!Confirm(<<a, b, t>>)
      BY <2>4, <3>5, <3>6 DEF Promise!Confirm, SentSet, StoredSet, ConfirmedSet
    <3>8. QED
      BY <3>7 DEF Promise!Next, Promise!Message
  <2>6. QED
    BY <1>1, <2>4, <2>5 DEF UpdateFeedBack
<1>5. QED
  <2>1. ASSUME NEW a \in Account,
               \/ Start(a) \/ Exit(a) \/ Disconnect(a) \/ SendSwapMsg(a)
               \/ TaskAcLoginBack(a) \/ TaskSwapCacheBack(a) \/ TaskNoEffect(a)
               \/ (\E ok \in Clock : SendSwapMsgBack(a, ok)) \/ Server(a)
        PROVE  UNCHANGED <<hist, dropped>>
    BY <2>1 DEF Start, Exit, Disconnect, SendSwapMsg, TaskAcLoginBack,
                TaskSwapCacheBack, TaskNoEffect, SendSwapMsgBack, Server,
                SrvLogin, SrvSwapCache, SrvForward
  <2>2. ASSUME NEW a \in Account, NEW b \in Account, SrvUpdateFriends(a, b)
        PROVE  UNCHANGED <<hist, dropped>>
    BY <2>2 DEF SrvUpdateFriends
  <2>3. UNCHANGED vars => UNCHANGED <<hist, dropped>>
    BY DEF vars
  <2>4. QED
    BY <1>1, <1>2, <1>3, <1>4, <2>1, <2>2, <2>3 DEF Next, User, Handlers

\* The clients and the server implement Delivery.
THEOREM Refinement == Spec => ImplementsDelivery
<1>1. Init => Promise!Init
  BY DEF Init, Promise!Init, Sent, Stored, Confirmed, NoRow, Messages
<1>2. IInv /\ [Next]_vars => [Promise!Next]_(Promise!vars)
  BY DeliveryStep
<1>3. QED
  BY <1>1, <1>2, Invariance, PTL DEF Spec, ImplementsDelivery, Promise!Spec
=============================================================================
