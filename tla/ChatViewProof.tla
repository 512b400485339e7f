---------------------------- MODULE ChatViewProof ----------------------------
(***************************************************************************)
(* Proofs about ChatView, for any number of friends, times, signals and    *)
(* sessions.                                                               *)
(***************************************************************************)
EXTENDS ChatView, TLAPS

Rows == Row \union {NoRow}
Reads == [friend : Friend, got : SUBSET Time, todo : SUBSET Time,
          raise : BOOLEAN]
Side == {"AL", "AR"}

\* A row is a message or nothing, told apart by its object.
LEMMA RowCases ==
    ASSUME NEW r \in Rows
    PROVE  /\ r = NoRow <=> r.object = "none"
           /\ r # NoRow => /\ r \in Row
                           /\ r.object \in Side
                           /\ r.non_read \in {0, 1}
BY DEF Rows, Row, NoRow, Side

\* A history is being read exactly if its friend is one.
LEMMA ReadCases ==
    ASSUME read \in Reads \union {NoRead}
    PROVE  /\ read # NoRead => /\ read \in Reads
                               /\ read.friend \in Friend
                               /\ read.got \in SUBSET Time
                               /\ read.todo \in SUBSET Time
                               /\ read.raise \in BOOLEAN
           /\ read = NoRead => read.friend \notin Friend
BY ChatViewAssumption DEF Reads, NoRead

\* insert_history fills a free row and touches no other one.
LEMMA InsertRow ==
    ASSUME hist \in [Friend -> [Time -> Rows]],
           NEW f \in Friend, NEW t \in Time, NEW row \in Row,
           hist' = InsertHistory(f, t, row)
    PROVE  /\ hist' \in [Friend -> [Time -> Rows]]
           /\ \A g \in Friend, u \in Time :
                 hist'[g][u] = IF g = f /\ u = t /\ hist[f][t] = NoRow
                               THEN row ELSE hist[g][u]
<1>1. row \in Rows
  BY DEF Rows
<1>2. CASE hist[f][t] = NoRow
  <2>1. hist' = [hist EXCEPT ![f][t] = row]
    BY <1>2 DEF InsertHistory
  <2>2. QED
    BY <1>1, <1>2, <2>1
<1>3. CASE hist[f][t] # NoRow
  BY <1>3 DEF InsertHistory
<1>4. QED
  BY <1>2, <1>3

\* update_non_read clears the flag of one row and touches nothing else.
LEMMA ClearRow ==
    ASSUME hist \in [Friend -> [Time -> Rows]],
           NEW f \in Friend, NEW t \in Time, hist[f][t] \in Row,
           hist' = [hist EXCEPT ![f][t].non_read = 0]
    PROVE  /\ hist' \in [Friend -> [Time -> Rows]]
           /\ \A g \in Friend, u \in Time :
                 g # f \/ u # t => hist'[g][u] = hist[g][u]
           /\ hist'[f][t] \in Row
           /\ hist'[f][t].object = hist[f][t].object
           /\ hist'[f][t].non_read = 0
<1> DEFINE r == [hist[f][t] EXCEPT !.non_read = 0]
<1>1. r \in Row /\ r.object = hist[f][t].object /\ r.non_read = 0
  BY DEF Row
<1>2. r \in Rows
  BY <1>1 DEF Rows
<1>3. hist' = [hist EXCEPT ![f][t] = r]
  OBVIOUS
<1> HIDE DEF r
<1>4. /\ hist' \in [Friend -> [Time -> Rows]]
      /\ \A g \in Friend, u \in Time :
            g # f \/ u # t => hist'[g][u] = hist[g][u]
      /\ hist'[f][t] = r
  BY <1>2, <1>3
<1>5. QED
  BY <1>1, <1>4

\* The empty windows of a process that starts.
LEMMA EmptyWindows ==
    /\ [f \in Friend |-> NoBubbles] \in [Friend -> [Side -> [Time -> Nat]]]
    /\ \A f \in Friend, o \in Side, t \in Time :
          [g \in Friend |-> NoBubbles][f][o][t] = 0
<1>1. NoBubbles \in [Side -> [Time -> Nat]]
  BY DEF NoBubbles, Side
<1>2. \A o \in Side, t \in Time : NoBubbles[o][t] = 0
  BY DEF NoBubbles, Side
<1>3. QED
  BY <1>1, <1>2

\* set_history_msg adds one bubble for every row that was read, on the side
\* the row is attached to.
LEMMA ShowRows ==
    ASSUME TypeOK, SetHistoryMsg
    PROVE  /\ bubble' \in [Friend -> [Side -> [Time -> Nat]]]
           /\ \A g \in Friend, o \in Side, t \in Time :
                 bubble'[g][o][t] =
                     IF g = read.friend /\ t \in read.got
                                        /\ hist[g][t].object = o
                     THEN bubble[g][o][t] + 1 ELSE bubble[g][o][t]
<1>1. PICK f \in Friend : f = read.friend
  BY ReadCases DEF TypeOK, SetHistoryMsg, Reads
<1> DEFINE w == [o \in Side |-> [t \in Time |->
                    IF t \in read.got /\ hist[f][t].object = o
                    THEN bubble[f][o][t] + 1 ELSE bubble[f][o][t]]]
<1>2. bubble \in [Friend -> [Side -> [Time -> Nat]]]
  BY DEF TypeOK, Side
<1>3. bubble' = [bubble EXCEPT ![f] = w]
  BY <1>1 DEF SetHistoryMsg, Side
<1>4. /\ w \in [Side -> [Time -> Nat]]
      /\ \A o \in Side, t \in Time :
            w[o][t] = IF t \in read.got /\ hist[f][t].object = o
                      THEN bubble[f][o][t] + 1 ELSE bubble[f][o][t]
  BY <1>2
<1> HIDE DEF w
<1>5. QED
  BY <1>1, <1>2, <1>3, <1>4
-----------------------------------------------------------------------------
\* The facts about types the steps below start from.
LEMMA Types ==
    ASSUME TypeOK
    PROVE  /\ hist \in [Friend -> [Time -> Rows]]
           /\ read \in Reads \union {NoRead}
           /\ bubble \in [Friend -> [Side -> [Time -> Nat]]]
           /\ show # NoFriend => show \in Friend
BY DEF TypeOK, Rows, Reads, Side

\* Initially the histories are empty and no window exists.
LEMMA InitIInv == Init => IInv
<1> SUFFICES ASSUME Init PROVE IInv
  OBVIOUS
<1>1. /\ bubble \in [Friend -> [Side -> [Time -> Nat]]]
      /\ \A f \in Friend, o \in Side, t \in Time : bubble[f][o][t] = 0
  BY EmptyWindows DEF Init
<1>2. \A f \in Friend, t \in Time : hist[f][t] = NoRow
  BY DEF Init
<1>3. TypeOK
  BY <1>1, ChatViewAssumption DEF Init, TypeOK, Side
<1>4. ReadingOK /\ ReadIsShown
  BY DEF Init, ReadingOK, ReadIsShown
<1>5. IdleOK /\ ShownOnce /\ ShownIsRead
  BY <1>1, <1>2 DEF IdleOK, ShownOnce, ShownIsRead, NoRow, Side
<1>6. QED
  BY <1>3, <1>4, <1>5 DEF IInv

\* A step that changes neither a row nor a window keeps what they satisfy.
LEMMA Stutter ==
    ASSUME IInv, UNCHANGED <<hist, read, chat, bubble>>
    PROVE  (ReadingOK /\ IdleOK /\ ShownOnce /\ ReadIsShown /\ ShownIsRead)'
BY DEF IInv, ReadingOK, IdleOK, ShownOnce, ReadIsShown, ShownIsRead, Received,
       Pending

\* A new process has no windows, so only what it says about rows remains.
LEMMA EndStep ==
    ASSUME IInv, NEW how \in {"exit", "crash"}, End(how)
    PROVE  IInv'
<1>1. /\ bubble' \in [Friend -> [Side -> [Time -> Nat]]]
      /\ \A f \in Friend, o \in Side, t \in Time : bubble'[f][o][t] = 0
  BY EmptyWindows DEF End
<1>2. hist' = hist /\ chat' = {} /\ read' = NoRead
  BY DEF End
<1>3. TypeOK'
  BY <1>1, ChatViewAssumption DEF End, IInv, TypeOK, Side
<1>4. ReadingOK' /\ ReadIsShown'
  BY <1>2 DEF ReadingOK, ReadIsShown
<1>5. IdleOK' /\ ShownOnce' /\ ShownIsRead'
  BY <1>1, <1>2 DEF IInv, IdleOK, ShownOnce, ShownIsRead, Side
<1>6. QED
  BY <1>3, <1>4, <1>5 DEF IInv

\* A row that is inserted was no row before, so it is neither shown nor read.
LEMMA TaskSwapMsgStep ==
    ASSUME IInv, NEW f \in Friend, NEW t \in Time, TaskSwapMsg(f, t)
    PROVE  IInv'
<1>1. PICK row : row = [object |-> "AL", non_read |-> 1]
  OBVIOUS
<1>2. row \in Row /\ row.object = "AL" /\ row.non_read = 1
  BY <1>1 DEF Row
<1>3. /\ hist' \in [Friend -> [Time -> Rows]]
      /\ \A g \in Friend, u \in Time :
            hist'[g][u] = IF g = f /\ u = t /\ hist[f][t] = NoRow
                          THEN row ELSE hist[g][u]
  BY <1>1, <1>2, InsertRow, Types DEF TaskSwapMsg, IInv
<1>4. UNCHANGED <<run, session, signals, chat, show, read, bubble>>
  BY DEF TaskSwapMsg
<1>5. TypeOK'
  BY <1>3, <1>4 DEF TaskSwapMsg, IInv, TypeOK, Rows
<1>6. row # NoRow
  BY <1>2 DEF NoRow
<1>7. \A g \in Friend, u \in Time :
         hist[g][u] # NoRow => hist'[g][u] = hist[g][u]
  BY <1>3
<1>8. \A g \in Friend, u \in Time :
         hist'[g][u] # hist[g][u] => hist'[g][u].object = "AL" /\ hist'[g][u].non_read = 1
  BY <1>2, <1>3
<1>9. ReadingOK'
  BY <1>4, <1>7, ReadCases, Types DEF IInv, ReadingOK
<1>10. IdleOK' /\ ShownOnce'
  BY <1>4, <1>8 DEF IInv, IdleOK, ShownOnce
<1>11. ShownIsRead'
  <2>1. \A g \in Friend, u \in Time : Received(g, u) => hist[g][u] # NoRow
    BY DEF Received, NoRow
  <2>2. QED
    BY <1>4, <1>7, <2>1 DEF IInv, ShownIsRead, Received
<1>12. ReadIsShown'
  <2>1. chat \subseteq Friend
    BY DEF IInv, TypeOK
  <2>2. QED
    BY <1>4, <1>8, <2>1 DEF IInv, ReadIsShown, Received, Pending
<1>13. QED
  BY <1>5, <1>9, <1>10, <1>11, <1>12 DEF IInv

\* The rows make_chat selects have no bubble yet: the window is new.
LEMMA ClickStep ==
    ASSUME IInv, NEW f \in Friend, Click(f)
    PROVE  IInv'
<1>1. CASE f \in chat
  <2>1. show' = f /\ UNCHANGED <<hist, run, session, hv, signals, chat, read, bubble>>
    BY <1>1 DEF Click
  <2>2. TypeOK'
    BY <1>1, <2>1 DEF IInv, TypeOK
  <2>3. QED
    BY <2>1, <2>2, Stutter DEF IInv
<1>2. CASE f \notin chat
  <2>1. /\ chat' = chat \union {f}
        /\ read' = Reading(f, SelectHistory(f), TRUE)
        /\ UNCHANGED <<hist, run, session, hv, signals, show, bubble>>
        /\ read = NoRead
    BY <1>2 DEF Click, GuiIdle
  <2>2. SelectHistory(f) \in SUBSET Time
    BY DEF SelectHistory
  <2>3. /\ read' \in Reads
        /\ read'.friend = f
        /\ read'.got = SelectHistory(f)
        /\ read'.todo = SelectHistory(f)
    BY <2>1, <2>2 DEF Reading, Reads
  <2>4. TypeOK'
    BY <2>1, <2>3 DEF IInv, TypeOK, Reads
  <2>5. ReadingOK'
    BY <1>2, <2>1, <2>3 DEF IInv, ReadingOK, IdleOK, SelectHistory
  <2>6. IdleOK' /\ ShownOnce' /\ ShownIsRead'
    BY <2>1 DEF IInv, IdleOK, ShownOnce, ShownIsRead, Received
  <2>7. ReadIsShown'
    <3>1. \A g \in chat, t \in Time : ~Pending(g, t)
      BY <2>1, ReadCases, Types DEF IInv, TypeOK, Pending
    <3>2. \A t \in Time : t \notin read'.got => hist[f][t] = NoRow
      BY <2>3 DEF SelectHistory
    <3>3. \A t \in Time : (Pending(f, t))' <=> t \in read'.got
      BY <2>3 DEF Pending
    <3>4. NoRow.object = "none"
      BY DEF NoRow
    <3>5. \A g \in chat, t \in Time :
            /\ (Received(g, t) /\ hist[g][t].non_read = 0 => bubble[g]["AL"][t] > 0)'
            /\ (hist[g][t].object = "AR" => bubble[g]["AR"][t] > 0)'
      BY <2>1, <3>1 DEF IInv, ReadIsShown, Received
    <3>6. \A t \in Time :
            /\ (Received(f, t) => Pending(f, t))'
            /\ (hist[f][t].object = "AR" => Pending(f, t))'
      BY <2>1, <3>2, <3>3, <3>4 DEF Received
    <3>7. QED
      BY <2>1, <3>5, <3>6 DEF ReadIsShown
  <2>8. QED
    BY <2>4, <2>5, <2>6, <2>7 DEF IInv
<1>3. QED
  BY <1>1, <1>2

\* The rows a signal selects are unread, so they have no bubble either.
LEMMA AddRecvMsgStep ==
    ASSUME IInv, AddRecvMsg
    PROVE  IInv'
<1>1. /\ signals \in Seq(Friend)
      /\ signals # <<>>
      /\ signals' = Tail(signals)
      /\ read = NoRead
      /\ UNCHANGED <<hist, run, session, hv, chat, show, bubble>>
  BY DEF IInv, TypeOK, AddRecvMsg, GuiIdle
<1>2. signals' \in Seq(Friend) /\ Head(signals) \in Friend
  BY <1>1
<1>3. PICK f \in Friend : f = Head(signals)
  BY <1>2
<1>4. CASE f \in chat /\ show = f
  <2>1. read' = Reading(f, SelectNonRead(f), FALSE)
    BY <1>3, <1>4 DEF AddRecvMsg
  <2>2. SelectNonRead(f) \in SUBSET Time
    BY DEF SelectNonRead, SelectHistory
  <2>3. /\ read' \in Reads
        /\ read'.friend = f
        /\ read'.got = SelectNonRead(f)
        /\ read'.todo = SelectNonRead(f)
    BY <2>1, <2>2 DEF Reading, Reads
  <2>4. TypeOK'
    BY <1>1, <1>2, <2>3 DEF IInv, TypeOK, Reads
  <2>5. ReadingOK'
    <3>1. \A t \in Time : bubble[f]["AL"][t] \in Nat
      BY Types DEF IInv, Side
    <3>2. \A t \in SelectNonRead(f) :
            /\ t \in Time
            /\ hist[f][t] # NoRow
            /\ bubble[f]["AL"][t] = 0
      BY <3>1 DEF IInv, ShownIsRead, SelectNonRead, SelectHistory
    <3>3. QED
      BY <1>1, <1>4, <2>3, <3>2 DEF ReadingOK
  <2>6. IdleOK' /\ ShownOnce' /\ ShownIsRead'
    BY <1>1 DEF IInv, IdleOK, ShownOnce, ShownIsRead, Received
  <2>7. ReadIsShown'
    <3>1. \A g \in chat, t \in Time : ~Pending(g, t)
      BY <1>1, ReadCases, Types DEF IInv, TypeOK, Pending
    <3>2. QED
      BY <1>1, <3>1 DEF IInv, ReadIsShown, Received
  <2>8. QED
    BY <2>4, <2>5, <2>6, <2>7 DEF IInv
<1>5. CASE ~(f \in chat /\ show = f)
  <2>1. read' = read
    BY <1>3, <1>5 DEF AddRecvMsg
  <2>2. TypeOK'
    BY <1>1, <1>2, <2>1 DEF IInv, TypeOK
  <2>3. QED
    BY <1>1, <2>1, <2>2, Stutter DEF IInv
<1>6. QED
  BY <1>4, <1>5

\* Clearing the flag of a selected row: it is pending, so it will be shown.
LEMMA UpdateNonReadStep ==
    ASSUME IInv, NEW t \in Time, UpdateNonRead(t)
    PROVE  IInv'
<1>1. /\ read # NoRead
      /\ t \in read.todo
      /\ read' = [read EXCEPT !.todo = @ \ {t}]
      /\ UNCHANGED <<run, session, hv, signals, chat, show, bubble>>
  BY DEF UpdateNonRead
<1>2. PICK f \in Friend : f = read.friend
  BY <1>1, ReadCases, Types DEF IInv
<1>3. read \in Reads
  BY <1>1, ReadCases, Types DEF IInv
<1>4. /\ read' \in Reads
      /\ read'.friend = f
      /\ read'.got = read.got
      /\ read'.todo = read.todo \ {t}
  BY <1>1, <1>2, <1>3 DEF Reads
<1>5. /\ f \in chat
      /\ read.todo \subseteq read.got
      /\ t \in read.got
      /\ hist[f][t] # NoRow
      /\ bubble[f]["AL"][t] = 0
  BY <1>1, <1>2 DEF IInv, ReadingOK
<1>6. hist[f][t] \in Row
  BY <1>5, RowCases, Types DEF IInv
<1>7. /\ hist' \in [Friend -> [Time -> Rows]]
      /\ \A g \in Friend, u \in Time :
            g # f \/ u # t => hist'[g][u] = hist[g][u]
      /\ hist'[f][t] \in Row
      /\ hist'[f][t].object = hist[f][t].object
      /\ hist'[f][t].non_read = 0
  <2>1. hist' = [hist EXCEPT ![f][t].non_read = 0]
    BY <1>2 DEF UpdateNonRead
  <2>2. QED
    BY <1>6, <2>1, ClearRow, Types DEF IInv
<1>8. hist'[f][t] # NoRow
  BY <1>7 DEF Row, NoRow
<1>9. TypeOK'
  BY <1>1, <1>4, <1>7 DEF IInv, TypeOK, Rows, Reads
<1>10. ReadingOK'
  <2>1. \A u \in read.got :
          /\ u \in Time
          /\ hist'[f][u] # NoRow
          /\ bubble'[f]["AL"][u] = 0
          /\ u \notin read'.todo => hist'[f][u].non_read = 0
    <3>1. SUFFICES ASSUME NEW u \in read.got
                   PROVE  /\ u \in Time
                          /\ hist'[f][u] # NoRow
                          /\ bubble'[f]["AL"][u] = 0
                          /\ u \notin read'.todo => hist'[f][u].non_read = 0
      OBVIOUS
    <3>2. /\ u \in Time
          /\ hist[f][u] # NoRow
          /\ bubble[f]["AL"][u] = 0
          /\ u \notin read.todo => hist[f][u].non_read = 0
      BY <1>1, <1>2, <1>3 DEF IInv, ReadingOK, Reads
    <3>3. CASE u = t
      BY <1>1, <1>7, <1>8, <3>2, <3>3
    <3>4. CASE u # t
      BY <1>1, <1>4, <1>7, <3>2, <3>4
    <3>5. QED
      BY <3>3, <3>4
  <2>2. QED
    BY <1>1, <1>4, <1>5, <2>1 DEF ReadingOK
<1>11. \A g \in Friend, u \in Time :
         /\ hist'[g][u].object = hist[g][u].object
         /\ hist[g][u].non_read = 0 => hist'[g][u].non_read = 0
         /\ g # f \/ u # t => hist'[g][u].non_read = hist[g][u].non_read
  BY <1>7
<1>12. IdleOK' /\ ShownOnce'
  BY <1>1, <1>11 DEF IInv, IdleOK, ShownOnce
<1>13. ShownIsRead'
  BY <1>1, <1>11 DEF IInv, ShownIsRead, Received
<1>14. \A g \in Friend, u \in Time : Pending(g, u)' <=> Pending(g, u)
  BY <1>2, <1>4 DEF Pending
<1>15. ReadIsShown'
  <2>1. chat \subseteq Friend /\ Pending(f, t)
    BY <1>2, <1>5 DEF IInv, TypeOK, Pending
  <2>2. SUFFICES ASSUME NEW g \in chat, NEW u \in Time
                 PROVE  /\ (Received(g, u) /\ hist[g][u].non_read = 0 =>
                              bubble[g]["AL"][u] > 0 \/ Pending(g, u))'
                        /\ (hist[g][u].object = "AR" =>
                              bubble[g]["AR"][u] > 0 \/ Pending(g, u))'
    BY <1>1 DEF ReadIsShown
  <2>3. CASE g = f /\ u = t
    BY <1>14, <2>1, <2>3
  <2>4. CASE g # f \/ u # t
    BY <1>1, <1>11, <1>14, <2>1, <2>4 DEF IInv, ReadIsShown, Received
  <2>5. QED
    BY <2>3, <2>4
<1>16. QED
  BY <1>9, <1>10, <1>12, <1>13, <1>15 DEF IInv

\* The rows that were pending get their bubble, the first one if received.
LEMMA SetHistoryMsgStep ==
    ASSUME IInv, SetHistoryMsg
    PROVE  IInv'
<1>1. /\ read # NoRead
      /\ read.todo = {}
      /\ read' = NoRead
      /\ show' = IF read.raise THEN read.friend ELSE show
      /\ UNCHANGED <<hist, run, session, hv, signals, chat>>
  BY DEF SetHistoryMsg
<1>2. PICK f \in Friend : f = read.friend
  BY <1>1, ReadCases, Types DEF IInv
<1>3. /\ f \in chat
      /\ chat \subseteq Friend
      /\ read.got \subseteq Time
  BY <1>1, <1>2, ReadCases, Types DEF IInv, ReadingOK, TypeOK
<1>4. \A t \in read.got :
         /\ hist[f][t] # NoRow
         /\ bubble[f]["AL"][t] = 0
         /\ hist[f][t].non_read = 0
  BY <1>1, <1>2 DEF IInv, ReadingOK
<1>5. /\ bubble' \in [Friend -> [Side -> [Time -> Nat]]]
      /\ \A g \in Friend, o \in Side, t \in Time :
            bubble'[g][o][t] =
                IF g = f /\ t \in read.got /\ hist[g][t].object = o
                THEN bubble[g][o][t] + 1 ELSE bubble[g][o][t]
  BY <1>2, ShowRows DEF IInv
<1>6. \A g \in Friend, o \in Side, t \in Time : bubble[g][o][t] \in Nat
  BY Types DEF IInv
<1>7. TypeOK'
  BY <1>1, <1>2, <1>3, <1>5 DEF IInv, TypeOK, Side
<1>8. ReadingOK'
  BY <1>1 DEF ReadingOK
<1>9. ASSUME NEW g \in Friend, NEW t \in Time
      PROVE  \/ /\ g = f /\ t \in read.got /\ Received(g, t)
                /\ bubble'[g]["AL"][t] = 1
             \/ /\ ~(g = f /\ t \in read.got /\ Received(g, t))
                /\ bubble'[g]["AL"][t] = bubble[g]["AL"][t]
  BY <1>4, <1>5 DEF Received, Side
<1>10. IdleOK'
  BY <1>1, <1>3, <1>9 DEF IInv, IdleOK
<1>11. ShownOnce'
  BY <1>9 DEF IInv, ShownOnce
<1>12. ShownIsRead'
  BY <1>1, <1>4, <1>9 DEF IInv, ShownIsRead, Received
<1>13. ReadIsShown'
  <2>1. SUFFICES ASSUME NEW g \in chat, NEW t \in Time
                 PROVE  /\ Received(g, t) /\ hist[g][t].non_read = 0 =>
                              bubble'[g]["AL"][t] > 0
                        /\ hist[g][t].object = "AR" => bubble'[g]["AR"][t] > 0
    BY <1>1 DEF ReadIsShown, Received
  <2>2. g \in Friend /\ bubble[g]["AL"][t] \in Nat /\ bubble[g]["AR"][t] \in Nat
    BY <1>3, <1>6 DEF Side
  <2>3. /\ Received(g, t) /\ hist[g][t].non_read = 0 =>
                bubble[g]["AL"][t] > 0 \/ (g = f /\ t \in read.got)
        /\ hist[g][t].object = "AR" =>
                bubble[g]["AR"][t] > 0 \/ (g = f /\ t \in read.got)
    BY <1>2 DEF IInv, ReadIsShown, Pending
  <2>4. /\ bubble'[g]["AL"][t] = IF g = f /\ t \in read.got /\ Received(g, t)
                                 THEN bubble[g]["AL"][t] + 1 ELSE bubble[g]["AL"][t]
        /\ bubble'[g]["AR"][t] = IF g = f /\ t \in read.got /\ hist[g][t].object = "AR"
                                 THEN bubble[g]["AR"][t] + 1 ELSE bubble[g]["AR"][t]
    BY <1>5, <2>2 DEF Side, Received
  <2>5. QED
    BY <2>2, <2>3, <2>4
<1>14. QED
  BY <1>7, <1>8, <1>10, <1>11, <1>12, <1>13 DEF IInv

\* A message of the user gets its bubble before its row.
LEMMA SendTextStep ==
    ASSUME IInv, NEW t \in Time, SendText(t)
    PROVE  IInv'
<1>1. /\ show # NoFriend
      /\ read = NoRead
      /\ UNCHANGED <<run, session, hv, signals, chat, show, read>>
  BY DEF SendText, GuiIdle
<1>2. PICK f \in Friend : f = show /\ f \in chat
  BY <1>1 DEF IInv, TypeOK
<1>3. PICK row : row = [object |-> "AR", non_read |-> 0]
  OBVIOUS
<1>4. row \in Row /\ row.object = "AR" /\ row.non_read = 0
  BY <1>3 DEF Row
<1>5. /\ hist' \in [Friend -> [Time -> Rows]]
      /\ \A g \in Friend, u \in Time :
            hist'[g][u] = IF g = f /\ u = t /\ hist[f][t] = NoRow
                          THEN row ELSE hist[g][u]
  BY <1>2, <1>3, <1>4, InsertRow, Types DEF SendText, IInv
<1>6. /\ bubble' \in [Friend -> [Side -> [Time -> Nat]]]
      /\ bubble'[f]["AR"][t] = bubble[f]["AR"][t] + 1
      /\ \A g \in Friend, u \in Time :
            /\ bubble'[g]["AL"][u] = bubble[g]["AL"][u]
            /\ g # f \/ u # t => bubble'[g]["AR"][u] = bubble[g]["AR"][u]
  <2>1. bubble' = [bubble EXCEPT ![f]["AR"][t] = bubble[f]["AR"][t] + 1]
    BY <1>2 DEF SendText
  <2>2. bubble \in [Friend -> [Side -> [Time -> Nat]]] /\ "AR" \in Side /\ "AL" \in Side
    BY Types DEF IInv, Side
  <2>3. QED
    BY <2>1, <2>2
<1>7. bubble[f]["AR"][t] \in Nat
  BY Types DEF IInv, Side
<1>8. TypeOK'
  BY <1>1, <1>5, <1>6 DEF IInv, TypeOK, Rows, Side
<1>9. \A g \in Friend, u \in Time :
         /\ g # f \/ u # t \/ hist[g][u] # NoRow => hist'[g][u] = hist[g][u]
         /\ hist'[g][u] # hist[g][u] =>
                g = f /\ u = t /\ hist'[g][u].object = "AR" /\ hist'[g][u].non_read = 0
  BY <1>4, <1>5
<1>10. ReadingOK'
  BY <1>1 DEF ReadingOK
<1>11. IdleOK' /\ ShownOnce'
  <2>1. \A g \in Friend, u \in Time : bubble'[g]["AL"][u] = bubble[g]["AL"][u]
    BY <1>6
  <2>2. ShownOnce'
    BY <2>1 DEF IInv, ShownOnce
  <2>3. SUFFICES ASSUME NEW g \in Friend, NEW u \in Time
                 PROVE  /\ g \notin chat' => bubble'[g]["AL"][u] = 0
                        /\ hist'[g][u].object = "AR" => hist'[g][u].non_read = 0
    BY <2>2 DEF IdleOK
  <2>4. g \notin chat' => bubble'[g]["AL"][u] = 0
    BY <1>1, <2>1 DEF IInv, IdleOK
  <2>5. hist'[g][u].object = "AR" => hist'[g][u].non_read = 0
    BY <1>9 DEF IInv, IdleOK
  <2>6. QED
    BY <2>4, <2>5
<1>12. ShownIsRead'
  <2>1. \A g \in Friend, u \in Time : Received(g, u) => hist[g][u] # NoRow
    BY DEF Received, NoRow
  <2>2. SUFFICES ASSUME NEW g \in Friend, NEW u \in Time,
                        bubble'[g]["AL"][u] > 0
                 PROVE  hist'[g][u].object = "AL" /\ hist'[g][u].non_read = 0
    BY DEF ShownIsRead, Received
  <2>3. bubble[g]["AL"][u] > 0
    BY <1>6, <2>2
  <2>4. Received(g, u) /\ hist[g][u].non_read = 0
    BY <2>3 DEF IInv, ShownIsRead
  <2>5. QED
    BY <1>9, <2>1, <2>4 DEF Received
<1>13. ReadIsShown'
  <2>1. SUFFICES ASSUME NEW g \in chat, NEW u \in Time
                 PROVE  /\ (Received(g, u) /\ hist[g][u].non_read = 0 =>
                              bubble[g]["AL"][u] > 0 \/ Pending(g, u))'
                        /\ (hist[g][u].object = "AR" =>
                              bubble[g]["AR"][u] > 0 \/ Pending(g, u))'
    BY <1>1 DEF ReadIsShown
  <2>2. g \in Friend
    BY DEF IInv, TypeOK
  <2>3. CASE hist'[g][u] = hist[g][u]
    <3>1. /\ Received(g, u) /\ hist[g][u].non_read = 0 =>
                bubble[g]["AL"][u] > 0 \/ Pending(g, u)
          /\ hist[g][u].object = "AR" => bubble[g]["AR"][u] > 0 \/ Pending(g, u)
      BY DEF IInv, ReadIsShown
    <3>2. Pending(g, u)' <=> Pending(g, u)
      BY <1>1 DEF Pending
    <3>3. bubble[g]["AR"][u] > 0 => bubble'[g]["AR"][u] > 0
      BY <1>6, <1>7, <2>2
    <3>4. QED
      BY <1>6, <2>2, <2>3, <3>1, <3>2, <3>3 DEF Received
  <2>4. CASE hist'[g][u] # hist[g][u]
    BY <1>6, <1>7, <1>9, <2>2, <2>4 DEF Received
  <2>5. QED
    BY <2>3, <2>4
<1>14. QED
  BY <1>8, <1>10, <1>11, <1>12, <1>13 DEF IInv

\* The remaining steps leave rows and windows alone.
LEMMA QuietStep ==
    ASSUME IInv, Start \/ EmitRecvMsg \/ UNCHANGED vars
    PROVE  IInv'
<1>1. CASE Start
  <2>1. TypeOK'
    BY <1>1 DEF IInv, TypeOK, Start
  <2>2. QED
    BY <1>1, <2>1, Stutter DEF IInv, Start
<1>2. CASE EmitRecvMsg
  <2>1. /\ signals \in Seq(Friend)
        /\ signals' = Append(signals, hv.friend)
        /\ hv' = NoMsg
        /\ UNCHANGED <<hist, run, session, chat, show, read, bubble>>
    BY <1>2 DEF EmitRecvMsg, IInv, TypeOK
  <2>2. hv.friend \in Friend
    BY <1>2 DEF EmitRecvMsg, IInv, TypeOK
  <2>3. signals' \in Seq(Friend)
    BY <2>1, <2>2
  <2>4. TypeOK'
    BY <2>1, <2>3 DEF IInv, TypeOK
  <2>5. QED
    BY <2>1, <2>4, Stutter DEF IInv
<1>3. CASE UNCHANGED vars
  <2>1. TypeOK'
    BY <1>3 DEF IInv, TypeOK, vars
  <2>2. QED
    BY <1>3, <2>1, Stutter DEF IInv, vars
<1>4. QED
  BY <1>1, <1>2, <1>3
-----------------------------------------------------------------------------
\* What every reachable state satisfies, with what makes it inductive: the
\* history that is being read, the windows and the rows agree.
THEOREM Invariance == Spec => []IInv
<1>1. IInv /\ [Next]_vars => IInv'
  <2> SUFFICES ASSUME IInv, [Next]_vars PROVE IInv'
    OBVIOUS
  <2>1. CASE \E f \in Friend : Click(f)
    BY <2>1, ClickStep
  <2>2. CASE \E f \in Friend, t \in Time : TaskSwapMsg(f, t)
    BY <2>2, TaskSwapMsgStep
  <2>3. CASE \E t \in Time : UpdateNonRead(t)
    BY <2>3, UpdateNonReadStep
  <2>4. CASE \E t \in Time : SendText(t)
    BY <2>4, SendTextStep
  <2>5. CASE End("exit") \/ SendDrop
    BY <2>5, EndStep DEF SendDrop
  <2>6. QED
    BY <2>1, <2>2, <2>3, <2>4, <2>5, AddRecvMsgStep, SetHistoryMsgStep,
       QuietStep DEF Next, Reader
<1>2. QED
  BY <1>1, InitIInv, PTL DEF Spec

\* Every variable of the chat windows keeps its type.
THEOREM TypeCorrect == Spec => []TypeOK
<1>1. IInv => TypeOK
  BY DEF IInv
<1>2. QED
  BY <1>1, Invariance, PTL

\* set_history_msg never shows a received message a second time.
THEOREM ShownOnceHolds == Spec => []ShownOnce
<1>1. IInv => ShownOnce
  BY DEF IInv
<1>2. QED
  BY <1>1, Invariance, PTL

\* update_non_read never marks a message that its window then does not show.
THEOREM ReadIsShownHolds == Spec => []ReadIsShown
<1>1. IInv => ReadIsShown
  BY DEF IInv
<1>2. QED
  BY <1>1, Invariance, PTL

\* A received message that a window shows has been marked by update_non_read.
THEOREM ShownIsReadHolds == Spec => []ShownIsRead
<1>1. IInv => ShownIsRead
  BY DEF IInv
<1>2. QED
  BY <1>1, Invariance, PTL

\* insert_history and update_non_read leave a row that has been read as it is:
\* the first fills a free row only, the second only clears flags.
LEMMA ReadRowStays ==
    ASSUME IInv, Next, NEW f \in Friend, NEW t \in Time,
           Received(f, t), hist[f][t].non_read = 0
    PROVE  Received(f, t)' /\ hist'[f][t].non_read = 0
<1>1. hist[f][t] # NoRow
  BY DEF Received, NoRow
<1>2. CASE hist' = hist
  BY <1>2 DEF Received
<1>3. ASSUME NEW g \in Friend, NEW u \in Time, NEW row \in Row,
             hist' = InsertHistory(g, u, row)
      PROVE  hist'[f][t] = hist[f][t]
  BY <1>1, <1>3, InsertRow, Types DEF IInv
<1>4. CASE \E g \in Friend, u \in Time : TaskSwapMsg(g, u)
  <2>1. [object |-> "AL", non_read |-> 1] \in Row
    BY DEF Row
  <2>2. QED
    BY <1>3, <1>4, <2>1 DEF TaskSwapMsg, Received
<1>5. CASE \E u \in Time : SendText(u)
  <2>1. [object |-> "AR", non_read |-> 0] \in Row
    BY DEF Row
  <2>2. show \in Friend
    BY <1>5, Types DEF IInv, SendText
  <2>3. QED
    BY <1>3, <1>5, <2>1, <2>2 DEF SendText, Received
<1>6. CASE \E u \in Time : UpdateNonRead(u)
  <2>1. PICK u \in Time : UpdateNonRead(u)
    BY <1>6
  <2>2. PICK g \in Friend : g = read.friend
    BY <2>1, ReadCases, Types DEF IInv, UpdateNonRead
  <2>3. hist[g][u] \in Row
    BY <2>1, <2>2, RowCases, Types DEF IInv, ReadingOK, UpdateNonRead
  <2>4. hist' = [hist EXCEPT ![g][u].non_read = 0]
    BY <2>1, <2>2 DEF UpdateNonRead
  <2>5. QED
    BY <2>3, <2>4, ClearRow, Types DEF IInv, Received
<1>7. QED
  BY <1>2, <1>4, <1>5, <1>6 DEF Next, Reader, Start, End, Click, EmitRecvMsg,
     AddRecvMsg, SetHistoryMsg, SendDrop

\* A message that has been read stays read: no step sets non_read again.
THEOREM ReadStaysReadHolds == Spec => ReadStaysRead
<1>1. IInv /\ [Next]_vars =>
        [\A f \in Friend, t \in Time :
            (Received(f, t) /\ hist[f][t].non_read = 0)
               => (Received(f, t) /\ hist[f][t].non_read = 0)']_vars
  BY ReadRowStays
<1>2. QED
  BY <1>1, Invariance, PTL DEF Spec, ReadStaysRead
=============================================================================
