---------------------------- MODULE PersonInfoProof ----------------------------
(***************************************************************************)
(* Proofs about PersonInfo, for any friends, remarks and information and   *)
(* any number of frames and dialogs.                                       *)
(*                                                                         *)
(* What is typed is replaced as a whole by an answer, so what the fields   *)
(* hold is either what was set or about the friend shown; information that *)
(* an answer puts under a waiting dialog comes from the server, which only *)
(* has verified information.  The last answer about a friend's remark in   *)
(* transit carries what the server stores.                                 *)
(***************************************************************************)
EXTENDS PersonInfo, Queues

\* Only what was typed about the friend shown differs from what was set.
TypedForShown == fd.edit = fd.saved \/ fd.edit.of \in {fd.account, NoFriend}

\* While a change waits for confirmation, the fields stay verified.
ConfirmIsVerified ==
    "confirm" \in Contents(dialog) => own.edit.rest \notin OutOfRange

\* A frame for the server that may be sent: its remark is about the friend it
\* names, its information has been verified.
Proper(m) ==
    /\ m.type = "ac_update_remarks" => m.remarks.of \in {m.friends, NoFriend}
    /\ m.type = "ac_update_info" /\ ~m.icon => m.info.rest \notin OutOfRange

SentIsProper == \A m \in Contents(toServer) : Proper(m)

StoredForFriend == \A f \in Friend : srvRemarks[f].of \in {f, NoFriend}

\* What the server has, and says, has been verified.
ServedIsVerified ==
    /\ srvInfo.rest \notin OutOfRange
    /\ \A m \in Contents(toClient) :
           m.type = "ac_info_all_back" => m.info.rest \notin OutOfRange

\* The answers about the remark of f.
Backs(f) == [type : {"ac_update_remarks_back"}, friends : {f}, remarks : Text]

\* Position k holds the last frame of S.
IsLast(q, S, k) == q[k] \in S /\ \A j \in DOMAIN q : q[j] \in S => j <= k

\* The last answer about f in q carries the remark stored; without one the
\* remark shown is the one stored.
Catches(q, f, shown, stored) ==
    /\ None(q, Backs(f)) => shown = stored
    /\ \A k \in DOMAIN q : IsLast(q, Backs(f), k) => q[k].remarks = stored

LastAgrees ==
    conn = "open" =>
        \A f \in Friend : Catches(toClient, f, remarks[f], srvRemarks[f])

\* What the panels hold, and what is stored and under way.
Panels == TypedForShown /\ ConfirmIsVerified
Traffic == SentIsProper /\ StoredForFriend /\ ServedIsVerified /\ LastAgrees

IInv == TypeOK /\ Panels /\ Traffic
-----------------------------------------------------------------------------
(***************************************************************************)
(* Frames and queues.                                                      *)
(***************************************************************************)
\* What a frame for the server carries, by its type.
LEMMA ToServerKinds ==
    ASSUME NEW m \in ToServer
    PROVE  /\ m.type = "ac_info_all" =>
                 \/ m.types = "account" /\ m.account = NoFriend
                 \/ m.types = "friends" /\ m.account \in Friend
           /\ m.type = "ac_update_info" =>
                 /\ m.icon \in BOOLEAN
                 /\ ~m.icon => m.info \in Info
           /\ m.type = "ac_update_remarks" => m.friends \in Friend /\ m.remarks \in Text
BY DEF ToServer

\* ... and a frame for the client; an answer about a remark is one of Backs.
LEMMA ToClientKinds ==
    ASSUME NEW m \in ToClient
    PROVE  /\ m.type = "ac_info_all_back" =>
                 /\ m.info \in Info
                 /\ m.types = "friends" => m.account \in Friend
           /\ m.type = "ac_update_info_back" => m.icon \in BOOLEAN /\ m.ok \in BOOLEAN
           /\ m.type = "ac_update_remarks_back" =>
                 m.friends \in Friend /\ m.remarks \in Text /\ m \in Backs(m.friends)
BY DEF ToClient, Backs

\* An answer about the remark of f names f.
LEMMA BacksShape ==
    ASSUME NEW f, NEW m \in Backs(f)
    PROVE  m.type = "ac_update_remarks_back" /\ m.friends = f
BY DEF Backs

\* A new answer about f is the last one.
LEMMA CatchesAppend ==
    ASSUME NEW T, NEW q \in Seq(T), NEW m \in T, NEW f, m \in Backs(f), NEW shown
    PROVE  Catches(Append(q, m), f, shown, m.remarks)
<1> DEFINE r == Append(q, m)
           n == Len(q) + 1
<1>1. n \in Nat /\ DOMAIN r = 1..n /\ n \in DOMAIN r /\ r[n] = m
  BY AppendAt
<1> HIDE DEF r, n
<1>2. ~None(r, Backs(f))
  BY <1>1 DEF None
<1>3. ASSUME NEW k \in DOMAIN r, IsLast(r, Backs(f), k) PROVE r[k] = m
  BY <1>1, <1>3 DEF IsLast
<1>4. QED
  BY <1>2, <1>3 DEF Catches, r

\* A frame about something else is not.
LEMMA CatchesAppendOther ==
    ASSUME NEW T, NEW q \in Seq(T), NEW m \in T, NEW f, m \notin Backs(f),
           NEW a, NEW b, Catches(q, f, a, b)
    PROVE  Catches(Append(q, m), f, a, b)
<1> DEFINE r == Append(q, m)
<1>1. /\ Len(q) \in Nat
      /\ DOMAIN q = 1..Len(q)
      /\ DOMAIN r = 1..(Len(q) + 1)
      /\ r[Len(q) + 1] = m
      /\ \A k \in 1..Len(q) : r[k] = q[k]
  BY AppendAt
<1> HIDE DEF r
<1>2. /\ \A k \in DOMAIN q : k \in DOMAIN r /\ r[k] = q[k]
      /\ \A k \in DOMAIN r : r[k] \in Backs(f) => k \in DOMAIN q /\ r[k] = q[k]
  BY <1>1
<1>3. QED
  BY <1>2 DEF Catches, None, IsLast, r

\* Taking off a frame about something else.
LEMMA CatchesTailOther ==
    ASSUME NEW T, NEW q \in Seq(T), q # <<>>, NEW f, Head(q) \notin Backs(f),
           NEW a, NEW b, Catches(q, f, a, b)
    PROVE  Catches(Tail(q), f, a, b)
<1> DEFINE r == Tail(q)
<1>1. /\ q[1] \notin Backs(f)
      /\ DOMAIN r \subseteq Nat
      /\ \A k \in DOMAIN r : k + 1 \in DOMAIN q /\ r[k] = q[k + 1]
      /\ \A k \in DOMAIN q : k = 1 \/ \E i \in DOMAIN r : k = i + 1
  BY TailPlaces
<1> HIDE DEF r
<1>2. None(r, Backs(f)) => None(q, Backs(f))
  BY <1>1 DEF None
<1>3. ASSUME NEW k \in DOMAIN r, IsLast(r, Backs(f), k)
      PROVE  IsLast(q, Backs(f), k + 1) /\ r[k] = q[k + 1] /\ k + 1 \in DOMAIN q
  <2>1. ASSUME NEW j \in DOMAIN q, q[j] \in Backs(f) PROVE j <= k + 1
    <3>1. PICK i \in DOMAIN r : j = i + 1
      BY <1>1, <2>1
    <3>2. i <= k /\ i \in Nat /\ k \in Nat
      BY <1>1, <1>3, <2>1, <3>1 DEF IsLast
    <3>3. QED
      BY <3>1, <3>2
  <2>2. QED
    BY <1>1, <1>3, <2>1 DEF IsLast
<1>4. QED
  BY <1>2, <1>3 DEF Catches, r

\* Applying an answer about f: it was the last one, or another is behind it.
LEMMA CatchesTail ==
    ASSUME NEW T, NEW q \in Seq(T), q # <<>>, NEW f, Head(q) \in Backs(f),
           NEW a, NEW b, Catches(q, f, a, b)
    PROVE  Catches(Tail(q), f, Head(q).remarks, b)
<1> DEFINE r == Tail(q)
<1>1. /\ 1 \in DOMAIN q /\ q[1] = Head(q)
      /\ DOMAIN r \subseteq Nat
      /\ \A k \in DOMAIN r : k + 1 \in DOMAIN q /\ r[k] = q[k + 1]
      /\ \A k \in DOMAIN q : k = 1 \/ \E i \in DOMAIN r : k = i + 1
  BY TailPlaces
<1> HIDE DEF r
<1>2. None(r, Backs(f)) => IsLast(q, Backs(f), 1)
  BY <1>1 DEF None, IsLast
<1>3. ASSUME NEW k \in DOMAIN r, IsLast(r, Backs(f), k)
      PROVE  IsLast(q, Backs(f), k + 1) /\ r[k] = q[k + 1] /\ k + 1 \in DOMAIN q
  <2>1. ASSUME NEW j \in DOMAIN q, q[j] \in Backs(f) PROVE j <= k + 1
    <3>1. CASE j = 1
      BY <1>1, <3>1
    <3>2. CASE j # 1
      <4>1. PICK i \in DOMAIN r : j = i + 1
        BY <1>1, <3>2
      <4>2. i <= k /\ i \in Nat /\ k \in Nat
        BY <1>1, <1>3, <2>1, <4>1 DEF IsLast
      <4>3. QED
        BY <4>1, <4>2
    <3>3. QED
      BY <3>1, <3>2
  <2>2. QED
    BY <1>1, <1>3, <2>1 DEF IsLast
<1>4. QED
  BY <1>1, <1>2, <1>3 DEF Catches, r

\* Closing the dialog on top leaves the others; it was one of them.
LEMMA FrontIsShorter ==
    ASSUME NEW T, NEW s \in Seq(T), s # <<>>
    PROVE  /\ Front(s) \in Seq(T)
           /\ Contents(Front(s)) \subseteq Contents(s)
           /\ Last(s) \in Contents(s)
<1>1. Len(s) \in Nat \ {0} /\ DOMAIN s = 1..Len(s)
  OBVIOUS
<1>2. /\ Front(s) \in Seq(T)
      /\ DOMAIN Front(s) = 1..(Len(s) - 1)
      /\ \A k \in 1..(Len(s) - 1) : Front(s)[k] = s[k]
  BY <1>1 DEF Front
<1>3. QED
  BY <1>1, <1>2 DEF Contents, Last

\* What is left when the connection ends is part of what was there.
LEMMA PrefixIsPart ==
    ASSUME NEW T, NEW s \in Seq(T), NEW n \in 0..Len(s)
    PROVE  SubSeq(s, 1, n) \in Seq(T) /\ Contents(SubSeq(s, 1, n)) \subseteq Contents(s)
<1>1. Len(s) \in Nat /\ DOMAIN s = 1..Len(s)
  OBVIOUS
<1>2. /\ SubSeq(s, 1, n) \in Seq(T)
      /\ DOMAIN SubSeq(s, 1, n) = 1..n
      /\ \A k \in 1..n : SubSeq(s, 1, n)[k] = s[k]
  BY <1>1
<1>3. QED
  BY <1>1, <1>2 DEF Contents
-----------------------------------------------------------------------------
(***************************************************************************)
(* Initial states, and what the parts depend on.                           *)
(***************************************************************************)
\* The invariant holds at first.
LEMMA InitIInv ==
    ASSUME Init
    PROVE  IInv
<1>1. Blank \in Typed /\ NoText \in Text /\ Info \subseteq Typed
  BY PersonInfoAssumption DEF Blank, Typed, NoText, Text, Info, Sex
<1>2. own \in OwnPanel /\ fd \in FriendPanel
  BY <1>1 DEF Init, OwnPanel, FriendPanel
<1>3. Contents(toServer) = {} /\ Contents(toClient) = {} /\ Contents(dialog) = {}
  BY DEF Init, Contents
<1>4. TypeOK
  BY <1>2 DEF Init, TypeOK
<1>5. Panels
  BY <1>3 DEF Init, Panels, TypedForShown, ConfirmIsVerified
<1>6. SentIsProper /\ StoredForFriend /\ ServedIsVerified
  BY <1>3 DEF Init, SentIsProper, StoredForFriend, ServedIsVerified
<1>7. LastAgrees
  <2>1. toClient = <<>> /\ remarks = srvRemarks
    BY DEF Init
  <2>2. \A f, a : Catches(<<>>, f, a, a)
    BY DEF Catches, None
  <2>3. QED
    BY <2>1, <2>2 DEF LastAgrees
<1>8. QED
  BY <1>4, <1>5, <1>6, <1>7 DEF IInv, Traffic

\* The traffic is what it was when nothing it is about has changed.
LEMMA TrafficSame ==
    ASSUME Traffic, UNCHANGED <<conn, remarks, toServer, toClient, srvVars>>
    PROVE  Traffic'
<1>1. /\ conn' = conn /\ remarks' = remarks /\ toServer' = toServer
      /\ toClient' = toClient /\ srvInfo' = srvInfo /\ srvRemarks' = srvRemarks
  BY DEF srvVars
<1>2. SentIsProper' /\ StoredForFriend' /\ ServedIsVerified'
  BY <1>1 DEF Traffic, SentIsProper, StoredForFriend, ServedIsVerified
<1>3. LastAgrees'
  BY <1>1 DEF Traffic, LastAgrees
<1>4. QED
  BY <1>2, <1>3 DEF Traffic

\* The panels are what they were when nothing they hold has changed.
LEMMA PanelsSame ==
    ASSUME Panels, UNCHANGED <<own, fd, dialog>>
    PROVE  Panels'
BY DEF Panels, TypedForShown, ConfirmIsVerified

\* Sending a proper frame.
LEMMA SendProper ==
    ASSUME TypeOK, Traffic, NEW m \in ToServer, Proper(m), Send(m),
           UNCHANGED <<conn, remarks, toClient, srvVars>>
    PROVE  toServer' \in Seq(ToServer) /\ Traffic'
<1>1. /\ conn' = conn /\ remarks' = remarks
      /\ toClient' = toClient /\ srvInfo' = srvInfo /\ srvRemarks' = srvRemarks
  BY DEF srvVars
<1>2. toServer \in Seq(ToServer)
  BY DEF TypeOK
<1>3. toServer' \in Seq(ToServer) /\ Contents(toServer') \subseteq Contents(toServer) \union {m}
  BY <1>2, ContentsAppend, AppendAt DEF Send
<1>4. SentIsProper'
  BY <1>3 DEF Traffic, SentIsProper
<1>5. StoredForFriend' /\ ServedIsVerified'
  BY <1>1 DEF Traffic, StoredForFriend, ServedIsVerified
<1>6. LastAgrees'
  BY <1>1 DEF Traffic, LastAgrees
<1>7. QED
  BY <1>3, <1>4, <1>5, <1>6 DEF Traffic

\* Buttons that only change what is shown.
LEMMA NavigateStep ==
    ASSUME IInv, ClickFriend \/ ClickExtend \/ ClickAdd \/ CancelInfo
    PROVE  IInv'
<1>1. /\ UNCHANGED <<conn, remarks, toServer, toClient, srvVars>>
      /\ UNCHANGED <<own, fd, dialog>>
      /\ area' \in {area, "chat", "setting"}
      /\ ext' \in {ext, "extend", "add"}
  BY DEF ClickFriend, ClickExtend, ClickAdd, CancelInfo
<1>2. TypeOK'
  BY <1>1 DEF IInv, TypeOK, srvVars
<1>3. QED
  BY <1>1, <1>2, TrafficSame, PanelsSame DEF IInv

\* Typing into the own panel needs it shown, with no dialog open.
LEMMA EditInfoStep ==
    ASSUME IInv, NEW i \in Entry, EditInfo(i)
    PROVE  IInv'
<1>1. /\ UNCHANGED <<conn, remarks, toServer, toClient, srvVars>>
      /\ UNCHANGED <<area, ext, fd, dialog>>
      /\ dialog = <<>>
      /\ own' = [own EXCEPT !.edit = i]
  BY DEF EditInfo, OwnShown, UserFree
<1>2. i \in Typed
  BY PersonInfoAssumption DEF Typed, Sex
<1>3. own' \in OwnPanel
  BY <1>1, <1>2 DEF IInv, TypeOK, OwnPanel
<1>4. TypeOK'
  BY <1>1, <1>3 DEF IInv, TypeOK, srvVars
<1>5. Contents(dialog') = {}
  BY <1>1 DEF Contents
<1>6. Panels'
  BY <1>1, <1>5 DEF IInv, Panels, TypedForShown, ConfirmIsVerified
<1>7. QED
  BY <1>1, <1>4, <1>6, TrafficSame DEF IInv

\* What is typed into the friend panel is about the friend it shows.
LEMMA EditRemarksStep ==
    ASSUME IInv, NEW r \in Text, EditRemarks(r)
    PROVE  IInv'
<1>1. /\ UNCHANGED <<conn, remarks, toServer, toClient, srvVars>>
      /\ UNCHANGED <<area, ext, own, dialog>>
      /\ r.of \in {fd.account, NoFriend}
      /\ fd' = [fd EXCEPT !.edit = r]
  BY DEF EditRemarks
<1>2. fd' \in FriendPanel /\ fd'.account = fd.account /\ fd'.edit = r
  BY <1>1 DEF IInv, TypeOK, FriendPanel
<1>3. TypeOK'
  BY <1>1, <1>2 DEF IInv, TypeOK, srvVars
<1>4. Panels'
  BY <1>1, <1>2 DEF IInv, Panels, TypedForShown, ConfirmIsVerified
<1>5. QED
  BY <1>1, <1>3, <1>4, TrafficSame DEF IInv

\* A change that waits for confirmation has been verified.
LEMMA SaveInfoStep ==
    ASSUME IInv, SaveInfo
    PROVE  IInv'
<1>1. /\ UNCHANGED <<conn, remarks, toServer, toClient, srvVars>>
      /\ UNCHANGED <<area, own, fd>>
      /\ ext' \in {ext, "extend"}
      /\ \/ dialog' = dialog
         \/ dialog' = <<"limit">>
         \/ dialog' = <<"confirm">> /\ IsVerificationInfo(own.edit)
  BY DEF SaveInfo
<1>2. dialog' \in Seq(Dialogs)
  <2>1. <<"limit">> \in Seq(Dialogs) /\ <<"confirm">> \in Seq(Dialogs)
    BY DEF Dialogs
  <2>2. QED
    BY <1>1, <2>1 DEF IInv, TypeOK
<1>3. TypeOK'
  BY <1>1, <1>2 DEF IInv, TypeOK, srvVars
<1>4. dialog' = <<"limit">> => "confirm" \notin Contents(dialog')
  BY DEF Contents
<1>5. ConfirmIsVerified'
  BY <1>1, <1>4 DEF IInv, Panels, ConfirmIsVerified, IsVerificationInfo
<1>6. Panels'
  BY <1>1, <1>5 DEF IInv, Panels, TypedForShown
<1>7. QED
  BY <1>1, <1>3, <1>6, TrafficSame DEF IInv

\* Closing a dialog without an effect on the traffic.
LEMMA CloseStep ==
    ASSUME IInv, Dismiss \/ CloseFailed
    PROVE  IInv'
<1>1. /\ UNCHANGED <<conn, remarks, toServer, toClient, srvVars>>
      /\ UNCHANGED <<area, own, fd>>
      /\ ext' \in {ext, "extend"}
      /\ dialog # <<>> /\ dialog' = Front(dialog)
  BY DEF Dismiss, CloseFailed, Close
<1>2. dialog' \in Seq(Dialogs) /\ Contents(dialog') \subseteq Contents(dialog)
  BY <1>1, FrontIsShorter DEF IInv, TypeOK
<1>3. TypeOK'
  BY <1>1, <1>2 DEF IInv, TypeOK, srvVars
<1>4. Panels'
  BY <1>1, <1>2 DEF IInv, Panels, TypedForShown, ConfirmIsVerified
<1>5. QED
  BY <1>1, <1>3, <1>4, TrafficSame DEF IInv
-----------------------------------------------------------------------------
(***************************************************************************)
(* Actions that send.                                                      *)
(***************************************************************************)
\* Asking for information, and announcing an icon: the frames carry nothing
\* that has to be proper.
LEMMA AskStep ==
    ASSUME IInv, (\E f \in Friend : ClickIcon(f)) \/ ClickPerson \/ IconUploaded
    PROVE  IInv'
<1>1. PICK m \in ToServer : m.type # "ac_update_remarks" /\ Proper(m) /\ Send(m)
  <2>1. CASE \E f \in Friend : ClickIcon(f)
    <3>1. PICK f \in Friend : ClickIcon(f)
      BY <2>1
    <3> DEFINE m == [type |-> "ac_info_all", types |-> "friends", account |-> f]
    <3>2. m \in ToServer /\ m.type = "ac_info_all" /\ Send(m)
      BY <3>1 DEF ToServer, ClickIcon
    <3> HIDE DEF m
    <3>3. QED
      BY <3>2 DEF Proper
  <2>2. CASE ClickPerson
    <3> DEFINE m == [type |-> "ac_info_all", types |-> "account", account |-> NoFriend]
    <3>1. m \in ToServer /\ m.type = "ac_info_all" /\ Send(m)
      BY <2>2 DEF ToServer, ClickPerson
    <3> HIDE DEF m
    <3>2. QED
      BY <3>1 DEF Proper
  <2>3. CASE IconUploaded
    <3> DEFINE m == [type |-> "ac_update_info", icon |-> TRUE, known |-> TRUE]
    <3>1. m \in ToServer /\ m.type = "ac_update_info" /\ m.icon /\ Send(m)
      BY <2>3 DEF ToServer, IconUploaded
    <3> HIDE DEF m
    <3>2. QED
      BY <3>1 DEF Proper
  <2>4. QED
    BY <2>1, <2>2, <2>3
<1>2. /\ UNCHANGED <<conn, remarks, toClient, srvVars>>
      /\ UNCHANGED <<area, own, fd, dialog>>
      /\ ext' \in {ext, "person"}
  BY DEF ClickIcon, ClickPerson, IconUploaded, guiVars
<1>3. toServer' \in Seq(ToServer) /\ Traffic'
  BY <1>1, <1>2, SendProper DEF IInv
<1>4. TypeOK'
  BY <1>2, <1>3 DEF IInv, TypeOK, srvVars
<1>5. QED
  BY <1>2, <1>3, <1>4, PanelsSame DEF IInv

\* A changed remark was typed about the friend shown, and is sent for it.
LEMMA SaveRemarksStep ==
    ASSUME IInv, SaveRemarks
    PROVE  IInv'
<1> DEFINE m == [type |-> "ac_update_remarks", friends |-> fd.account,
                 remarks |-> fd.edit]
<1>1. /\ UNCHANGED <<conn, remarks, toClient, srvVars>>
      /\ UNCHANGED <<area, ext, own, fd, dialog>>
      /\ area = "person" /\ fd.edit # fd.saved /\ Send(m)
  BY DEF SaveRemarks, guiVars, FriendShown
<1>2. fd.account \in Friend /\ fd.edit \in Text
  BY <1>1 DEF IInv, TypeOK, FriendPanel
<1>3. fd.edit.of \in {fd.account, NoFriend}
  BY <1>1 DEF IInv, Panels, TypedForShown
<1>4. m \in ToServer /\ Proper(m)
  BY <1>2, <1>3 DEF ToServer, Proper
<1> HIDE DEF m
<1>5. toServer' \in Seq(ToServer) /\ Traffic'
  BY <1>1, <1>4, SendProper DEF IInv
<1>6. TypeOK'
  BY <1>1, <1>5 DEF IInv, TypeOK, srvVars
<1>7. QED
  BY <1>1, <1>5, <1>6, PanelsSame DEF IInv

\* The fields read after the dialog are verified, whatever replaced them.
LEMMA ConfirmInfoStep ==
    ASSUME IInv, ConfirmInfo
    PROVE  IInv'
<1>1. PICK i \in GetEditInfo(own.edit) :
          Send([type |-> "ac_update_info", icon |-> FALSE, known |-> own.known,
                info |-> i])
  BY DEF ConfirmInfo
<1> DEFINE m == [type |-> "ac_update_info", icon |-> FALSE, known |-> own.known,
                 info |-> i]
<1>2. /\ UNCHANGED <<conn, remarks, toClient, srvVars>>
      /\ UNCHANGED <<area, ext, own, fd>>
      /\ dialog # <<>> /\ Last(dialog) = "confirm" /\ dialog' = Front(dialog)
      /\ Send(m)
  BY <1>1 DEF ConfirmInfo, Close
<1>3. /\ dialog' \in Seq(Dialogs) /\ Contents(dialog') \subseteq Contents(dialog)
      /\ "confirm" \in Contents(dialog)
  BY <1>2, FrontIsShorter DEF IInv, TypeOK
<1>4. own.edit.rest \notin OutOfRange
  BY <1>3 DEF IInv, Panels, ConfirmIsVerified
<1>5. own.edit \in Typed /\ own.known \in BOOLEAN
  BY DEF IInv, TypeOK, OwnPanel
<1>6. i \in Info /\ i.rest = own.edit.rest
  <2>1. PICK s \in Sex : i = [own.edit EXCEPT !.sex = s]
    BY DEF GetEditInfo
  <2>2. QED
    BY <1>5, <2>1 DEF Typed, Info
<1>7. m \in ToServer
  BY <1>5, <1>6 DEF ToServer
<1>8. Proper(m)
  BY <1>4, <1>6 DEF Proper
<1> HIDE DEF m
<1>9. toServer' \in Seq(ToServer) /\ Traffic'
  BY <1>2, <1>7, <1>8, SendProper DEF IInv
<1>10. TypeOK'
  BY <1>2, <1>3, <1>9 DEF IInv, TypeOK, srvVars
<1>11. Panels'
  BY <1>2, <1>3 DEF IInv, Panels, TypedForShown, ConfirmIsVerified
<1>12. QED
  BY <1>9, <1>10, <1>11 DEF IInv
-----------------------------------------------------------------------------
(***************************************************************************)
(* Slots.                                                                  *)
(***************************************************************************)
\* Applying a signal that is not about a remark.
LEMMA SlotOther ==
    ASSUME TypeOK, Traffic, toClient # <<>>, toClient' = Tail(toClient),
           Head(toClient).type # "ac_update_remarks_back",
           UNCHANGED <<conn, remarks, toServer, srvVars>>
    PROVE  toClient' \in Seq(ToClient) /\ Traffic'
<1>1. /\ conn' = conn /\ remarks' = remarks
      /\ toServer' = toServer /\ srvInfo' = srvInfo /\ srvRemarks' = srvRemarks
  BY DEF srvVars
<1>2. toClient \in Seq(ToClient)
  BY DEF TypeOK
<1>3. toClient' \in Seq(ToClient) /\ Contents(toClient') \subseteq Contents(toClient)
  BY <1>2, ContentsTail, TailAt
<1>4. SentIsProper' /\ StoredForFriend'
  BY <1>1 DEF Traffic, SentIsProper, StoredForFriend
<1>5. ServedIsVerified'
  BY <1>1, <1>3 DEF Traffic, ServedIsVerified
<1>6. ASSUME NEW f \in Friend, conn = "open"
      PROVE  Catches(toClient', f, remarks[f], srvRemarks[f])
  <2>1. Head(toClient) \notin Backs(f)
    BY BacksShape
  <2>2. Catches(toClient, f, remarks[f], srvRemarks[f])
    BY <1>6 DEF Traffic, LastAgrees
  <2>3. QED
    BY <1>2, <2>1, <2>2, CatchesTailOther
<1>7. LastAgrees'
  BY <1>1, <1>6 DEF LastAgrees
<1>8. QED
  BY <1>3, <1>4, <1>5, <1>7 DEF Traffic

\* The own panel is filled in by what the server says, a waiting dialog or not.
LEMMA AddPersonAccountStep ==
    ASSUME IInv, AddPersonAccount
    PROVE  IInv'
<1> DEFINE m == Head(toClient)
<1>1. /\ toClient # <<>> /\ toClient' = Tail(toClient)
      /\ m.type = "ac_info_all_back"
      /\ own' = [known |-> TRUE, saved |-> m.info, edit |-> m.info]
      /\ UNCHANGED <<conn, remarks, toServer, srvVars>>
      /\ UNCHANGED <<area, ext, fd, dialog>>
  BY DEF AddPersonAccount, Slot
<1>2. m \in ToClient /\ m \in Contents(toClient)
  BY <1>1, TailAt, ContentsTail DEF IInv, TypeOK
<1>3. m.info \in Info /\ m.info.rest \notin OutOfRange
  BY <1>1, <1>2, ToClientKinds DEF IInv, Traffic, ServedIsVerified
<1>4. toClient' \in Seq(ToClient) /\ Traffic'
  BY <1>1, SlotOther DEF IInv
<1> HIDE DEF m
<1>5. own' \in OwnPanel /\ own'.edit = m.info
  BY <1>1, <1>3 DEF OwnPanel, Info, Typed
<1>6. TypeOK'
  BY <1>1, <1>4, <1>5 DEF IInv, TypeOK, srvVars
<1>7. Panels'
  BY <1>1, <1>3, <1>5 DEF IInv, Panels, TypedForShown, ConfirmIsVerified
<1>8. QED
  BY <1>4, <1>6, <1>7 DEF IInv

\* The friend panel is filled in whole: nothing typed is left in it.
LEMMA AddPersonFriendsStep ==
    ASSUME IInv, AddPersonFriends
    PROVE  IInv'
<1> DEFINE m == Head(toClient)
           r == SetInfoRemarks(fd.saved, remarks[m.account])
<1>1. /\ toClient # <<>> /\ toClient' = Tail(toClient)
      /\ m.type = "ac_info_all_back" /\ m.types = "friends"
      /\ fd' = [account |-> m.account, saved |-> r, edit |-> r]
      /\ area' = "person"
      /\ UNCHANGED <<conn, remarks, toServer, srvVars>>
      /\ UNCHANGED <<ext, own, dialog>>
  BY DEF AddPersonFriends, Slot
<1>2. m \in ToClient
  BY <1>1, TailAt DEF IInv, TypeOK
<1>3. m.account \in Friend
  BY <1>1, <1>2, ToClientKinds
<1>4. toClient' \in Seq(ToClient) /\ Traffic'
  BY <1>1, SlotOther DEF IInv
<1> HIDE DEF m
<1>5. r \in Text
  BY <1>3 DEF IInv, TypeOK, FriendPanel, SetInfoRemarks
<1> HIDE DEF r
<1>6. /\ fd' \in FriendPanel /\ fd'.account # NoFriend
      /\ fd'.edit = fd'.saved
  BY <1>1, <1>3, <1>5, PersonInfoAssumption DEF FriendPanel
<1>7. TypeOK'
  BY <1>1, <1>4, <1>6 DEF IInv, TypeOK, srvVars
<1>8. Panels'
  BY <1>1, <1>6 DEF IInv, Panels, TypedForShown, ConfirmIsVerified
<1>9. QED
  BY <1>4, <1>7, <1>8 DEF IInv

\* The answer to an update of information opens no dialog to be confirmed.
LEMMA UpdateInfoStep ==
    ASSUME IInv, UpdateInfo
    PROVE  IInv'
<1>1. /\ toClient # <<>> /\ toClient' = Tail(toClient)
      /\ Head(toClient).type = "ac_update_info_back"
      /\ UNCHANGED <<conn, remarks, toServer, srvVars>>
      /\ UNCHANGED <<area, own, fd>>
      /\ ext' \in {ext, "extend"}
      /\ \/ dialog' = dialog
         \/ \E d \in {"failed_icon", "failed_info"} : dialog' = Append(dialog, d)
  BY DEF UpdateInfo, Slot
<1>2. dialog \in Seq(Dialogs)
  BY DEF IInv, TypeOK
<1>3. /\ dialog' \in Seq(Dialogs)
      /\ "confirm" \in Contents(dialog') => "confirm" \in Contents(dialog)
  <2>1. CASE dialog' = dialog
    BY <1>2, <2>1
  <2>2. ASSUME NEW d \in {"failed_icon", "failed_info"}, dialog' = Append(dialog, d)
        PROVE  /\ dialog' \in Seq(Dialogs)
               /\ "confirm" \in Contents(dialog') => "confirm" \in Contents(dialog)
    <3>1. d \in Dialogs /\ d # "confirm"
      BY DEF Dialogs
    <3>2. QED
      BY <1>2, <2>2, <3>1, AppendAt, ContentsAppend
  <2>3. QED
    BY <1>1, <2>1, <2>2
<1>4. toClient' \in Seq(ToClient) /\ Traffic'
  BY <1>1, SlotOther DEF IInv
<1>5. TypeOK'
  BY <1>1, <1>3, <1>4 DEF IInv, TypeOK, srvVars
<1>6. Panels'
  BY <1>1, <1>3 DEF IInv, Panels, TypedForShown, ConfirmIsVerified
<1>7. QED
  BY <1>4, <1>5, <1>6 DEF IInv

\* The answer to an update of a remark changes the button of its friend, and
\* all of the panel's remark.
LEMMA AddFriendRemarksStep ==
    ASSUME IInv, AddFriendRemarks
    PROVE  IInv'
<1> DEFINE m == Head(toClient)
           r == SetInfoRemarks(fd.saved, m.remarks)
<1>1. /\ toClient # <<>> /\ toClient' = Tail(toClient)
      /\ m.type = "ac_update_remarks_back"
      /\ remarks' = [remarks EXCEPT ![m.friends] = m.remarks]
      /\ fd' = [fd EXCEPT !.saved = r, !.edit = r]
      /\ UNCHANGED <<conn, area, ext, own, dialog, toServer, srvVars>>
  BY DEF AddFriendRemarks, Slot
<1>2. /\ toClient \in Seq(ToClient) /\ toClient' \in Seq(ToClient)
      /\ Contents(toClient') \subseteq Contents(toClient)
      /\ m \in ToClient
  BY <1>1, TailAt, ContentsTail DEF IInv, TypeOK
<1>3. m.friends \in Friend /\ m.remarks \in Text /\ m \in Backs(m.friends)
  BY <1>1, <1>2, ToClientKinds
<1>4. ASSUME NEW f \in Friend, conn = "open"
      PROVE  Catches(toClient', f, remarks'[f], srvRemarks[f])
  <2>1. Catches(toClient, f, remarks[f], srvRemarks[f])
    BY <1>4 DEF IInv, Traffic, LastAgrees
  <2>2. CASE f = m.friends
    <3>1. remarks'[f] = m.remarks
      BY <1>1, <1>3, <2>2 DEF IInv, TypeOK
    <3>2. QED
      BY <1>1, <1>2, <1>3, <2>1, <2>2, <3>1, CatchesTail
  <2>3. CASE f # m.friends
    <3>1. remarks'[f] = remarks[f]
      BY <1>1, <1>3, <2>3 DEF IInv, TypeOK
    <3>2. m \notin Backs(f)
      BY <2>3, BacksShape
    <3>3. QED
      BY <1>1, <1>2, <2>1, <3>1, <3>2, CatchesTailOther
  <2>4. QED
    BY <2>2, <2>3
<1> HIDE DEF m
<1>5. r \in Text
  BY <1>3 DEF IInv, TypeOK, FriendPanel, SetInfoRemarks
<1> HIDE DEF r
<1>6. /\ fd' \in FriendPanel /\ fd'.account = fd.account
      /\ fd'.edit = fd'.saved
  BY <1>1, <1>5 DEF IInv, TypeOK, FriendPanel
<1>7. remarks' \in [Friend -> Text]
  BY <1>1, <1>3 DEF IInv, TypeOK
<1>8. TypeOK'
  BY <1>1, <1>2, <1>6, <1>7 DEF IInv, TypeOK, srvVars
<1>9. Panels'
  BY <1>1, <1>6 DEF IInv, Panels, TypedForShown, ConfirmIsVerified
<1>10. LastAgrees'
  BY <1>1, <1>4 DEF LastAgrees, srvVars
<1>11. SentIsProper' /\ StoredForFriend' /\ ServedIsVerified'
  BY <1>1, <1>2 DEF IInv, Traffic, SentIsProper, StoredForFriend, ServedIsVerified, srvVars
<1>12. QED
  BY <1>8, <1>9, <1>10, <1>11 DEF IInv, Traffic
-----------------------------------------------------------------------------
(***************************************************************************)
(* The server, and the end of the connection.                              *)
(***************************************************************************)
\* Reading a frame leaves the others, which are proper as before.
LEMMA SrvReadsFacts ==
    ASSUME TypeOK, Traffic, NEW type, SrvReads(type)
    PROVE  /\ conn = "open"
           /\ Head(toServer) \in ToServer
           /\ Head(toServer).type = type
           /\ Proper(Head(toServer))
           /\ toServer' \in Seq(ToServer)
           /\ SentIsProper'
<1>1. toServer \in Seq(ToServer) /\ toServer # <<>> /\ toServer' = Tail(toServer)
  BY DEF TypeOK, SrvReads
<1>2. /\ Head(toServer) \in Contents(toServer) /\ Head(toServer) \in ToServer
      /\ toServer' \in Seq(ToServer)
      /\ Contents(toServer') \subseteq Contents(toServer)
  BY <1>1, TailAt, ContentsTail
<1>3. QED
  BY <1>2 DEF Traffic, SentIsProper, SrvReads

\* An answer that is not about a remark, and carries only verified information.
LEMMA AnswerOther ==
    ASSUME TypeOK, Traffic, NEW m \in ToClient, toClient' = Append(toClient, m),
           m.type # "ac_update_remarks_back",
           m.type = "ac_info_all_back" => m.info.rest \notin OutOfRange,
           SentIsProper', srvInfo'.rest \notin OutOfRange,
           UNCHANGED <<conn, remarks, srvRemarks>>
    PROVE  toClient' \in Seq(ToClient) /\ Traffic'
<1>1. toClient \in Seq(ToClient)
  BY DEF TypeOK
<1>2. /\ toClient' \in Seq(ToClient)
      /\ Contents(toClient') = Contents(toClient) \union {m}
  BY <1>1, AppendAt, ContentsAppend
<1>3. ServedIsVerified'
  BY <1>2 DEF Traffic, ServedIsVerified
<1>4. ASSUME NEW f \in Friend, conn = "open"
      PROVE  Catches(toClient', f, remarks[f], srvRemarks[f])
  <2>1. m \notin Backs(f)
    BY BacksShape
  <2>2. Catches(toClient, f, remarks[f], srvRemarks[f])
    BY <1>4 DEF Traffic, LastAgrees
  <2>3. QED
    BY <1>1, <2>1, <2>2, CatchesAppendOther
<1>5. LastAgrees'
  BY <1>4 DEF LastAgrees
<1>6. StoredForFriend'
  BY DEF Traffic, StoredForFriend
<1>7. QED
  BY <1>2, <1>3, <1>5, <1>6 DEF Traffic

\* The server answers with the information it has.
LEMMA SrvInfoAllStep ==
    ASSUME IInv, SrvInfoAll
    PROVE  IInv'
<1> DEFINE m == Head(toServer)
           b == [type |-> "ac_info_all_back", types |-> m.types,
                 account |-> m.account, info |-> srvInfo]
<1>1. /\ toClient' = Append(toClient, b)
      /\ UNCHANGED <<conn, area, ext, own, fd, remarks, dialog, srvInfo, srvRemarks>>
      /\ SrvReads("ac_info_all")
  BY DEF SrvInfoAll, guiVars, srvVars
<1>2. /\ m \in ToServer /\ m.type = "ac_info_all"
      /\ toServer' \in Seq(ToServer) /\ SentIsProper'
  BY <1>1, SrvReadsFacts DEF IInv
<1>3. \/ m.types = "account" /\ m.account = NoFriend
      \/ m.types = "friends" /\ m.account \in Friend
  BY <1>2, ToServerKinds
<1> HIDE DEF m
<1>4. srvInfo \in Info /\ srvInfo.rest \notin OutOfRange
  BY DEF IInv, TypeOK, Traffic, ServedIsVerified
<1>5. b \in ToClient
  BY <1>3, <1>4 DEF ToClient
<1>6. b.type = "ac_info_all_back" /\ b.info.rest \notin OutOfRange
  BY <1>4
<1> HIDE DEF b
<1>7. toClient' \in Seq(ToClient) /\ Traffic'
  BY <1>1, <1>2, <1>4, <1>5, <1>6, AnswerOther DEF IInv
<1>8. TypeOK'
  BY <1>1, <1>2, <1>7 DEF IInv, TypeOK
<1>9. QED
  BY <1>1, <1>7, <1>8, PanelsSame DEF IInv

\* The server takes over information that has been verified, or refuses it.
LEMMA SrvUpdateInfoStep ==
    ASSUME IInv, SrvUpdateInfo
    PROVE  IInv'
<1> DEFINE m == Head(toServer)
<1>1. PICK ok \in BOOLEAN :
          /\ srvInfo' = IF ok /\ ~m.icon THEN m.info ELSE srvInfo
          /\ toClient' = Append(toClient, [type |-> "ac_update_info_back",
                                           icon |-> m.icon, ok |-> ok])
  BY DEF SrvUpdateInfo
<1> DEFINE b == [type |-> "ac_update_info_back", icon |-> m.icon, ok |-> ok]
<1>2. /\ toClient' = Append(toClient, b)
      /\ UNCHANGED <<conn, area, ext, own, fd, remarks, dialog, srvRemarks>>
      /\ SrvReads("ac_update_info")
  BY <1>1 DEF SrvUpdateInfo, guiVars
<1>3. /\ m \in ToServer /\ m.type = "ac_update_info" /\ Proper(m)
      /\ toServer' \in Seq(ToServer) /\ SentIsProper'
  BY <1>2, SrvReadsFacts DEF IInv
<1>4. m.icon \in BOOLEAN /\ (~m.icon => m.info \in Info /\ m.info.rest \notin OutOfRange)
  BY <1>3, ToServerKinds DEF Proper
<1> HIDE DEF m
<1>5. srvInfo' \in Info /\ srvInfo'.rest \notin OutOfRange
  BY <1>1, <1>4 DEF IInv, TypeOK, Traffic, ServedIsVerified
<1>6. b \in ToClient
  BY <1>4 DEF ToClient
<1>7. b.type = "ac_update_info_back"
  OBVIOUS
<1> HIDE DEF b
<1>8. toClient' \in Seq(ToClient) /\ Traffic'
  BY <1>2, <1>3, <1>5, <1>6, <1>7, AnswerOther DEF IInv
<1>9. TypeOK'
  BY <1>2, <1>3, <1>5, <1>8 DEF IInv, TypeOK
<1>10. QED
  BY <1>2, <1>8, <1>9, PanelsSame DEF IInv

\* The server takes over a remark and says so, or keeps silent.
LEMMA SrvUpdateRemarksStep ==
    ASSUME IInv, SrvUpdateRemarks
    PROVE  IInv'
<1> DEFINE m == Head(toServer)
           b == [type |-> "ac_update_remarks_back", friends |-> m.friends,
                 remarks |-> m.remarks]
<1>1. /\ UNCHANGED <<conn, area, ext, own, fd, remarks, dialog, srvInfo>>
      /\ SrvReads("ac_update_remarks")
      /\ \/ /\ srvRemarks' = [srvRemarks EXCEPT ![m.friends] = m.remarks]
            /\ toClient' = Append(toClient, b)
         \/ UNCHANGED <<srvRemarks, toClient>>
  BY DEF SrvUpdateRemarks, guiVars
<1>2. /\ m \in ToServer /\ m.type = "ac_update_remarks" /\ Proper(m)
      /\ toServer' \in Seq(ToServer) /\ SentIsProper'
  BY <1>1, SrvReadsFacts DEF IInv
<1>3. /\ m.friends \in Friend /\ m.remarks \in Text
      /\ m.remarks.of \in {m.friends, NoFriend}
  BY <1>2, ToServerKinds DEF Proper
<1> HIDE DEF m
<1>4. b \in ToClient /\ b \in Backs(m.friends)
  BY <1>3 DEF ToClient, Backs
<1>5. b.type = "ac_update_remarks_back" /\ b.friends = m.friends /\ b.remarks = m.remarks
  OBVIOUS
<1> HIDE DEF b
<1>6. toClient \in Seq(ToClient)
  BY DEF IInv, TypeOK
<1>7. /\ srvRemarks' \in [Friend -> Text] /\ StoredForFriend'
      /\ toClient' \in Seq(ToClient) /\ ServedIsVerified' /\ LastAgrees'
  <2>1. CASE UNCHANGED <<srvRemarks, toClient>>
    BY <1>1, <2>1 DEF IInv, TypeOK, Traffic, StoredForFriend, ServedIsVerified, LastAgrees
  <2>2. CASE /\ srvRemarks' = [srvRemarks EXCEPT ![m.friends] = m.remarks]
             /\ toClient' = Append(toClient, b)
    <3>1. srvRemarks' \in [Friend -> Text] /\ StoredForFriend'
      BY <1>3, <2>2 DEF IInv, TypeOK, Traffic, StoredForFriend
    <3>2. /\ toClient' \in Seq(ToClient)
          /\ Contents(toClient') = Contents(toClient) \union {b}
      BY <1>4, <1>6, <2>2, AppendAt, ContentsAppend
    <3>3. ServedIsVerified'
      BY <1>1, <1>5, <3>2 DEF IInv, Traffic, ServedIsVerified
    <3>4. ASSUME NEW f \in Friend, conn = "open"
          PROVE  Catches(toClient', f, remarks[f], srvRemarks'[f])
      <4>1. CASE f = m.friends
        <5>1. srvRemarks'[f] = b.remarks
          BY <1>3, <1>5, <2>2, <4>1 DEF IInv, TypeOK
        <5>2. Catches(Append(toClient, b), f, remarks[f], b.remarks)
          BY <1>4, <1>6, <4>1, CatchesAppend
        <5>3. QED
          BY <2>2, <5>1, <5>2
      <4>2. CASE f # m.friends
        <5>1. srvRemarks'[f] = srvRemarks[f]
          BY <1>3, <2>2, <4>2 DEF IInv, TypeOK
        <5>2. Catches(toClient, f, remarks[f], srvRemarks[f])
          BY <3>4 DEF IInv, Traffic, LastAgrees
        <5>3. b \notin Backs(f)
          BY <1>5, <4>2, BacksShape
        <5>4. Catches(Append(toClient, b), f, remarks[f], srvRemarks[f])
          BY <1>4, <1>6, <5>2, <5>3, CatchesAppendOther
        <5>5. QED
          BY <2>2, <5>1, <5>4
      <4>3. QED
        BY <4>1, <4>2
    <3>5. LastAgrees'
      BY <1>1, <3>4 DEF LastAgrees
    <3>6. QED
      BY <3>1, <3>2, <3>3, <3>5
  <2>3. QED
    BY <1>1, <2>1, <2>2
<1>8. TypeOK'
  BY <1>1, <1>2, <1>7 DEF IInv, TypeOK
<1>9. QED
  BY <1>1, <1>2, <1>7, <1>8, PanelsSame DEF IInv, Traffic

\* The connection ends: part of the answers remains.
LEMMA DisconnectStep ==
    ASSUME IInv, Disconnect
    PROVE  IInv'
<1>1. PICK n \in 0..Len(toClient) : toClient' = SubSeq(toClient, 1, n)
  BY DEF Disconnect
<1>2. /\ conn' = "lost" /\ toServer' = <<>>
      /\ UNCHANGED <<area, ext, own, fd, remarks, dialog, srvInfo, srvRemarks>>
  BY DEF Disconnect, guiVars, srvVars
<1>3. toClient' \in Seq(ToClient) /\ Contents(toClient') \subseteq Contents(toClient)
  BY <1>1, PrefixIsPart DEF IInv, TypeOK
<1>4. TypeOK'
  BY <1>2, <1>3 DEF IInv, TypeOK
<1>5. SentIsProper'
  BY <1>2 DEF SentIsProper, Contents
<1>6. StoredForFriend' /\ ServedIsVerified' /\ LastAgrees'
  BY <1>2, <1>3 DEF IInv, Traffic, StoredForFriend, ServedIsVerified, LastAgrees
<1>7. QED
  BY <1>2, <1>4, <1>5, <1>6, PanelsSame DEF IInv, Traffic
-----------------------------------------------------------------------------
(***************************************************************************)
(* The theorems.                                                           *)
(***************************************************************************)
\* IInv is an inductive invariant of the panels and the server.
THEOREM Invariance == Spec => []IInv
<1>1. Init => IInv
  BY InitIInv
<1>2. ASSUME IInv, [Next]_vars
      PROVE  IInv'
  <2>1. CASE User
    BY <1>2, <2>1, NavigateStep, AskStep, EditInfoStep, EditRemarksStep,
       SaveInfoStep, SaveRemarksStep, ConfirmInfoStep, CloseStep DEF User
  <2>2. CASE IconUploaded
    BY <1>2, <2>2, AskStep
  <2>3. CASE Slots
    BY <1>2, <2>3, AddPersonAccountStep, AddPersonFriendsStep, UpdateInfoStep,
       AddFriendRemarksStep DEF Slots
  <2>4. CASE Server
    BY <1>2, <2>4, SrvInfoAllStep, SrvUpdateInfoStep, SrvUpdateRemarksStep DEF Server
  <2>5. CASE Disconnect
    BY <1>2, <2>5, DisconnectStep
  <2>6. CASE UNCHANGED vars
    <3>1. UNCHANGED <<conn, area, ext, own, fd, remarks, dialog, toServer, toClient,
                      srvInfo, srvRemarks>>
      BY <2>6 DEF vars, guiVars, srvVars
    <3>2. TypeOK'
      BY <1>2, <3>1 DEF IInv, TypeOK
    <3>3. QED
      BY <1>2, <3>1, <3>2, TrafficSame, PanelsSame DEF IInv, srvVars
  <2>7. QED
    BY <1>2, <2>1, <2>2, <2>3, <2>4, <2>5, <2>6 DEF Next
<1>3. QED
  BY <1>1, <1>2, PTL DEF Spec

\* The panels, their dialogs and the frames keep their shape; a friend panel
\* that is raised shows somebody.
THEOREM TypeCorrect == Spec => []TypeOK
BY Invariance, PTL DEF IInv

\* sn_save sends a remark only for the friend it was typed about, and the
\* server stores it under that friend, although answers about others fill the
\* panel in between typing and saving.
THEOREM RemarksForFriendHolds == Spec => []RemarksForFriend
<1>1. IInv => RemarksForFriend
  BY DEF IInv, Traffic, SentIsProper, StoredForFriend, RemarksForFriend, Frames,
         Contents, Proper
<1>2. QED
  BY <1>1, Invariance, PTL

\* The information sn_save sends has been verified, although the fields are
\* read again after the dialog, during which answers are applied.
THEOREM SentIsVerifiedHolds == Spec => []SentIsVerified
<1>1. IInv => SentIsVerified
  BY DEF IInv, Traffic, SentIsProper, SentIsVerified, Frames, Contents, Proper
<1>2. QED
  BY <1>1, Invariance, PTL

\* While the connection lasts and no update of a friend's remark is under way,
\* its button shows the remark the server has.
THEOREM RemarksAgreeHolds == Spec => []RemarksAgree
<1>1. ASSUME IInv
      PROVE  RemarksAgree
  <2>1. ASSUME NEW f \in Friend, conn # "lost",
               ~\E m \in Frames(toServer) \union Frames(toClient) :
                    /\ m.type \in {"ac_update_remarks", "ac_update_remarks_back"}
                    /\ m.friends = f
        PROVE  remarks[f] = srvRemarks[f]
    <3>1. None(toClient, Backs(f))
      BY <2>1, BacksShape DEF None, Frames
    <3>2. conn = "open"
      BY <1>1, <2>1 DEF IInv, TypeOK
    <3>3. QED
      BY <1>1, <3>1, <3>2 DEF IInv, Traffic, LastAgrees, Catches
  <2>2. QED
    BY <2>1 DEF RemarksAgree
<1>2. QED
  BY <1>1, Invariance, PTL
=============================================================================
