------------------------------ MODULE PersonInfo ------------------------------
(***************************************************************************)
(* The panels with the account's own information and with that of a friend *)
(* (wid_person_info inside wid_friend_info and wid_friend_list), and the   *)
(* requests they make through qweb_client.                                 *)
(*                                                                         *)
(* A panel is shown before the information asked for is there, answers     *)
(* come while the user types or while a dialog waits for a decision (the   *)
(* event loop of QDialog::exec runs the slots), and one panel serves all   *)
(* friends.  The handlers of qweb_client only decode an answer and queue a *)
(* signal for the GUI thread, so a frame in transit to the client stands   *)
(* for the frame or for its signal.                                        *)
(***************************************************************************)
EXTENDS Naturals, Sequences

CONSTANTS Friend,       \* friends in the list
          NoFriend,     \* the friend panel shows nobody yet
          Label,        \* what distinguishes remarks typed about one friend
          Rest,         \* nickname, phone, age and location, taken together
          Empty,        \* in Rest: the fields of a panel never filled in
          OutOfRange,   \* subset of Rest: a negative phone, an impossible age
          Entry,        \* bound: what the user types into the own panel
          MaxFrames     \* bound: frames in transit and dialogs

ASSUME PersonInfoAssumption ==
    /\ NoFriend \notin Friend
    /\ Empty \in Rest \ OutOfRange
    /\ OutOfRange \subseteq Rest
    /\ Entry \subseteq [sex : {"f", "m", "", "?"}, rest : Rest]
    /\ MaxFrames \in Nat

VARIABLES
    conn,       \* "open" or "lost"
    area,       \* right-hand side: "chat", "setting" or "person" (a friend)
    ext,        \* in the setting area: "extend" (menu), "person" or "add"
    own,        \* own panel
    fd,         \* friend panel
    remarks,    \* remarks[f]: as in _map_friends and on f's button
    dialog,     \* stack of open dialogs, the last one on top
    toServer, toClient,     \* frames in transit
    srvInfo,    \* server: information of the account
    srvRemarks  \* server: srvRemarks[f], remarks of the account about f

guiVars == <<area, ext, own, fd, remarks, dialog>>
srvVars == <<srvInfo, srvRemarks>>
vars == <<conn, guiVars, toServer, toClient, srvVars>>

\* A remark is told apart by the friend it was typed about; "" is the empty one.
NoText == [of |-> NoFriend]
Text == [of : Friend, n : Label] \union {NoText}

Sex == {"f", "m"}
Info == [sex : Sex, rest : Rest]
\* What the fields of a panel can hold; "?" is any other text.
Typed == [sex : Sex \union {"", "?"}, rest : Rest]
Blank == [sex |-> "", rest |-> Empty]

\* A panel with what was set (_ct_save) and what its fields hold (_edit); the
\* account is not editable.
OwnPanel == [known : BOOLEAN, saved : Typed, edit : Typed]
FriendPanel == [account : Friend \union {NoFriend}, saved : Text, edit : Text]

Last(s) == s[Len(s)]
Front(s) == SubSeq(s, 1, Len(s) - 1)

Room == Len(toServer) + Len(toClient) + Len(dialog) < MaxFrames

\* The user acts on the windows when no dialog is open.
UserFree == dialog = <<>> /\ Room

\* send_msg: a frame goes out if the connection is up.
Send(m) == toServer' = IF conn = "open" THEN Append(toServer, m) ELSE toServer

\* The next signal of a type reaches its slot.
Slot(type) ==
    /\ toClient # <<>>
    /\ Head(toClient).type = type
    /\ toClient' = Tail(toClient)
-----------------------------------------------------------------------------
\* The login has filled the friend list with the server's remarks.
Init ==
    /\ conn = "open"
    /\ area = "chat"
    /\ ext = "none"
    /\ own = [known |-> FALSE, saved |-> Blank, edit |-> Blank]
    /\ fd = [account |-> NoFriend, saved |-> NoText, edit |-> NoText]
    /\ srvInfo \in {i \in Info : i.rest \notin OutOfRange \union {Empty}}
    /\ srvRemarks \in {r \in [Friend -> Text] :
                          \A f \in Friend : r[f].of \in {f, NoFriend}}
    /\ remarks = srvRemarks
    /\ dialog = <<>>
    /\ toServer = <<>>
    /\ toClient = <<>>

\* The connection ends; it is not opened again, and queued signals remain.
Disconnect ==
    /\ conn = "open"
    /\ conn' = "lost"
    /\ toServer' = <<>>
    /\ \E n \in 0..Len(toClient) : toClient' = SubSeq(toClient, 1, n)
    /\ UNCHANGED <<guiVars, srvVars>>
-----------------------------------------------------------------------------
(***************************************************************************)
(* The user.                                                               *)
(***************************************************************************)
\* A click on a friend's button, which raises the chat area.
ClickFriend ==
    /\ UserFree
    /\ area # "chat"
    /\ area' = "chat"
    /\ UNCHANGED <<conn, ext, own, fd, remarks, dialog, toServer, toClient, srvVars>>

\* Mutant: the panel is raised at once.
ClickIcon_Raised(f) ==
    /\ UserFree
    /\ Send([type |-> "ac_info_all", types |-> "friends", account |-> f])
    /\ area' = "person"
    /\ UNCHANGED <<conn, ext, own, fd, remarks, dialog, toClient, srvVars>>

\* A click on the icon of a friend asks for its information; the panel is
\* raised by the answer.
ClickIcon(f) ==
    /\ UserFree
    /\ Send([type |-> "ac_info_all", types |-> "friends", account |-> f])
    /\ UNCHANGED <<conn, guiVars, toClient, srvVars>>

\* The ">>" button: the menu, in the setting area.
ClickExtend ==
    /\ UserFree
    /\ area' = "setting"
    /\ ext' = "extend"
    /\ UNCHANGED <<conn, own, fd, remarks, dialog, toServer, toClient, srvVars>>

\* sn_click_extend, own information: ask for it and show the panel as it is.
ClickPerson ==
    /\ UserFree
    /\ area = "setting" /\ ext = "extend"
    /\ Send([type |-> "ac_info_all", types |-> "account", account |-> NoFriend])
    /\ ext' = "person"
    /\ UNCHANGED <<conn, area, own, fd, remarks, dialog, toClient, srvVars>>

\* sn_click_extend, adding a friend.
ClickAdd ==
    /\ UserFree
    /\ area = "setting" /\ ext = "extend"
    /\ ext' = "add"
    /\ UNCHANGED <<conn, area, own, fd, remarks, dialog, toServer, toClient, srvVars>>

OwnShown == UserFree /\ area = "setting" /\ ext = "person"
FriendShown == UserFree /\ area = "person"

\* Typing into the own panel.
EditInfo(i) ==
    /\ OwnShown
    /\ i # own.edit
    /\ own' = [own EXCEPT !.edit = i]
    /\ UNCHANGED <<conn, area, ext, fd, remarks, dialog, toServer, toClient, srvVars>>

\* Typing into the one field of the friend panel that can be edited.
EditRemarks(r) ==
    /\ FriendShown
    /\ r.of \in {fd.account, NoFriend}
    /\ r # fd.edit
    /\ fd' = [fd EXCEPT !.edit = r]
    /\ UNCHANGED <<conn, area, ext, own, remarks, dialog, toServer, toClient, srvVars>>

\* Mutant: only the sex is looked at.
IsVerificationInfo_Sex(i) == i.sex # "?"

\* is_verification_info: the sex may be left out.
IsVerificationInfo(i) == i.sex # "?" /\ i.rest \notin OutOfRange

\* sn_save of the own panel: changed information has to be confirmed, or is
\* rejected; the dialog runs the event loop.  Unchanged, the menu returns.
SaveInfo ==
    /\ OwnShown
    /\ IF own.edit # own.saved
       THEN /\ dialog' = <<IF IsVerificationInfo(own.edit) THEN "confirm"
                                                         ELSE "limit">>
            /\ UNCHANGED ext
       ELSE /\ ext' = "extend"
            /\ UNCHANGED dialog
    /\ UNCHANGED <<conn, area, own, fd, remarks, toServer, toClient, srvVars>>

\* The cancel button leaves what was typed in the fields.
CancelInfo ==
    /\ OwnShown
    /\ ext' = "extend"
    /\ UNCHANGED <<conn, area, own, fd, remarks, dialog, toServer, toClient, srvVars>>

\* sn_save of the friend panel: a changed remark is sent for the account the
\* panel shows.
SaveRemarks ==
    /\ FriendShown
    /\ fd.edit # fd.saved
    /\ Send([type |-> "ac_update_remarks", friends |-> fd.account,
             remarks |-> fd.edit])
    /\ UNCHANGED <<conn, guiVars, toClient, srvVars>>

\* An uploaded icon is announced (the callback of qweb_ac_upload).
IconUploaded ==
    /\ Room
    /\ Send([type |-> "ac_update_info", icon |-> TRUE, known |-> TRUE])
    /\ UNCHANGED <<conn, guiVars, toClient, srvVars>>
-----------------------------------------------------------------------------
(***************************************************************************)
(* Dialogs.  The one on top is closed first; what follows make_box runs    *)
(* then.                                                                   *)
(***************************************************************************)
Close(kind) ==
    /\ dialog # <<>>
    /\ Last(dialog) = kind
    /\ dialog' = Front(dialog)

\* get_edit_info: without a sex the value sent is whatever was on the stack.
GetEditInfo(i) == {[i EXCEPT !.sex = s] : s \in IF i.sex \in Sex THEN {i.sex} ELSE Sex}

\* The change is confirmed, and the fields are read now; with a panel that was
\* never filled in the account is 0.
ConfirmInfo ==
    /\ Close("confirm")
    /\ \E i \in GetEditInfo(own.edit) :
           Send([type |-> "ac_update_info", icon |-> FALSE, known |-> own.known,
                 info |-> i])
    /\ UNCHANGED <<conn, area, ext, own, fd, remarks, toClient, srvVars>>

\* The change is not confirmed, or was rejected.
Dismiss ==
    /\ Close("confirm") \/ Close("limit")
    /\ UNCHANGED <<conn, area, ext, own, fd, remarks, toServer, toClient, srvVars>>

\* The news of a failed update has been read: the slot goes on.
CloseFailed ==
    \/ /\ Close("failed_info")
       /\ ext' = "extend"
       /\ UNCHANGED <<conn, area, own, fd, remarks, toServer, toClient, srvVars>>
    \/ /\ Close("failed_icon")
       /\ UNCHANGED <<conn, area, ext, own, fd, remarks, toServer, toClient, srvVars>>
-----------------------------------------------------------------------------
(***************************************************************************)
(* Slots for the answers.                                                  *)
(***************************************************************************)
\* set_info_remarks: an empty remark leaves the one before.
SetInfoRemarks(old, new) == IF new # NoText THEN new ELSE old

\* sn_ac_info_all for the own account: add_person_account, whose update_info
\* replaces what was typed.
AddPersonAccount ==
    /\ Slot("ac_info_all_back")
    /\ Head(toClient).types = "account"
    /\ LET i == Head(toClient).info
       IN own' = [known |-> TRUE, saved |-> i, edit |-> i]
    /\ UNCHANGED <<conn, area, ext, fd, remarks, dialog, toServer, srvVars>>

\* Mutant: update_info is not called, so the field keeps what was typed.
AddPersonFriends_KeepEdit ==
    /\ Slot("ac_info_all_back")
    /\ Head(toClient).types = "friends"
    /\ LET f == Head(toClient).account
       IN fd' = [account |-> f, saved |-> SetInfoRemarks(fd.saved, remarks[f]),
                 edit |-> fd.edit]
    /\ area' = "person"
    /\ UNCHANGED <<conn, ext, own, remarks, dialog, toServer, srvVars>>

\* ... for a friend: add_person_friends, which raises the panel.
AddPersonFriends ==
    /\ Slot("ac_info_all_back")
    /\ Head(toClient).types = "friends"
    /\ LET f == Head(toClient).account
           r == SetInfoRemarks(fd.saved, remarks[f])
       IN fd' = [account |-> f, saved |-> r, edit |-> r]
    /\ area' = "person"
    /\ UNCHANGED <<conn, ext, own, remarks, dialog, toServer, srvVars>>

\* Mutant: the answer to an icon and that to information are mixed up.
UpdateInfo_Icon ==
    /\ Slot("ac_update_info_back")
    /\ LET m == Head(toClient)
       IN IF m.ok
          THEN /\ ext' = IF m.icon THEN "extend" ELSE ext
               /\ UNCHANGED dialog
          ELSE /\ dialog' = Append(dialog, IF m.icon THEN "failed_icon"
                                                     ELSE "failed_info")
               /\ UNCHANGED ext
    /\ UNCHANGED <<conn, area, own, fd, remarks, toServer, srvVars>>

\* sn_update_info: after information the menu returns, an icon is loaded
\* again; failure is first reported, in a dialog of its own.
UpdateInfo ==
    /\ Slot("ac_update_info_back")
    /\ LET m == Head(toClient)
       IN IF m.ok
          THEN /\ ext' = IF m.icon THEN ext ELSE "extend"
               /\ UNCHANGED dialog
          ELSE /\ dialog' = Append(dialog, IF m.icon THEN "failed_icon"
                                                     ELSE "failed_info")
               /\ UNCHANGED ext
    /\ UNCHANGED <<conn, area, own, fd, remarks, toServer, srvVars>>

\* Mutant: the button is treated like the panel, an empty remark changes nothing.
AddFriendRemarks_NonEmpty ==
    /\ Slot("ac_update_remarks_back")
    /\ LET m == Head(toClient)
           r == SetInfoRemarks(fd.saved, m.remarks)
       IN /\ remarks' = [remarks EXCEPT ![m.friends] =
                             SetInfoRemarks(remarks[m.friends], m.remarks)]
          /\ fd' = [fd EXCEPT !.saved = r, !.edit = r]
    /\ UNCHANGED <<conn, area, ext, own, dialog, toServer, srvVars>>

\* sn_update_remarks: add_friend_remarks changes the friend's button, and the
\* panel, whomever it shows.
AddFriendRemarks ==
    /\ Slot("ac_update_remarks_back")
    /\ LET m == Head(toClient)
           r == SetInfoRemarks(fd.saved, m.remarks)
       IN /\ remarks' = [remarks EXCEPT ![m.friends] = m.remarks]
          /\ fd' = [fd EXCEPT !.saved = r, !.edit = r]
    /\ UNCHANGED <<conn, area, ext, own, dialog, toServer, srvVars>>
-----------------------------------------------------------------------------
(***************************************************************************)
(* The server (external): it answers in order; it may refuse an update of  *)
(* information, and say so, and of remarks, silently.                      *)
(***************************************************************************)
SrvReads(type) ==
    /\ conn = "open"
    /\ toServer # <<>>
    /\ Head(toServer).type = type
    /\ toServer' = Tail(toServer)

SrvInfoAll ==
    /\ SrvReads("ac_info_all")
    /\ LET m == Head(toServer)
       IN toClient' = Append(toClient,
              [type |-> "ac_info_all_back", types |-> m.types,
               account |-> m.account, info |-> srvInfo])
    /\ UNCHANGED <<conn, guiVars, srvVars>>

SrvUpdateInfo ==
    /\ SrvReads("ac_update_info")
    /\ \E ok \in BOOLEAN :
          LET m == Head(toServer)
          IN /\ ok => m.known
             /\ srvInfo' = IF ok /\ ~m.icon THEN m.info ELSE srvInfo
             /\ toClient' = Append(toClient, [type |-> "ac_update_info_back",
                                              icon |-> m.icon, ok |-> ok])
    /\ UNCHANGED <<conn, guiVars, srvRemarks>>

SrvUpdateRemarks ==
    /\ SrvReads("ac_update_remarks")
    /\ LET m == Head(toServer)
       IN \/ /\ srvRemarks' = [srvRemarks EXCEPT ![m.friends] = m.remarks]
             /\ toClient' = Append(toClient,
                    [type |-> "ac_update_remarks_back", friends |-> m.friends,
                     remarks |-> m.remarks])
          \/ UNCHANGED <<srvRemarks, toClient>>
    /\ UNCHANGED <<conn, guiVars, srvInfo>>
-----------------------------------------------------------------------------
User ==
    \/ ClickFriend \/ ClickExtend \/ ClickPerson \/ ClickAdd
    \/ \E f \in Friend : ClickIcon(f)
    \/ \E i \in Entry : EditInfo(i)
    \/ \E r \in Text : EditRemarks(r)
    \/ SaveInfo \/ CancelInfo \/ SaveRemarks
    \/ ConfirmInfo \/ Dismiss \/ CloseFailed

Slots == AddPersonAccount \/ AddPersonFriends \/ UpdateInfo \/ AddFriendRemarks

Server == SrvInfoAll \/ SrvUpdateInfo \/ SrvUpdateRemarks

Next == User \/ IconUploaded \/ Slots \/ Server \/ Disconnect

Spec == Init /\ [][Next]_vars

\* The event loop runs slots, also from within a dialog, and the server
\* answers; the user owes nothing.
FairSpec == Spec /\ WF_vars(Slots) /\ WF_vars(Server)
-----------------------------------------------------------------------------
(***************************************************************************)
(* Properties.                                                             *)
(***************************************************************************)
ToServer ==
    [type : {"ac_info_all"}, types : {"account"}, account : {NoFriend}]
      \union [type : {"ac_info_all"}, types : {"friends"}, account : Friend]
      \union [type : {"ac_update_info"}, icon : {TRUE}, known : {TRUE}]
      \union [type : {"ac_update_info"}, icon : {FALSE}, known : BOOLEAN,
              info : Info]
      \union [type : {"ac_update_remarks"}, friends : Friend, remarks : Text]
ToClient ==
    [type : {"ac_info_all_back"}, types : {"account"}, account : {NoFriend},
     info : Info]
      \union [type : {"ac_info_all_back"}, types : {"friends"}, account : Friend,
              info : Info]
      \union [type : {"ac_update_info_back"}, icon : BOOLEAN, ok : BOOLEAN]
      \union [type : {"ac_update_remarks_back"}, friends : Friend, remarks : Text]
Dialogs == {"confirm", "limit", "failed_info", "failed_icon"}

TypeOK ==
    /\ conn \in {"open", "lost"}
    /\ area \in {"chat", "setting", "person"}
    /\ ext \in {"none", "extend", "person", "add"}
    /\ own \in OwnPanel
    /\ fd \in FriendPanel
    /\ area = "person" => fd.account # NoFriend
    /\ remarks \in [Friend -> Text]
    /\ dialog \in Seq(Dialogs)
    /\ toServer \in Seq(ToServer)
    /\ toClient \in Seq(ToClient)
    /\ srvInfo \in Info
    /\ srvRemarks \in [Friend -> Text]

Frames(q) == {q[i] : i \in DOMAIN q}

\* A remark is only ever sent for, and stored under, the friend it was typed
\* about, although one panel serves all friends and an answer about another
\* friend can replace its account between typing and saving.
RemarksForFriend ==
    /\ \A m \in Frames(toServer) :
           m.type = "ac_update_remarks" => m.remarks.of \in {m.friends, NoFriend}
    /\ \A f \in Friend : srvRemarks[f].of \in {f, NoFriend}

\* When no update of a friend's remark is under way, the button shows what the
\* server has, a removed remark included: answers are applied in the order of
\* the requests.
RemarksAgree ==
    \A f \in Friend :
        \/ conn = "lost"
        \/ \E m \in Frames(toServer) \union Frames(toClient) :
               /\ m.type \in {"ac_update_remarks", "ac_update_remarks_back"}
               /\ m.friends = f
        \/ remarks[f] = srvRemarks[f]

\* The fields are verified before the dialog and read after it, and an answer
\* can replace them in between: what is sent has been verified all the same.
SentIsVerified ==
    \A m \in Frames(toServer) :
        m.type = "ac_update_info" /\ ~m.icon => m.info.rest \notin OutOfRange

\* A confirmed change of information leads back to the menu, or to the news
\* that it failed, whatever other answers come first.
SaveReturns ==
    (\E m \in Frames(toServer) : m.type = "ac_update_info" /\ ~m.icon)
        ~> \/ ext = "extend"
           \/ conn = "lost"
           \/ \E i \in DOMAIN dialog : dialog[i] = "failed_info"

\* The friend panel shows the remark of the friend whose information it shows.
PanelRemarks ==
    area = "person" => fd.saved = remarks[fd.account]
=============================================================================
