----------------------------- MODULE IconTransfer -----------------------------
(***************************************************************************)
(* Icons: who fetches them, who shows them, and what is on the disk.       *)
(*                                                                         *)
(* Icons are files named after their account.  At the login the friend     *)
(* list downloads those that do not exist (init_login, add_friend); the    *)
(* search panel does the same for an account it finds (wid_friend_add),    *)
(* and a new icon of one's own is uploaded, then copied.  Every transfer   *)
(* is an object of its own (qweb_ac_download, qweb_ac_upload) with its own *)
(* connection and libhv thread; its callback runs on that thread, and so   *)
(* in between any two steps of the GUI thread.                             *)
(*                                                                         *)
(* How a transfer moves bytes is modelled in FileDownload and FileUpload;  *)
(* here an icon is a number of parts that reach the disk in order, each    *)
(* written at its place.  The process can end at any point: files remain.  *)
(***************************************************************************)
EXTENDS Naturals, Sequences, FiniteSets

CONSTANTS Friend,       \* friends in the list
          Me,           \* the account logged in
          Nobody,       \* no account
          Absent,       \* no file
          Transfer,     \* bound: transfer objects in use at a time
          Parts,        \* parts of an icon
          MaxSession    \* bound: how often the program is started

ASSUME IconTransferAssumption ==
    /\ Me \notin Friend
    /\ Nobody \notin Friend \union {Me}
    /\ Absent \notin Seq(Nat)
    /\ Parts \in Nat \ {0}
    /\ MaxSession \in Nat

VARIABLES
    on,         \* the process runs
    session,    \* number of starts so far
    file,       \* file[a]: the icon of a on the disk, part by part, or Absent
    tr,         \* tr[t]: what transfer t does, or Idle
    todo,       \* friends that sn_ac_login has still to add
    adding,     \* the friend add_friend is at work on, and how far it is
    list,       \* friends in _map_friends
    img,        \* img[a]: what a's button (for Me, wid_friend_info) has loaded
    panel,      \* search panel: account shown, and whose icon
    refresh,    \* the answer to a changed icon is on its way
    srvIcon,    \* server: version of the account's own icon
    failed,     \* history: accounts of transfers that failed in this start
    suspect,    \* history: icons that transfers have left in disorder
    excused,    \* history: friends whose button was reached too early or late
    late        \* history: the panel got the icon of an earlier search

guiVars == <<todo, adding, list, panel>>
history == <<failed, suspect, excused, late>>
vars == <<on, session, file, tr, guiVars, img, refresh, srvIcon, history>>

Account == Friend \union {Me}

\* Contents: the version of each part; Hole is a part never written.
Hole == 9
Versions == {0, 1}
Content == UNION {[1..n -> Versions \union {Hole}] : n \in 0..Parts}
WholeAs(c, v) == c = [i \in 1..Parts |-> v]
Whole(c) == \E v \in Versions : WholeAs(c, v)

Idle == [state |-> "idle"]
Busy == [state : {"ask", "open"},
         kind : {"list", "find", "upload"}, account : Account,
         version : Versions, pos : 0..Parts]
NotAdding == [friend |-> Nobody, step |-> "none"]

\* Downloads of a that have its file open.
Writers(a) == {t \in Transfer : tr[t].state = "open" /\ tr[t].account = a
                                /\ tr[t].kind # "upload"}
Running(a) == {t \in Transfer : tr[t] # Idle /\ tr[t].account = a}

\* The version of a that the server has.
SrvVersion(a) == IF a = Me THEN srvIcon ELSE 0

\* qlab_img::update_img: a picture of what the file holds now.
Load(a) == IF file[a] = Absent THEN "none"
           ELSE IF Whole(file[a]) THEN "whole" ELSE "damaged"

Free == {t \in Transfer : tr[t] = Idle}

\* new qweb_ac_download / qweb_ac_upload, then open().
StartTransfer(kind, a) ==
    /\ Free # {}
    /\ tr' = [tr EXCEPT ![CHOOSE t \in Free : TRUE] =
                  [state |-> "ask", kind |-> kind, account |-> a,
                   version |-> 0, pos |-> 0]]
-----------------------------------------------------------------------------
Init ==
    /\ on = FALSE
    /\ session = 0
    /\ file = [a \in Account |-> Absent]
    /\ tr = [t \in Transfer |-> Idle]
    /\ todo = {} /\ adding = NotAdding /\ list = {}
    /\ img = [a \in Account |-> "none"]
    /\ panel = [account |-> Nobody, icon |-> Nobody]
    /\ refresh = FALSE
    /\ srvIcon = 0
    /\ failed = {} /\ suspect = {} /\ excused = {} /\ late = FALSE

\* The program starts and logs in: init_login loads the own icon or downloads
\* it; add_friend will be called for every friend.
Login ==
    /\ ~on
    /\ session < MaxSession
    /\ on' = TRUE
    /\ session' = session + 1
    /\ todo' = Friend
    /\ img' = [img EXCEPT ![Me] = Load(Me)]
    /\ IF file[Me] = Absent THEN StartTransfer("list", Me) ELSE UNCHANGED tr
    /\ UNCHANGED <<file, adding, list, panel, refresh, srvIcon, history>>

\* The process ends; an icon being written stays as it is.
Exit ==
    /\ on
    /\ on' = FALSE
    /\ tr' = [t \in Transfer |-> Idle]
    /\ todo' = {} /\ adding' = NotAdding /\ list' = {}
    /\ panel' = [account |-> Nobody, icon |-> Nobody]
    /\ refresh' = FALSE
    /\ suspect' = suspect \union {a \in Account : Writers(a) # {}}
    /\ img' = [a \in Account |-> "none"]
    /\ failed' = {} /\ excused' = {} /\ late' = FALSE
    /\ UNCHANGED <<session, file, srvIcon>>
-----------------------------------------------------------------------------
(***************************************************************************)
(* GUI thread.                                                             *)
(***************************************************************************)
\* Mutant: an icon that exists is downloaded, one that does not is not.
AddFriend_Inverted(f) ==
    /\ on /\ adding = NotAdding /\ f \in todo
    /\ todo' = todo \ {f}
    /\ adding' = [friend |-> f, step |-> "load"]
    /\ IF file[f] # Absent THEN StartTransfer("list", f) ELSE UNCHANGED tr
    /\ UNCHANGED <<on, session, file, list, img, panel, refresh, srvIcon,
                   history>>

\* add_friend: an icon that does not exist is downloaded.
AddFriend(f) ==
    /\ on /\ adding = NotAdding /\ f \in todo
    /\ todo' = todo \ {f}
    /\ adding' = [friend |-> f, step |-> "load"]
    /\ IF file[f] = Absent THEN StartTransfer("list", f) ELSE UNCHANGED tr
    /\ UNCHANGED <<on, session, file, list, img, panel, refresh, srvIcon,
                   history>>

\* ... init_size of the button loads what there is,
InitSize ==
    /\ adding.step = "load"
    /\ adding' = [adding EXCEPT !.step = "emplace"]
    /\ img' = [img EXCEPT ![adding.friend] = Load(adding.friend)]
    /\ UNCHANGED <<on, session, file, tr, todo, list, panel, refresh,
                   srvIcon, history>>

\* ... and the friend enters _map_friends.
Emplace ==
    /\ adding.step = "emplace"
    /\ adding' = NotAdding
    /\ list' = list \union {adding.friend}
    /\ UNCHANGED <<on, session, file, tr, todo, img, panel, refresh,
                   srvIcon, history>>

LoggedIn == on /\ todo = {} /\ adding = NotAdding

\* The answer to a search (sn_extend_add_find_back): the panel shows the account,
\* with its icon if that exists; otherwise it keeps the icon it has until the
\* download is done.
FindBack(a) ==
    /\ LoggedIn
    /\ IF file[a] = Absent
       THEN /\ StartTransfer("find", a)
            /\ panel' = [panel EXCEPT !.account = a]
       ELSE /\ panel' = [account |-> a, icon |-> a]
            /\ UNCHANGED tr
    /\ late' = FALSE
    /\ UNCHANGED <<on, session, file, todo, adding, list, img, refresh, srvIcon,
                   failed, suspect, excused>>

\* The user picks a picture (sn_change_icon, sn_upload_icon).  Bound: one.
ChangeIcon ==
    /\ LoggedIn
    /\ srvIcon = 0
    /\ {t \in Transfer : tr[t] # Idle /\ tr[t].kind = "upload"} = {}
    /\ StartTransfer("upload", Me)
    /\ UNCHANGED <<on, session, file, guiVars, img, refresh, srvIcon, history>>

\* sn_update_info with an icon: update_info_icon loads the file, also if the
\* server refused.
UpdateInfoIcon ==
    /\ LoggedIn /\ refresh
    /\ refresh' = FALSE
    /\ img' = [img EXCEPT ![Me] = Load(Me)]
    /\ UNCHANGED <<on, session, file, tr, guiVars, srvIcon, history>>

\* A changed remark redraws the button (update_butt), icon included.
UpdateButt(f) ==
    /\ LoggedIn /\ f \in list
    /\ img' = [img EXCEPT ![f] = Load(f)]
    /\ excused' = IF Writers(f) # {} THEN excused \union {f} ELSE excused
    /\ UNCHANGED <<on, session, file, tr, guiVars, refresh, srvIcon, failed,
                   suspect, late>>
-----------------------------------------------------------------------------
(***************************************************************************)
(* The libhv thread of a transfer.                                         *)
(***************************************************************************)
\* The connection is there, the request made (sn_open) and accepted; a download
\* opens its file, which empties it.
Opened(t) ==
    /\ tr[t].state = "ask"
    /\ tr[t].kind # "upload"
    /\ LET a == tr[t].account
           v == SrvVersion(a)
           clash == {u \in Writers(a) : tr[u].version # v}
       IN /\ tr' = [tr EXCEPT ![t].state = "open", ![t].version = v]
          /\ file' = [file EXCEPT ![a] = <<>>]
          /\ suspect' = IF clash = {} THEN suspect \ {a} ELSE suspect \union {a}
    /\ UNCHANGED <<on, session, guiVars, img, refresh, srvIcon, failed, excused, late>>

\* ... and the server has the icon uploaded.
Uploaded(t) ==
    /\ tr[t].state = "ask"
    /\ tr[t].kind = "upload"
    /\ tr' = [tr EXCEPT ![t].state = "open", ![t].pos = Parts]
    /\ srvIcon' = 1
    /\ UNCHANGED <<on, session, file, guiVars, img, refresh, history>>

\* Mutant: the file is opened to append.
WriteAt_End(c, i, v) == Append(c, v)

\* Part i is written at its place; bytes skipped over read as zero.
WriteAt(c, i, v) ==
    [j \in 1..(IF Len(c) < i THEN i ELSE Len(c)) |->
        IF j = i THEN v ELSE IF j <= Len(c) THEN c[j] ELSE Hole]

\* Mutant: one part too many.
Part_More(t) ==
    /\ tr[t].state = "open"
    /\ tr[t].pos <= Parts
    /\ tr' = [tr EXCEPT ![t].pos = @ + 1]
    /\ file' = [file EXCEPT ![tr[t].account] =
                    WriteAt(@, tr[t].pos + 1, tr[t].version)]
    /\ UNCHANGED <<on, session, guiVars, img, refresh, srvIcon, history>>

\* A part reaches the disk.
Part(t) ==
    /\ tr[t].state = "open"
    /\ tr[t].pos < Parts
    /\ tr' = [tr EXCEPT ![t].pos = @ + 1]
    /\ file' = [file EXCEPT ![tr[t].account] =
                    WriteAt(@, tr[t].pos + 1, tr[t].version)]
    /\ UNCHANGED <<on, session, guiVars, img, refresh, srvIcon, history>>

\* A connection that fails or breaks off, a refusal, a file that does not open:
\* nobody is told, or the callback gets false and does nothing.
BreakOff(t) ==
    /\ tr[t] # Idle
    /\ tr' = [tr EXCEPT ![t] = Idle]
    /\ failed' = failed \union {tr[t].account}
    /\ suspect' = IF t \in Writers(tr[t].account)
                  THEN suspect \union {tr[t].account} ELSE suspect
    /\ UNCHANGED <<on, session, file, guiVars, img, refresh, srvIcon, excused, late>>

\* The last part is written, the file closed (sn_finish_download, _upload).
Done(t, kind) ==
    /\ tr[t].state = "open"
    /\ tr[t].pos = Parts
    /\ tr[t].kind = kind
    /\ tr' = [tr EXCEPT ![t] = Idle]

\* Mutant: the button gets the path and is not redrawn.
CallbackList_NotDrawn(t) ==
    /\ Done(t, "list")
    /\ UNCHANGED <<on, session, file, guiVars, img, refresh, srvIcon, history>>

\* Callback of the friend list: update_ac_icon looks the friend up in the map,
\* which the GUI thread may be changing (the look-up then finds it or not).
CallbackList(t) ==
    /\ Done(t, "list")
    /\ LET a == tr[t].account
       IN \E found \in IF a \in list /\ adding.step = "emplace" THEN BOOLEAN
                       ELSE {a = Me \/ a \in list} :
             /\ img' = IF found THEN [img EXCEPT ![a] = Load(a)] ELSE img
             /\ excused' = IF ~found \/ Writers(a) # {t}
                           THEN excused \union {a} ELSE excused
    /\ UNCHANGED <<on, session, file, guiVars, refresh, srvIcon, failed, suspect,
                   late>>

\* Mutant: the callback is bound to the account shown now.
CallbackFind_Bound(t) ==
    /\ Done(t, "find")
    /\ IF panel.account = tr[t].account
       THEN UNCHANGED panel
       ELSE panel' = [panel EXCEPT !.icon = panel.account]
    /\ late' = (late \/ tr[t].account # panel.account)
    /\ UNCHANGED <<on, session, file, todo, adding, list, img, refresh,
                   srvIcon, failed, suspect, excused>>

\* Callback of the search panel: the icon goes to the panel, whomever it shows.
CallbackFind(t) ==
    /\ Done(t, "find")
    /\ panel' = [panel EXCEPT !.icon = tr[t].account]
    /\ late' = (tr[t].account # panel.account)
    /\ UNCHANGED <<on, session, file, todo, adding, list, img, refresh,
                   srvIcon, failed, suspect, excused>>

\* Callback of an upload: copy_file puts the picture in place of the icon, and
\* the server is told (sn_update_info).
CallbackUpload(t) ==
    /\ Done(t, "upload")
    /\ file' = [file EXCEPT ![Me] = [i \in 1..Parts |-> 1]]
    /\ suspect' = IF Writers(Me) # {} THEN suspect \union {Me} ELSE suspect \ {Me}
    /\ refresh' = TRUE
    /\ UNCHANGED <<on, session, guiVars, img, srvIcon, failed, excused, late>>
-----------------------------------------------------------------------------
Gui ==
    \/ \E f \in Friend : AddFriend(f)
    \/ InitSize
    \/ Emplace

Moves(t) ==
    \/ Opened(t) \/ Uploaded(t) \/ Part(t) \/ BreakOff(t)
    \/ CallbackList(t) \/ CallbackFind(t) \/ CallbackUpload(t)

Next ==
    \/ Login \/ Exit
    \/ Gui
    \/ ChangeIcon
    \/ UpdateInfoIcon
    \/ \E a \in Account : FindBack(a)
    \/ \E f \in Friend : UpdateButt(f)
    \/ \E t \in Transfer : Moves(t)

Spec == Init /\ [][Next]_vars

\* sn_ac_login's loop over the friends goes on, and every transfer goes on or
\* fails; users and the server's other answers owe nothing.
FairSpec == Spec /\ WF_vars(Gui) /\ \A t \in Transfer : WF_vars(Moves(t))
-----------------------------------------------------------------------------
(***************************************************************************)
(* Properties.                                                             *)
(***************************************************************************)
TypeOK ==
    /\ on \in BOOLEAN
    /\ session \in Nat
    /\ file \in [Account -> Content \union {Absent}]
    /\ tr \in [Transfer -> Busy \union {Idle}]
    /\ todo \in SUBSET Friend
    /\ adding \in [friend : Friend \union {Nobody}, step : {"none", "load", "emplace"}]
    /\ list \in SUBSET Friend
    /\ img \in [Account -> {"none", "damaged", "whole"}]
    /\ panel \in [account : Account \union {Nobody}, icon : Account \union {Nobody}]
    /\ refresh \in BOOLEAN
    /\ srvIcon \in Versions
    /\ failed \in SUBSET Account
    /\ suspect \in SUBSET Account
    /\ excused \in SUBSET Account
    /\ late \in BOOLEAN

\* Downloads of one icon may overlap, each emptying the file the others write
\* to: once all of them are through the file is whole.  Only a download that
\* broke off, or a new icon copied into the middle of one, spoils it.
OverlapHeals ==
    \A a \in Account :
        file[a] # Absent /\ Writers(a) = {} /\ a \notin suspect => Whole(file[a])

\* With nothing under way, a button shows the icon that is on the disk, unless
\* a transfer failed, its callback missed the friend in the map, or it loaded
\* the file while another download was writing to it.
ButtonShowsFile ==
    \A f \in list :
        Whole(file[f]) /\ Running(f) = {} /\ f \notin failed \union excused
            => img[f] = "whole"

\* The search panel shows the icon of the account it shows, unless that is
\* still to come, could not be fetched, or an earlier search's came after it.
FindShowsIcon ==
    panel.account # Nobody /\ panel.icon # panel.account =>
        late \/ Running(panel.account) # {} \/ panel.account \in failed

\* A friend's icon that does not exist is fetched, however downloads overlap,
\* unless a transfer of it fails.
MissingIsFetched ==
    \A f \in Friend :
        (on /\ file[f] = Absent) ~> (Whole(file[f]) \/ f \in failed \/ ~on)

\* A friend's icon that is not there in full is fetched.
IncompleteIsFetched ==
    \A f \in Friend :
        (on /\ ~Whole(file[f])) ~> (Whole(file[f]) \/ f \in failed \/ ~on)
=============================================================================
