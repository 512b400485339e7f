--------------------------- MODULE IconTransferProof ---------------------------
(***************************************************************************)
(* Proofs about IconTransfer, for any friends, transfers and icon sizes.   *)
(*                                                                         *)
(* Every download of an icon writes all of its parts in order, so a part   *)
(* that is not yet right on the disk is still ahead of some download.  An  *)
(* icon the button has not loaded in full is still to be announced by the  *)
(* download the friend list has started, or nobody is at work on it.       *)
(***************************************************************************)
EXTENDS IconTransfer, TLAPS

\* What a transfer has to be like in the states it goes through.
Sound(t) ==
    /\ on
    /\ tr[t].state = "ask" => tr[t].pos = 0
    /\ tr[t].kind = "upload" =>
          tr[t].account = Me /\ (tr[t].state = "open" => tr[t].pos = Parts)
    /\ tr[t].kind # "upload" /\ tr[t].state = "open" => file[tr[t].account] # Absent
    /\ tr[t].account \in Friend => tr[t].version = 0

Transfers == \A t \in Transfer : tr[t] # Idle => Sound(t)

\* A friend is to be added, being added or in the list.
Adding ==
    /\ ~on => todo = {} /\ list = {} /\ adding = NotAdding
    /\ todo \cap list = {}
    /\ adding.friend \notin todo \union list
    /\ adding.step = "none" <=> adding.friend = Nobody
    /\ \A f \in todo : Running(f) = {}

\* Every part of the icon of a is on the disk as version v, or a download that
\* has not come to it will write it.
Written(c, j, v) == j <= Len(c) /\ c[j] = v
Mends(a, v) ==
    /\ \A t \in Writers(a) : tr[t].version = v
    /\ \A j \in 1..Parts :
          Written(file[a], j, v) \/ \E t \in Writers(a) : tr[t].pos < j

Mending ==
    \A a \in Account :
        file[a] # Absent /\ a \notin suspect => \E v \in Versions : Mends(a, v)

\* A friend's icon that is written and has not failed is in order.
Orderly ==
    \A f \in Friend : Writers(f) # {} /\ f \notin failed => f \notin suspect

\* The list's download of f goes on / nobody changes the icon of f, and nobody
\* will / the button has the icon.
Listing(f) == \E t \in Running(f) : tr[t].kind = "list"
Still(f) == file[f] # Absent /\ Running(f) = {}
Drawn(f) == img[f] = "whole" /\ (Writers(f) = {} => Whole(file[f]))

Button(f) ==
    /\ adding.friend = f /\ adding.step = "load" => Listing(f) \/ Still(f)
    /\ f \in list \/ (adding.friend = f /\ adding.step = "emplace") =>
          Listing(f) \/ Drawn(f) \/ (Still(f) /\ ~Whole(file[f]))

Buttons == \A f \in Friend : f \in failed \union excused \/ Button(f)

\* The icon of the account searched for is shown, is still fetched by the panel
\* itself, failed, or an earlier one came after it.
Finding ==
    panel.account # Nobody /\ panel.icon # panel.account =>
        \/ late
        \/ panel.account \in failed
        \/ \E t \in Running(panel.account) : tr[t].kind = "find"

\* What the transfers do to the disk.
Stored == Transfers /\ Mending /\ Orderly

IInv ==
    /\ TypeOK
    /\ Stored
    /\ Adding
    /\ Buttons
    /\ Finding
-----------------------------------------------------------------------------
(***************************************************************************)
(* Icons on the disk.                                                      *)
(***************************************************************************)
Shade == Versions \union {Hole}

\* The parts of an icon, as a sequence.
LEMMA ContentShape ==
    ASSUME NEW c \in Content
    PROVE  /\ Len(c) \in 0..Parts
           /\ c \in [1..Len(c) -> Shade]
           /\ c # Absent
<1>1. PICK n \in 0..Parts : c \in [1..n -> Shade]
  BY DEF Content, Shade
<1>2. n \in Nat
  BY <1>1, IconTransferAssumption
<1>3. Shade \subseteq Nat
  BY DEF Shade, Versions, Hole
<1>4. c \in Seq(Nat) /\ Len(c) = n
  <2>1. c \in [1..n -> Nat]
    BY <1>1, <1>3
  <2>2. QED
    BY <1>2, <2>1
<1>5. QED
  BY <1>1, <1>4, IconTransferAssumption

\* ... and a sequence of parts is an icon.
LEMMA ContentOf ==
    ASSUME NEW n \in 0..Parts, NEW c \in [1..n -> Shade]
    PROVE  c \in Content /\ Len(c) = n
<1>1. c \in Content
  BY DEF Content, Shade
<1>2. n \in Nat
  BY IconTransferAssumption
<1>3. QED
  BY <1>1, <1>2

\* Writing a part: the part is there, and parts that were there stay.
LEMMA WriteAtFacts ==
    ASSUME NEW c \in Content, NEW i \in 1..Parts, NEW v \in Versions
    PROVE  /\ WriteAt(c, i, v) \in Content
           /\ Written(WriteAt(c, i, v), i, v)
           /\ \A j \in 1..Parts : Written(c, j, v) => Written(WriteAt(c, i, v), j, v)
<1> DEFINE n == IF Len(c) < i THEN i ELSE Len(c)
           d == WriteAt(c, i, v)
<1>1. Len(c) \in 0..Parts /\ c \in [1..Len(c) -> Shade] /\ Parts \in Nat
  BY ContentShape, IconTransferAssumption
<1>2. n \in 0..Parts /\ Len(c) <= n /\ i <= n
  BY <1>1
<1>3. d = [j \in 1..n |-> IF j = i THEN v ELSE IF j <= Len(c) THEN c[j] ELSE Hole]
  BY DEF WriteAt
<1> HIDE DEF n, d
<1>4. v \in Shade /\ Hole \in Shade
  BY DEF Shade
<1>5. ASSUME NEW j \in 1..n
      PROVE  (IF j = i THEN v ELSE IF j <= Len(c) THEN c[j] ELSE Hole) \in Shade
  BY <1>1, <1>2, <1>4
<1>6. d \in [1..n -> Shade]
  BY <1>3, <1>5
<1>7. d \in Content /\ Len(d) = n
  BY <1>2, <1>6, ContentOf
<1>8. d[i] = v /\ \A j \in 1..Len(c) : c[j] = v => d[j] = v
  BY <1>1, <1>2, <1>3
<1>9. QED
  BY <1>1, <1>2, <1>7, <1>8 DEF Written, d

\* An icon with every part written is whole, and so is only that.
LEMMA WholeFacts ==
    ASSUME NEW c \in Content, NEW v \in Versions
    PROVE  (\A j \in 1..Parts : Written(c, j, v)) <=> WholeAs(c, v)
<1>1. Len(c) \in 0..Parts /\ c \in [1..Len(c) -> Shade] /\ Parts \in Nat \ {0}
  BY ContentShape, IconTransferAssumption
<1>0. ASSUME NEW n \in 0..Parts, Parts <= n PROVE n = Parts
  BY <1>0, IconTransferAssumption
<1>2. ASSUME \A j \in 1..Parts : Written(c, j, v) PROVE WholeAs(c, v)
  <2>1. Parts <= Len(c)
    <3>1. Parts \in 1..Parts
      BY <1>1
    <3>2. QED
      BY <1>2, <3>1 DEF Written
  <2>2. Len(c) = Parts
    BY <1>0, <1>1, <2>1
  <2>3. c = [j \in 1..Parts |-> v]
    <3>1. c \in [1..Parts -> Shade]
      BY <1>1, <2>2
    <3>2. \A j \in 1..Parts : c[j] = v
      BY <1>2 DEF Written
    <3>3. QED
      BY <3>1, <3>2
  <2>4. QED
    BY <2>3 DEF WholeAs
<1>3. ASSUME WholeAs(c, v) PROVE \A j \in 1..Parts : Written(c, j, v)
  <2>1. c = [j \in 1..Parts |-> v]
    BY <1>3 DEF WholeAs
  <2>2. Len(c) = Parts
    <3>1. DOMAIN c = 1..Parts /\ DOMAIN c = 1..Len(c)
      BY <1>1, <2>1
    <3>2. Parts \in 1..Parts
      BY <1>1
    <3>3. Parts <= Len(c)
      BY <1>1, <3>1, <3>2
    <3>4. QED
      BY <1>0, <1>1, <3>3
  <2>3. QED
    BY <1>1, <2>1, <2>2 DEF Written
<1>4. QED
  BY <1>2, <1>3

\* The empty file, and the picture that is copied, are icons.
LEMMA NewFiles ==
    /\ <<>> \in Content /\ <<>> # Absent
    /\ [i \in 1..Parts |-> 1] \in Content
    /\ [i \in 1..Parts |-> 1] # Absent
    /\ WholeAs([i \in 1..Parts |-> 1], 1)
<1>1. <<>> \in [1..0 -> Shade] /\ 0 \in 0..Parts
  BY IconTransferAssumption
<1>2. [i \in 1..Parts |-> 1] \in [1..Parts -> Shade] /\ Parts \in 0..Parts
  BY IconTransferAssumption DEF Shade, Versions
<1>3. <<>> \in Content /\ [i \in 1..Parts |-> 1] \in Content
  BY <1>1, <1>2, ContentOf
<1>4. QED
  BY <1>3, ContentShape DEF WholeAs
-----------------------------------------------------------------------------
(***************************************************************************)
(* Transfers.                                                              *)
(***************************************************************************)
\* A transfer that is not idle has all the fields of one.
LEMMA BusyFields ==
    ASSUME TypeOK, NEW t \in Transfer
    PROVE  /\ tr[t] # Idle =>
                 /\ tr[t] \in Busy
                 /\ tr[t].state \in {"ask", "open"}
                 /\ tr[t].kind \in {"list", "find", "upload"}
                 /\ tr[t].account \in Account
                 /\ tr[t].version \in Versions
                 /\ tr[t].pos \in 0..Parts
           /\ tr[t].state \in {"ask", "open"} => tr[t] # Idle
BY DEF TypeOK, Busy, Idle

\* A download that has its file open is running, and the file is there.
LEMMA WritersRun ==
    ASSUME TypeOK, Transfers, NEW a \in Account
    PROVE  /\ Writers(a) \subseteq Running(a)
           /\ \A t \in Writers(a) : file[a] # Absent
<1>1. ASSUME NEW t \in Writers(a) PROVE t \in Running(a) /\ file[a] # Absent
  <2>1. /\ t \in Transfer /\ tr[t].state = "open" /\ tr[t].account = a
        /\ tr[t].kind # "upload"
    BY DEF Writers
  <2>2. tr[t] # Idle
    BY <2>1, BusyFields
  <2>3. QED
    BY <2>1, <2>2 DEF Transfers, Sound, Running
<1>2. QED
  BY <1>1

\* A new transfer asks first; it runs for its account.
LEMMA StartFacts ==
    ASSUME TypeOK, NEW kind \in {"list", "find", "upload"}, NEW a \in Account,
           StartTransfer(kind, a)
    PROVE  /\ tr' \in [Transfer -> Busy \union {Idle}]
           /\ \E n \in Transfer :
                 /\ tr[n] = Idle
                 /\ tr'[n] # Idle
                 /\ tr'[n].state = "ask" /\ tr'[n].kind = kind /\ tr'[n].account = a
                 /\ tr'[n].version = 0 /\ tr'[n].pos = 0
                 /\ \A u \in Transfer \ {n} : tr'[u] = tr[u]
                 /\ \A b : Writers(b)' = Writers(b) /\ n \notin Writers(b)
                 /\ Running(a)' = Running(a) \union {n}
                 /\ \A b : b # a => Running(b)' = Running(b)
<1> DEFINE n == CHOOSE t \in Free : TRUE
           r == [state |-> "ask", kind |-> kind, account |-> a,
                 version |-> 0, pos |-> 0]
<1>1. n \in Free /\ tr' = [tr EXCEPT ![n] = r]
  BY DEF StartTransfer
<1> HIDE DEF n
<1>2. n \in Transfer /\ tr[n] = Idle
  BY <1>1 DEF Free
<1>3. r \in Busy
  BY IconTransferAssumption DEF Busy, Versions
<1>4. /\ r # Idle /\ r.state = "ask" /\ r.kind = kind /\ r.account = a
      /\ r.version = 0 /\ r.pos = 0
  BY DEF Idle
<1> HIDE DEF r
<1>5. /\ tr' \in [Transfer -> Busy \union {Idle}]
      /\ tr'[n] = r
      /\ \A u \in Transfer \ {n} : tr'[u] = tr[u]
  BY <1>1, <1>2, <1>3 DEF TypeOK
<1>6. tr[n].state = "idle"
  BY <1>2 DEF Idle
<1>7. ASSUME NEW b PROVE Writers(b)' = Writers(b) /\ n \notin Writers(b)
  BY <1>2, <1>4, <1>5, <1>6 DEF Writers
<1>8. Running(a)' = Running(a) \union {n}
  BY <1>2, <1>4, <1>5 DEF Running
<1>9. ASSUME NEW b, b # a PROVE Running(b)' = Running(b)
  BY <1>2, <1>4, <1>5, <1>9 DEF Running
<1>10. QED
  BY <1>2, <1>4, <1>5, <1>7, <1>8, <1>9

\* A transfer that ends leaves the others.
LEMMA EndFacts ==
    ASSUME TypeOK, NEW t \in Transfer, tr' = [tr EXCEPT ![t] = Idle]
    PROVE  /\ tr' \in [Transfer -> Busy \union {Idle}]
           /\ tr'[t] = Idle
           /\ \A u \in Transfer \ {t} : tr'[u] = tr[u]
           /\ \A b : Writers(b)' = Writers(b) \ {t}
           /\ \A b : Running(b)' = Running(b) \ {t}
<1>1. /\ tr' \in [Transfer -> Busy \union {Idle}]
      /\ tr'[t] = Idle
      /\ \A u \in Transfer \ {t} : tr'[u] = tr[u]
  BY DEF TypeOK
<1>2. Idle.state # "open"
  BY DEF Idle
<1>3. ASSUME NEW b PROVE Writers(b)' = Writers(b) \ {t}
  BY <1>1, <1>2 DEF Writers
<1>4. ASSUME NEW b PROVE Running(b)' = Running(b) \ {t}
  BY <1>1 DEF Running
<1>5. QED
  BY <1>1, <1>3, <1>4

\* A transfer that goes on keeps its kind and its account.
LEMMA MoveFacts ==
    ASSUME TypeOK, NEW t \in Transfer, tr[t] # Idle, NEW r \in Busy,
           r.kind = tr[t].kind, r.account = tr[t].account,
           tr'[t] = r, \A u \in Transfer \ {t} : tr'[u] = tr[u]
    PROVE  /\ r # Idle
           /\ \A u \in Transfer : /\ tr'[u] # Idle <=> tr[u] # Idle
                                  /\ tr[u] # Idle => /\ tr'[u].kind = tr[u].kind
                                                     /\ tr'[u].account = tr[u].account
           /\ \A b : Running(b)' = Running(b)
           /\ \A b : b # r.account \/ r.kind = "upload" \/ r.state = tr[t].state =>
                        Writers(b)' = Writers(b)
           /\ r.kind # "upload" /\ r.state = "open" =>
                 Writers(r.account)' = Writers(r.account) \union {t}
<1>1. tr'[t] = r /\ \A u \in Transfer \ {t} : tr'[u] = tr[u]
  OBVIOUS
<1>2. r # Idle
  BY DEF Busy, Idle
<1>3. \A u \in Transfer : /\ tr'[u] # Idle <=> tr[u] # Idle
                          /\ tr[u] # Idle => /\ tr'[u].kind = tr[u].kind
                                             /\ tr'[u].account = tr[u].account
  BY <1>1, <1>2
<1>4. ASSUME NEW b PROVE Running(b)' = Running(b)
  BY <1>3 DEF Running
<1>5. ASSUME NEW b, b # r.account \/ r.kind = "upload" \/ r.state = tr[t].state
      PROVE  Writers(b)' = Writers(b)
  BY <1>1, <1>5 DEF Writers
<1>6. ASSUME r.kind # "upload", r.state = "open"
      PROVE  Writers(r.account)' = Writers(r.account) \union {t}
  BY <1>1, <1>6 DEF Writers
<1>7. QED
  BY <1>1, <1>2, <1>3, <1>4, <1>5, <1>6
-----------------------------------------------------------------------------
\* An icon that is not suspect is whole when nobody writes to it.
LEMMA HealedIsWhole ==
    ASSUME TypeOK, Mending, NEW a \in Account,
           file[a] # Absent, Writers(a) = {}, a \notin suspect
    PROVE  Whole(file[a])
<1>1. PICK v \in Versions : Mends(a, v)
  BY DEF Mending
<1>2. \A j \in 1..Parts : Written(file[a], j, v)
  BY <1>1 DEF Mends
<1>3. file[a] \in Content
  BY DEF TypeOK
<1>4. QED
  BY <1>2, <1>3, WholeFacts DEF Whole

\* A picture shows in full what is on the disk in full.
LEMMA LoadFacts ==
    ASSUME TypeOK, NEW a \in Account
    PROVE  /\ Load(a) \in {"none", "damaged", "whole"}
           /\ Load(a) = "whole" <=> Whole(file[a])
<1>1. ~Whole(Absent)
  <2>1. ASSUME NEW v \in Versions, WholeAs(Absent, v) PROVE FALSE
    <3>1. Absent = [i \in 1..Parts |-> v]
      BY <2>1 DEF WholeAs
    <3>2. Parts \in 0..Parts /\ [i \in 1..Parts |-> v] \in [1..Parts -> Shade]
      BY IconTransferAssumption DEF Shade
    <3>3. QED
      BY <3>1, <3>2, ContentOf, ContentShape
  <2>2. QED
    BY <2>1 DEF Whole
<1>2. QED
  BY <1>1 DEF Load

\* Mends is about the file and those who write to it.
LEMMA MendsSame ==
    ASSUME NEW a \in Account, NEW v, Mends(a, v), file'[a] = file[a],
           Writers(a)' = Writers(a),
           \A t \in Writers(a) : tr'[t].version = tr[t].version /\ tr'[t].pos = tr[t].pos
    PROVE  Mends(a, v)'
BY DEF Mends

\* The disk is left alone.
LEMMA StoredSame ==
    ASSUME TypeOK, Stored, on => on', UNCHANGED <<tr, file, suspect, failed>>
    PROVE  Stored'
<1>1. \A a : Writers(a)' = Writers(a)
  BY DEF Writers
<1>2. Transfers'
  BY DEF Stored, Transfers, Sound
<1>3. Mending'
  BY <1>1, MendsSame DEF Stored, Mending
<1>4. Orderly'
  BY <1>1 DEF Stored, Orderly
<1>5. QED
  BY <1>2, <1>3, <1>4 DEF Stored

\* A transfer that starts writes nothing yet.
LEMMA StoredStart ==
    ASSUME TypeOK, Stored, on', UNCHANGED <<file, suspect, failed>>,
           NEW kind \in {"list", "find", "upload"}, NEW a \in Account,
           kind = "upload" => a = Me, StartTransfer(kind, a)
    PROVE  Stored'
<1>1. PICK n \in Transfer :
          /\ tr'[n].state = "ask" /\ tr'[n].kind = kind /\ tr'[n].account = a
          /\ tr'[n].version = 0 /\ tr'[n].pos = 0
          /\ \A u \in Transfer \ {n} : tr'[u] = tr[u]
          /\ \A b : Writers(b)' = Writers(b) /\ n \notin Writers(b)
  BY StartFacts
<1>2. ASSUME NEW t \in Transfer, tr'[t] # Idle PROVE Sound(t)'
  <2>1. CASE t = n
    BY <1>1, <2>1 DEF Sound
  <2>2. CASE t # n
    BY <1>1, <1>2, <2>2 DEF Stored, Transfers, Sound
  <2>3. QED
    BY <2>1, <2>2
<1>3. ASSUME NEW b \in Account, NEW v, Mends(b, v) PROVE Mends(b, v)'
  <2>1. \A t \in Writers(b) : tr'[t] = tr[t]
    BY <1>1 DEF Writers
  <2>2. QED
    BY <1>1, <1>3, <2>1, MendsSame
<1>4. Mending'
  BY <1>3 DEF Stored, Mending
<1>5. Orderly'
  BY <1>1 DEF Stored, Orderly
<1>6. QED
  BY <1>2, <1>4, <1>5 DEF Stored, Transfers

\* A button that a step is not about.
LEMMA ButtonSame ==
    ASSUME NEW f \in Friend, Button(f), UNCHANGED <<adding, list>>,
           img'[f] = img[f], file'[f] = file[f],
           Running(f)' = Running(f), Writers(f)' = Writers(f),
           \A t \in Running(f) : tr'[t].kind = tr[t].kind
    PROVE  Button(f)'
<1>1. (Listing(f) => Listing(f)') /\ (Still(f) => Still(f)') /\ (Drawn(f) => Drawn(f)')
  BY DEF Listing, Still, Drawn
<1>2. QED
  BY <1>1 DEF Button

\* The panel, when it is left alone and its download goes on or fails.
LEMMA FindingSame ==
    ASSUME Finding, UNCHANGED <<panel, late>>, failed \subseteq failed',
           \A a : \A t \in Running(a) :
               tr[t].kind = "find" => \/ t \in Running(a)' /\ tr'[t].kind = "find"
                                      \/ a \in failed'
    PROVE  Finding'
BY DEF Finding
-----------------------------------------------------------------------------
(***************************************************************************)
(* Start and end of the program, and the GUI thread.                       *)
(***************************************************************************)
\* The invariant holds at first: nothing is there.
LEMMA InitIInv ==
    ASSUME Init
    PROVE  IInv
<1>1. /\ on = FALSE /\ todo = {} /\ list = {} /\ adding = NotAdding
      /\ failed = {} /\ suspect = {} /\ excused = {} /\ late = FALSE
      /\ session = 0 /\ refresh = FALSE /\ srvIcon = 0
      /\ file = [a \in Account |-> Absent]
      /\ tr = [t \in Transfer |-> Idle]
      /\ img = [a \in Account |-> "none"]
      /\ panel = [account |-> Nobody, icon |-> Nobody]
  BY DEF Init
<1>2. /\ adding \in [friend : Friend \union {Nobody}, step : {"none", "load", "emplace"}]
      /\ adding.friend = Nobody /\ adding.step = "none"
  BY <1>1 DEF NotAdding
<1>3. TypeOK
  BY <1>1, <1>2 DEF TypeOK, Versions
<1>4. \A a : Writers(a) = {}
  BY <1>1 DEF Writers, Idle
<1>5. Stored
  BY <1>1, <1>4 DEF Stored, Transfers, Mending, Orderly
<1>6. Adding
  BY <1>1, <1>2 DEF Adding
<1>7. Buttons
  BY <1>1, <1>2, IconTransferAssumption DEF Buttons, Button
<1>8. Finding
  BY <1>1 DEF Finding
<1>9. QED
  BY <1>3, <1>5, <1>6, <1>7, <1>8 DEF IInv

\* The process ends: icons being written become suspect.
LEMMA ExitStep ==
    ASSUME IInv, Exit
    PROVE  IInv'
<1>1. /\ on' = FALSE /\ todo' = {} /\ list' = {} /\ adding' = NotAdding
      /\ failed' = {} /\ excused' = {} /\ late' = FALSE /\ refresh' = FALSE
      /\ suspect' = suspect \union {a \in Account : Writers(a) # {}}
      /\ tr' = [t \in Transfer |-> Idle]
      /\ img' = [a \in Account |-> "none"]
      /\ panel' = [account |-> Nobody, icon |-> Nobody]
      /\ UNCHANGED <<session, file, srvIcon>>
  BY DEF Exit
<1>2. /\ adding' \in [friend : Friend \union {Nobody}, step : {"none", "load", "emplace"}]
      /\ adding'.friend = Nobody /\ adding'.step = "none"
  BY <1>1 DEF NotAdding
<1>3. TypeOK'
  BY <1>1, <1>2 DEF IInv, TypeOK
<1>4. \A a : Writers(a)' = {}
  BY <1>1 DEF Writers, Idle
<1>5. ASSUME NEW a \in Account, file'[a] # Absent, a \notin suspect'
      PROVE  \E v \in Versions : Mends(a, v)'
  <2>1. file[a] # Absent /\ a \notin suspect /\ Writers(a) = {}
    BY <1>1, <1>5
  <2>2. PICK v \in Versions : Mends(a, v)
    BY <2>1 DEF IInv, Stored, Mending
  <2>3. Mends(a, v)'
    BY <1>1, <1>4, <2>1, <2>2, MendsSame
  <2>4. QED
    BY <2>3
<1>6. Stored'
  BY <1>1, <1>4, <1>5 DEF Stored, Transfers, Mending, Orderly
<1>7. Adding'
  BY <1>1, <1>2 DEF Adding
<1>8. Buttons'
  BY <1>1, <1>2, IconTransferAssumption DEF Buttons, Button
<1>9. Finding'
  BY <1>1 DEF Finding
<1>10. QED
  BY <1>3, <1>6, <1>7, <1>8, <1>9 DEF IInv

\* The program starts and may fetch the account's own icon.
LEMMA LoginStep ==
    ASSUME IInv, Login
    PROVE  IInv'
<1>1. /\ ~on /\ on' = TRUE /\ session' = session + 1 /\ todo' = Friend
      /\ img' = [img EXCEPT ![Me] = Load(Me)]
      /\ StartTransfer("list", Me) \/ tr' = tr
      /\ UNCHANGED <<file, adding, list, panel, refresh, srvIcon, failed, suspect,
                     excused, late>>
  BY DEF Login, history
<1>2. list = {} /\ adding = NotAdding /\ \A t \in Transfer : tr[t] = Idle
  BY <1>1 DEF IInv, Stored, Adding, Transfers, Sound
<1>3. Me \in Account /\ Me \notin Friend
  BY IconTransferAssumption DEF Account
<1>4. Stored' /\ tr' \in [Transfer -> Busy \union {Idle}]
  <2>1. CASE StartTransfer("list", Me)
    BY <1>1, <1>3, <2>1, StoredStart, StartFacts DEF IInv
  <2>2. CASE tr' = tr
    BY <1>1, <2>2, StoredSame DEF IInv, TypeOK
  <2>3. QED
    BY <1>1, <2>1, <2>2
<1>5. TypeOK'
  BY <1>1, <1>3, <1>4, LoadFacts DEF IInv, TypeOK
<1>6. \A f \in Friend : Running(f)' = {}
  <2>1. \A f : Running(f) = {}
    BY <1>2 DEF Running
  <2>2. CASE StartTransfer("list", Me)
    <3>1. \A f : f # Me => Running(f)' = Running(f)
      BY <1>3, <2>2, StartFacts DEF IInv
    <3>2. QED
      BY <1>3, <2>1, <3>1
  <2>3. CASE tr' = tr
    BY <2>1, <2>3 DEF Running
  <2>4. QED
    BY <1>1, <2>2, <2>3
<1>7. adding.friend = Nobody /\ adding.step = "none"
  BY <1>2 DEF NotAdding
<1>8. Adding'
  BY <1>1, <1>2, <1>6, <1>7, IconTransferAssumption DEF Adding
<1>9. Buttons'
  BY <1>1, <1>2, <1>7, IconTransferAssumption DEF Buttons, Button
<1>10. Finding'
  <2>1. \A a : Running(a) = {}
    BY <1>2 DEF Running
  <2>2. QED
    BY <1>1, <2>1, FindingSame DEF IInv
<1>11. QED
  BY <1>4, <1>5, <1>8, <1>9, <1>10 DEF IInv

\* add_friend fetches the icon if it is not there; then nobody is at work on it
\* otherwise.
LEMMA AddFriendStep ==
    ASSUME IInv, NEW g \in Friend, AddFriend(g)
    PROVE  IInv'
<1>1. /\ on /\ adding = NotAdding /\ g \in todo /\ todo' = todo \ {g}
      /\ adding' = [friend |-> g, step |-> "load"]
      /\ \/ StartTransfer("list", g)
         \/ file[g] # Absent /\ tr' = tr
      /\ UNCHANGED <<on, session, file, list, img, panel, refresh, srvIcon, failed,
                     suspect, excused, late>>
  BY DEF AddFriend, history
<1>2. g \in Account /\ g # Nobody
  BY IconTransferAssumption DEF Account
<1>3. Stored' /\ tr' \in [Transfer -> Busy \union {Idle}]
  <2>1. CASE StartTransfer("list", g)
    BY <1>1, <1>2, <2>1, StoredStart, StartFacts DEF IInv
  <2>2. CASE tr' = tr
    BY <1>1, <2>2, StoredSame DEF IInv, TypeOK
  <2>3. QED
    BY <1>1, <2>1, <2>2
<1>4. /\ adding.friend = Nobody /\ adding.step = "none"
      /\ adding'.friend = g /\ adding'.step = "load"
      /\ adding' \in [friend : Friend \union {Nobody}, step : {"none", "load", "emplace"}]
  BY <1>1 DEF NotAdding
<1>5. TypeOK'
  BY <1>1, <1>3, <1>4 DEF IInv, TypeOK
<1>6. /\ \A b : b # g => Running(b)' = Running(b)
      /\ \A b : Writers(b)' = Writers(b)
      /\ \A b : \A t \in Running(b) : t \in Running(b)' /\ tr'[t] = tr[t]
      /\ Listing(g)' \/ Still(g)'
  <2>1. CASE StartTransfer("list", g)
    <3>1. PICK n \in Transfer :
              /\ tr[n] = Idle
              /\ tr'[n].kind = "list"
              /\ \A u \in Transfer \ {n} : tr'[u] = tr[u]
              /\ \A b : Writers(b)' = Writers(b)
              /\ Running(g)' = Running(g) \union {n}
              /\ \A b : b # g => Running(b)' = Running(b)
      BY <1>2, <2>1, StartFacts DEF IInv
    <3>2. \A b : \A t \in Running(b) : t \in Transfer \ {n}
      BY <3>1 DEF Running
    <3>3. Listing(g)'
      BY <3>1 DEF Listing
    <3>4. QED
      BY <3>1, <3>2, <3>3
  <2>2. CASE file[g] # Absent /\ tr' = tr
    <3>1. \A b : Running(b)' = Running(b) /\ Writers(b)' = Writers(b)
      BY <2>2 DEF Running, Writers
    <3>2. Running(g) = {}
      BY <1>1 DEF IInv, Adding
    <3>3. QED
      BY <1>1, <2>2, <3>1, <3>2 DEF Still
  <2>3. QED
    BY <1>1, <2>1, <2>2
<1>7. Adding'
  BY <1>1, <1>2, <1>4, <1>6 DEF IInv, Adding
<1>8. ASSUME NEW f \in Friend, f \notin failed' \union excused'
      PROVE  Button(f)'
  <2>1. CASE f = g
    <3>1. g \notin list'
      BY <1>1 DEF IInv, Adding
    <3>2. QED
      BY <1>4, <1>6, <2>1, <3>1 DEF Button
  <2>2. CASE f # g
    <3>1. Button(f)
      BY <1>1, <1>8 DEF IInv, Buttons
    <3>2. \A t \in Running(f) : tr'[t] = tr[t]
      BY <1>6
    <3>3. (Listing(f) => Listing(f)') /\ (Still(f) => Still(f)') /\ (Drawn(f) => Drawn(f)')
      BY <1>1, <1>6, <2>2, <3>2 DEF Listing, Still, Drawn
    <3>4. QED
      BY <1>1, <1>4, <2>2, <3>1, <3>3 DEF Button
  <2>3. QED
    BY <2>1, <2>2
<1>9. Finding'
  BY <1>1, <1>6, FindingSame DEF IInv
<1>10. QED
  BY <1>3, <1>5, <1>7, <1>8, <1>9 DEF IInv, Buttons

\* The button loads what there is: all of the icon, or what nobody completes,
\* unless the list's download goes on.
LEMMA InitSizeStep ==
    ASSUME IInv, InitSize
    PROVE  IInv'
<1> DEFINE g == adding.friend
<1>1. /\ adding.step = "load"
      /\ adding' = [adding EXCEPT !.step = "emplace"]
      /\ img' = [img EXCEPT ![g] = Load(g)]
      /\ UNCHANGED <<on, session, file, tr, todo, list, panel, refresh, srvIcon,
                     failed, suspect, excused, late>>
  BY DEF InitSize, history
<1>2. adding \in [friend : Friend \union {Nobody}, step : {"none", "load", "emplace"}]
  BY DEF IInv, TypeOK
<1>3. /\ adding'.friend = g /\ adding'.step = "emplace"
      /\ adding' \in [friend : Friend \union {Nobody}, step : {"none", "load", "emplace"}]
  BY <1>1, <1>2
<1>4. g \in Friend /\ g # Nobody /\ on
  <2>1. g # Nobody
    BY <1>1 DEF IInv, Adding
  <2>2. on
    BY <1>1 DEF IInv, Adding, NotAdding
  <2>3. QED
    BY <1>2, <2>1, <2>2
<1>5. g \in Account
  BY <1>4 DEF Account
<1> HIDE DEF g
<1>6. /\ img' \in [Account -> {"none", "damaged", "whole"}]
      /\ img'[g] = Load(g)
      /\ \A f \in Friend : f # g => img'[f] = img[f]
  BY <1>1, <1>5, LoadFacts DEF IInv, TypeOK, Account
<1>7. TypeOK'
  BY <1>1, <1>3, <1>6 DEF IInv, TypeOK
<1>8. Stored'
  BY <1>1, StoredSame DEF IInv
<1>9. \A b : Running(b)' = Running(b) /\ Writers(b)' = Writers(b)
  BY <1>1 DEF Running, Writers
<1>10. Adding'
  BY <1>1, <1>3, <1>4, <1>9 DEF IInv, Adding, g
<1>11. ASSUME NEW f \in Friend, f \notin failed' \union excused'
       PROVE  Button(f)'
  <2>1. Button(f)
    BY <1>1, <1>11 DEF IInv, Buttons
  <2>2. (Listing(f) => Listing(f)') /\ (Still(f) => Still(f)')
    BY <1>1, <1>9 DEF Listing, Still
  <2>3. CASE f = g
    <3>1. Listing(f) \/ Still(f)
      BY <1>1, <2>1, <2>3 DEF Button, g
    <3>2. Whole(file[f]) => Drawn(f)'
      BY <1>1, <1>5, <1>6, <2>3, LoadFacts DEF IInv, Drawn
    <3>3. QED
      BY <1>1, <1>3, <2>2, <3>1, <3>2 DEF Button
  <2>4. CASE f # g
    <3>1. Drawn(f) => Drawn(f)'
      BY <1>1, <1>6, <1>9, <2>4 DEF Drawn
    <3>2. QED
      BY <1>1, <1>3, <2>1, <2>2, <2>4, <3>1 DEF Button
  <2>5. QED
    BY <2>3, <2>4
<1>12. Finding'
  BY <1>1, <1>9, FindingSame DEF IInv
<1>13. QED
  BY <1>7, <1>8, <1>10, <1>11, <1>12 DEF IInv, Buttons

\* The friend enters the map.
LEMMA EmplaceStep ==
    ASSUME IInv, Emplace
    PROVE  IInv'
<1> DEFINE g == adding.friend
<1>1. /\ adding.step = "emplace" /\ adding' = NotAdding /\ list' = list \union {g}
      /\ UNCHANGED <<on, session, file, tr, todo, img, panel, refresh, srvIcon,
                     failed, suspect, excused, late>>
  BY DEF Emplace, history
<1>2. adding \in [friend : Friend \union {Nobody}, step : {"none", "load", "emplace"}]
  BY DEF IInv, TypeOK
<1>3. g \in Friend /\ g \notin todo /\ on
  <2>1. g # Nobody /\ g \notin todo
    BY <1>1 DEF IInv, Adding
  <2>2. on
    BY <1>1 DEF IInv, Adding, NotAdding
  <2>3. QED
    BY <1>2, <2>1, <2>2
<1>4. /\ adding'.friend = Nobody /\ adding'.step = "none"
      /\ adding' \in [friend : Friend \union {Nobody}, step : {"none", "load", "emplace"}]
  BY <1>1 DEF NotAdding
<1>5. TypeOK'
  BY <1>1, <1>3, <1>4 DEF IInv, TypeOK
<1>6. Stored'
  BY <1>1, StoredSame DEF IInv
<1>7. \A b : Running(b)' = Running(b) /\ Writers(b)' = Writers(b)
  BY <1>1 DEF Running, Writers
<1>8. Adding'
  <2>1. Nobody \notin todo' \union list'
    BY <1>1, <1>3, IconTransferAssumption DEF IInv, TypeOK
  <2>2. QED
    BY <1>1, <1>3, <1>4, <1>7, <2>1 DEF IInv, Adding
<1>9. ASSUME NEW f \in Friend, f \notin failed' \union excused'
      PROVE  Button(f)'
  <2>1. Button(f)
    BY <1>1, <1>9 DEF IInv, Buttons
  <2>2. (Listing(f) => Listing(f)') /\ (Still(f) => Still(f)') /\ (Drawn(f) => Drawn(f)')
    BY <1>1, <1>7 DEF Listing, Still, Drawn
  <2>3. QED
    BY <1>1, <1>4, <2>1, <2>2 DEF Button
<1>10. Finding'
  BY <1>1, <1>7, FindingSame DEF IInv
<1>11. QED
  BY <1>5, <1>6, <1>8, <1>9, <1>10 DEF IInv, Buttons

\* A search shows the icon, or fetches it: then the friend list, if it is a
\* friend's, is still fetching it too.
LEMMA FindBackStep ==
    ASSUME IInv, NEW a \in Account, FindBack(a)
    PROVE  IInv'
<1>1. /\ on /\ todo = {} /\ adding = NotAdding
      /\ \/ /\ file[a] = Absent /\ StartTransfer("find", a)
            /\ panel' = [panel EXCEPT !.account = a]
         \/ /\ panel' = [account |-> a, icon |-> a]
            /\ tr' = tr
      /\ late' = FALSE
      /\ UNCHANGED <<on, session, file, todo, adding, list, img, refresh, srvIcon,
                     failed, suspect, excused>>
  BY DEF FindBack, LoggedIn
<1>2. /\ panel' \in [account : Account \union {Nobody}, icon : Account \union {Nobody}]
      /\ panel'.account = a
  BY <1>1 DEF IInv, TypeOK
<1>3. CASE file[a] = Absent /\ StartTransfer("find", a)
  <2>1. PICK n \in Transfer :
            /\ tr[n] = Idle
            /\ tr'[n].kind = "find"
            /\ \A u \in Transfer \ {n} : tr'[u] = tr[u]
            /\ \A b : Writers(b)' = Writers(b)
            /\ Running(a)' = Running(a) \union {n}
            /\ \A b : b # a => Running(b)' = Running(b)
    BY <1>3, StartFacts DEF IInv
  <2>2. Stored' /\ tr' \in [Transfer -> Busy \union {Idle}]
    BY <1>1, <1>3, StoredStart, StartFacts DEF IInv
  <2>3. TypeOK'
    BY <1>1, <1>2, <2>2 DEF IInv, TypeOK
  <2>4. Adding'
    BY <1>1 DEF IInv, Adding
  <2>5. ASSUME NEW f \in Friend, f \notin failed' \union excused'
        PROVE  Button(f)'
    <3>1. Button(f)
      BY <1>1, <2>5 DEF IInv, Buttons
    <3>2. \A t \in Running(f) : t \in Running(f)' /\ tr'[t] = tr[t]
      BY <2>1 DEF Running
    <3>3. Still(f) => Still(f)'
      BY <1>1, <1>3, <2>1 DEF Still
    <3>4. (Listing(f) => Listing(f)') /\ (Drawn(f) => Drawn(f)')
      BY <1>1, <2>1, <3>2 DEF Listing, Drawn
    <3>5. QED
      BY <1>1, <3>1, <3>3, <3>4 DEF Button
  <2>6. Finding'
    BY <1>2, <2>1 DEF Finding
  <2>7. QED
    BY <2>2, <2>3, <2>4, <2>5, <2>6 DEF IInv, Buttons
<1>4. CASE panel' = [account |-> a, icon |-> a] /\ tr' = tr
  <2>1. Stored'
    BY <1>1, <1>4, StoredSame DEF IInv
  <2>2. TypeOK'
    BY <1>1, <1>2, <1>4 DEF IInv, TypeOK
  <2>3. \A b : Running(b)' = Running(b) /\ Writers(b)' = Writers(b)
    BY <1>4 DEF Running, Writers
  <2>4. Adding'
    BY <1>1 DEF IInv, Adding
  <2>5. Buttons'
    BY <1>1, <1>4, <2>3, ButtonSame DEF IInv, Buttons
  <2>6. Finding'
    BY <1>4 DEF Finding
  <2>7. QED
    BY <2>1, <2>2, <2>4, <2>5, <2>6 DEF IInv
<1>5. QED
  BY <1>1, <1>3, <1>4

\* A new icon is uploaded: no friend's.
LEMMA ChangeIconStep ==
    ASSUME IInv, ChangeIcon
    PROVE  IInv'
<1>1. /\ on /\ todo = {} /\ adding = NotAdding
      /\ StartTransfer("upload", Me)
      /\ UNCHANGED <<on, session, file, todo, adding, list, panel, img, refresh,
                     srvIcon, failed, suspect, excused, late>>
  BY DEF ChangeIcon, LoggedIn, guiVars, history
<1>2. Me \in Account /\ Me \notin Friend
  BY IconTransferAssumption DEF Account
<1>3. PICK n \in Transfer :
          /\ tr[n] = Idle
          /\ \A u \in Transfer \ {n} : tr'[u] = tr[u]
          /\ \A b : Writers(b)' = Writers(b)
          /\ Running(Me)' = Running(Me) \union {n}
          /\ \A b : b # Me => Running(b)' = Running(b)
  BY <1>1, <1>2, StartFacts DEF IInv
<1>4. Stored' /\ tr' \in [Transfer -> Busy \union {Idle}]
  BY <1>1, <1>2, StoredStart, StartFacts DEF IInv
<1>5. TypeOK'
  BY <1>1, <1>4 DEF IInv, TypeOK
<1>6. Adding'
  BY <1>1 DEF IInv, Adding
<1>7. \A b : \A t \in Running(b) : t \in Running(b)' /\ tr'[t] = tr[t]
  BY <1>3 DEF Running
<1>8. ASSUME NEW f \in Friend, Button(f) PROVE Button(f)'
  <2>1. f # Me
    BY <1>2
  <2>2. QED
    BY <1>1, <1>3, <1>7, <1>8, <2>1, ButtonSame
<1>9. Buttons'
  BY <1>1, <1>8 DEF IInv, Buttons
<1>10. Finding'
  BY <1>1, <1>7, FindingSame DEF IInv
<1>11. QED
  BY <1>4, <1>5, <1>6, <1>9, <1>10 DEF IInv

\* The own icon is loaded again: no friend's button.
LEMMA UpdateInfoIconStep ==
    ASSUME IInv, UpdateInfoIcon
    PROVE  IInv'
<1>1. /\ refresh' = FALSE /\ img' = [img EXCEPT ![Me] = Load(Me)]
      /\ UNCHANGED <<on, session, file, tr, todo, adding, list, panel, srvIcon,
                     failed, suspect, excused, late>>
  BY DEF UpdateInfoIcon, guiVars, history
<1>2. Me \in Account /\ Me \notin Friend
  BY IconTransferAssumption DEF Account
<1>3. /\ img' \in [Account -> {"none", "damaged", "whole"}]
      /\ \A f \in Friend : img'[f] = img[f]
  BY <1>1, <1>2, LoadFacts DEF IInv, TypeOK, Account
<1>4. TypeOK'
  BY <1>1, <1>3 DEF IInv, TypeOK
<1>5. Stored'
  BY <1>1, StoredSame DEF IInv
<1>6. \A b : Running(b)' = Running(b) /\ Writers(b)' = Writers(b)
  BY <1>1 DEF Running, Writers
<1>7. Adding'
  BY <1>1, <1>6 DEF IInv, Adding
<1>8. Buttons'
  BY <1>1, <1>3, <1>6, ButtonSame DEF IInv, Buttons
<1>9. Finding'
  BY <1>1, <1>6, FindingSame DEF IInv
<1>10. QED
  BY <1>4, <1>5, <1>7, <1>8, <1>9 DEF IInv

\* A button redrawn while nobody writes to its file shows what it showed.
LEMMA UpdateButtStep ==
    ASSUME IInv, NEW g \in Friend, UpdateButt(g)
    PROVE  IInv'
<1>1. /\ img' = [img EXCEPT ![g] = Load(g)]
      /\ excused' = IF Writers(g) # {} THEN excused \union {g} ELSE excused
      /\ UNCHANGED <<on, session, file, tr, todo, adding, list, panel, refresh,
                     srvIcon, failed, suspect, late>>
  BY DEF UpdateButt, guiVars
<1>2. g \in Account
  BY DEF Account
<1>3. /\ img' \in [Account -> {"none", "damaged", "whole"}]
      /\ img'[g] = Load(g)
      /\ \A f \in Friend : f # g => img'[f] = img[f]
  BY <1>1, <1>2, LoadFacts DEF IInv, TypeOK, Account
<1>4. excused' \in SUBSET Account /\ excused \subseteq excused'
  BY <1>1, <1>2 DEF IInv, TypeOK
<1>5. TypeOK'
  BY <1>1, <1>3, <1>4 DEF IInv, TypeOK
<1>6. Stored'
  BY <1>1, StoredSame DEF IInv
<1>7. \A b : Running(b)' = Running(b) /\ Writers(b)' = Writers(b)
  BY <1>1 DEF Running, Writers
<1>8. Adding'
  BY <1>1, <1>7 DEF IInv, Adding
<1>9. ASSUME NEW f \in Friend, f \notin failed' \union excused'
      PROVE  Button(f)'
  <2>1. Button(f)
    BY <1>1, <1>4, <1>9 DEF IInv, Buttons
  <2>2. CASE f = g
    <3>1. Writers(f) = {}
      BY <1>1, <1>9, <2>2
    <3>2. Drawn(f) => Drawn(f)'
      BY <1>1, <1>2, <1>3, <2>2, <3>1, LoadFacts DEF IInv, Drawn
    <3>3. (Listing(f) => Listing(f)') /\ (Still(f) => Still(f)')
      BY <1>1, <1>7 DEF Listing, Still
    <3>4. QED
      BY <1>1, <2>1, <3>2, <3>3 DEF Button
  <2>3. CASE f # g
    BY <1>1, <1>3, <1>7, <2>1, <2>3, ButtonSame
  <2>4. QED
    BY <2>2, <2>3
<1>10. Finding'
  BY <1>1, <1>7, FindingSame DEF IInv
<1>11. QED
  BY <1>5, <1>6, <1>8, <1>9, <1>10 DEF IInv, Buttons
-----------------------------------------------------------------------------
(***************************************************************************)
(* The threads of the transfers.                                           *)
(***************************************************************************)
\* Transfers that go on: what is not about the disk stays.
LEMMA GoesOn ==
    ASSUME IInv,
           UNCHANGED <<on, todo, adding, list, panel, late>>,
           failed' = failed,
           \A b : Running(b)' = Running(b),
           \A u \in Transfer : tr[u] # Idle => tr'[u].kind = tr[u].kind
    PROVE  Adding' /\ Finding'
<1>1. Adding'
  BY DEF IInv, Adding
<1>2. Finding'
  BY FindingSame DEF IInv, Running
<1>3. QED
  BY <1>1, <1>2

\* A download opens its file.  Behind it every part is still to be written; a
\* file others write to as another version is suspect, never a friend's.
LEMMA OpenedStep ==
    ASSUME IInv, NEW t \in Transfer, Opened(t)
    PROVE  IInv'
<1>0. PICK a, v, r : /\ a = tr[t].account
                     /\ v = SrvVersion(a)
                     /\ r = [tr[t] EXCEPT !.state = "open", !.version = v]
  OBVIOUS
<1> DEFINE clash == {u \in Writers(a) : tr[u].version # v}
<1>1. /\ tr[t].state = "ask" /\ tr[t].kind # "upload"
      /\ tr' = [tr EXCEPT ![t].state = "open", ![t].version = v]
      /\ file' = [file EXCEPT ![a] = <<>>]
      /\ suspect' = IF clash = {} THEN suspect \ {a} ELSE suspect \union {a}
      /\ UNCHANGED <<on, session, todo, adding, list, panel, img, refresh, srvIcon,
                     failed, excused, late>>
  BY <1>0 DEF Opened, guiVars
<1>2. /\ tr[t] # Idle /\ tr[t] \in Busy /\ a \in Account /\ Sound(t)
      /\ tr[t].pos = 0
  BY <1>0, <1>1, BusyFields DEF IInv, Stored, Transfers, Sound
<1>3. v \in Versions
  BY <1>0 DEF SrvVersion, IInv, TypeOK, Versions
<1>4. /\ r \in Busy /\ r.kind = tr[t].kind /\ r.account = a /\ r.pos = 0
      /\ r.state = "open" /\ r.version = v
  BY <1>0, <1>2, <1>3 DEF Busy
<1>5. /\ tr' \in [Transfer -> Busy \union {Idle}]
      /\ tr'[t] = r
      /\ \A u \in Transfer \ {t} : tr'[u] = tr[u]
  BY <1>0, <1>1, <1>4 DEF IInv, TypeOK
<1>6. a \in Friend => v = 0 /\ clash = {}
  <2>1. a \in Friend => v = 0
    BY <1>0, IconTransferAssumption DEF SrvVersion
  <2>2. a \in Friend => \A u \in Writers(a) : tr[u].version = 0
    BY WritersRun DEF IInv, Stored, Transfers, Sound, Running, Account
  <2>3. QED
    BY <2>1, <2>2
<1>7. t \in Running(a)
  BY <1>0, <1>2 DEF Running
<1>8. /\ tr' \in [Transfer -> Busy \union {Idle}]
      /\ tr'[t] = r /\ r # Idle
      /\ \A u \in Transfer \ {t} : tr'[u] = tr[u]
      /\ \A u \in Transfer : tr[u] # Idle => tr'[u].kind = tr[u].kind
      /\ \A b : Running(b)' = Running(b)
      /\ \A b : b # a => Writers(b)' = Writers(b)
      /\ Writers(a)' = Writers(a) \union {t}
  <2>1. /\ TypeOK /\ tr[t] # Idle /\ r \in Busy /\ r.kind = tr[t].kind
        /\ r.account = tr[t].account
    BY <1>0, <1>2, <1>4 DEF IInv
  <2>2. r # Idle
    BY <1>5, <2>1, MoveFacts
  <2>3. \A b : Running(b)' = Running(b)
    BY <1>5, <2>1, MoveFacts
  <2>4. /\ \A b : b # a => Writers(b)' = Writers(b)
        /\ Writers(a)' = Writers(a) \union {t}
    <3>1. \A b : b # r.account => Writers(b)' = Writers(b)
      BY <1>5, <2>1, MoveFacts
    <3>2. Writers(r.account)' = Writers(r.account) \union {t}
      BY <1>1, <1>4, <1>5, <2>1, MoveFacts
    <3>3. QED
      BY <1>4, <3>1, <3>2
  <2>5. \A u \in Transfer : tr[u] # Idle => tr'[u].kind = tr[u].kind
    BY <1>5, <2>1, MoveFacts
  <2>6. QED
    BY <1>5, <2>1, <2>2, <2>3, <2>4, <2>5
<1>9. /\ file' \in [Account -> Content \union {Absent}]
      /\ file'[a] = <<>> /\ file'[a] # Absent
      /\ \A b \in Account : b # a => file'[b] = file[b]
  BY <1>1, <1>2, NewFiles DEF IInv, TypeOK
<1>10. suspect' \in SUBSET Account /\ \A b : b # a => (b \in suspect' <=> b \in suspect)
  BY <1>1, <1>2 DEF IInv, TypeOK
<1>11. TypeOK'
  BY <1>1, <1>8, <1>9, <1>10 DEF IInv, TypeOK
<1>12. ASSUME NEW u \in Transfer, tr'[u] # Idle PROVE Sound(u)'
  <2>1. CASE u = t
    BY <1>1, <1>2, <1>4, <1>6, <1>8, <1>9, <2>1 DEF Sound
  <2>2. CASE u # t
    <3>1. tr'[u] = tr[u] /\ Sound(u) /\ tr[u].account \in Account
      BY <1>8, <1>12, <2>2, BusyFields DEF IInv, Stored, Transfers
    <3>2. file[tr[u].account] # Absent => file'[tr[u].account] # Absent
      BY <1>9, <3>1
    <3>3. QED
      BY <1>1, <3>1, <3>2 DEF Sound
  <2>3. QED
    BY <2>1, <2>2
<1>13. ASSUME NEW b \in Account, file'[b] # Absent, b \notin suspect'
       PROVE  \E w \in Versions : Mends(b, w)'
  <2>1. CASE b = a
    <3>1. clash = {}
      BY <1>1, <1>13, <2>1
    <3>2. \A u \in Writers(a)' : tr'[u].version = v
      BY <1>4, <1>8, <3>1 DEF Writers
    <3>3. \A j \in 1..Parts : tr'[t].pos < j
      BY <1>4, <1>8, IconTransferAssumption
    <3>4. Mends(b, v)'
      BY <1>8, <2>1, <3>2, <3>3 DEF Mends
    <3>5. QED
      BY <1>3, <3>4
  <2>2. CASE b # a
    <3>1. PICK w \in Versions : Mends(b, w)
      BY <1>9, <1>10, <1>13, <2>2 DEF IInv, Stored, Mending
    <3>2. t \notin Writers(b)
      BY <1>0, <2>2 DEF Writers
    <3>3. Mends(b, w)'
      BY <1>8, <1>9, <2>2, <3>1, <3>2, MendsSame DEF Writers
    <3>4. QED
      BY <3>3
  <2>3. QED
    BY <2>1, <2>2
<1>14. ASSUME NEW f \in Friend, Writers(f)' # {}, f \notin failed'
       PROVE  f \notin suspect'
  <2>1. CASE f = a
    BY <1>1, <1>6, <2>1
  <2>2. CASE f # a
    BY <1>1, <1>8, <1>10, <1>14, <2>2 DEF IInv, Stored, Orderly
  <2>3. QED
    BY <2>1, <2>2
<1>15. Stored'
  BY <1>12, <1>13, <1>14 DEF Stored, Transfers, Mending, Orderly
<1>16. ASSUME NEW f \in Friend, Button(f) PROVE Button(f)'
  <2>1. \A u \in Running(f) : tr'[u].kind = tr[u].kind
    BY <1>8 DEF Running
  <2>2. CASE f = a
    <3>1. ~Still(f) /\ (Listing(f) => Listing(f)')
      BY <1>7, <1>8, <2>1, <2>2 DEF Still, Listing
    <3>2. Drawn(f) => Drawn(f)'
      BY <1>1, <1>8, <2>2 DEF Drawn
    <3>3. QED
      BY <1>1, <1>16, <3>1, <3>2 DEF Button
  <2>3. CASE f # a
    BY <1>1, <1>8, <1>9, <1>16, <2>1, <2>3, ButtonSame DEF Account
  <2>4. QED
    BY <2>2, <2>3
<1>17. Buttons'
  BY <1>1, <1>16 DEF IInv, Buttons
<1>18. Adding' /\ Finding'
  BY <1>1, <1>8, GoesOn
<1>19. QED
  BY <1>11, <1>15, <1>17, <1>18 DEF IInv

\* The server has the account's own icon; nothing changes on the disk.
LEMMA UploadedStep ==
    ASSUME IInv, NEW t \in Transfer, Uploaded(t)
    PROVE  IInv'
<1>0. PICK r : r = [tr[t] EXCEPT !.state = "open", !.pos = Parts]
  OBVIOUS
<1>1. /\ tr[t].state = "ask" /\ tr[t].kind = "upload"
      /\ tr' = [tr EXCEPT ![t].state = "open", ![t].pos = Parts]
      /\ srvIcon' = 1
      /\ UNCHANGED <<on, session, file, todo, adding, list, panel, img, refresh,
                     failed, suspect, excused, late>>
  BY DEF Uploaded, guiVars, history
<1>2. tr[t] # Idle /\ tr[t] \in Busy /\ Sound(t)
  BY <1>1, BusyFields DEF IInv, Stored, Transfers
<1>3. /\ r \in Busy /\ r.kind = "upload" /\ r.account = tr[t].account
      /\ r.pos = Parts /\ r.state = "open" /\ r.version = tr[t].version
  <2>1. Parts \in 0..Parts
    BY IconTransferAssumption
  <2>2. QED
    BY <1>0, <1>1, <1>2, <2>1 DEF Busy
<1>4. /\ tr' \in [Transfer -> Busy \union {Idle}]
      /\ tr'[t] = r
      /\ \A u \in Transfer \ {t} : tr'[u] = tr[u]
  BY <1>0, <1>1, <1>3 DEF IInv, TypeOK
<1>5. /\ tr' \in [Transfer -> Busy \union {Idle}]
      /\ tr'[t] = r
      /\ \A u \in Transfer \ {t} : tr'[u] = tr[u]
      /\ \A u \in Transfer : tr[u] # Idle => tr'[u].kind = tr[u].kind
      /\ \A b : Running(b)' = Running(b)
      /\ \A b : Writers(b)' = Writers(b)
  <2>1. /\ TypeOK /\ tr[t] # Idle /\ r \in Busy /\ r.kind = tr[t].kind
        /\ r.account = tr[t].account
    BY <1>1, <1>2, <1>3, <1>4 DEF IInv
  <2>2. r # Idle
    BY <1>4, <2>1, MoveFacts
  <2>3. \A b : Running(b)' = Running(b)
    BY <1>4, <2>1, MoveFacts
  <2>4. \A b : Writers(b)' = Writers(b)
    BY <1>3, <1>4, <2>1, MoveFacts
  <2>5. \A u \in Transfer : tr[u] # Idle => tr'[u].kind = tr[u].kind
    BY <1>4, <2>1, MoveFacts
  <2>6. QED
    BY <1>4, <2>1, <2>2, <2>3, <2>4, <2>5
<1>6. TypeOK'
  BY <1>1, <1>5 DEF IInv, TypeOK, Versions
<1>7. ASSUME NEW u \in Transfer, tr'[u] # Idle PROVE Sound(u)'
  <2>1. CASE u = t
    BY <1>1, <1>2, <1>3, <1>5, <2>1 DEF Sound
  <2>2. CASE u # t
    BY <1>1, <1>5, <1>7, <2>2 DEF IInv, Stored, Transfers, Sound
  <2>3. QED
    BY <2>1, <2>2
<1>8. ASSUME NEW b \in Account, NEW w, Mends(b, w) PROVE Mends(b, w)'
  <2>1. t \notin Writers(b)
    BY <1>1 DEF Writers
  <2>2. QED
    BY <1>1, <1>5, <1>8, <2>1, MendsSame DEF Writers
<1>9. Stored'
  BY <1>1, <1>5, <1>7, <1>8 DEF IInv, Stored, Transfers, Mending, Orderly
<1>10. ASSUME NEW f \in Friend, Button(f) PROVE Button(f)'
  BY <1>1, <1>5, <1>10, ButtonSame DEF Running
<1>11. Buttons'
  BY <1>1, <1>10 DEF IInv, Buttons
<1>12. Adding' /\ Finding'
  BY <1>1, <1>5, GoesOn
<1>13. QED
  BY <1>6, <1>9, <1>11, <1>12 DEF IInv

\* A part is written: it is right, and no part that was right is spoilt.
LEMMA PartStep ==
    ASSUME IInv, NEW t \in Transfer, Part(t)
    PROVE  IInv'
<1>0. PICK a, p, v, r : /\ a = tr[t].account /\ p = tr[t].pos /\ v = tr[t].version
                        /\ r = [tr[t] EXCEPT !.pos = p + 1]
  OBVIOUS
<1>1. /\ tr[t].state = "open" /\ p < Parts
      /\ tr' = [tr EXCEPT ![t].pos = @ + 1]
      /\ file' = [file EXCEPT ![a] = WriteAt(@, p + 1, v)]
      /\ UNCHANGED <<on, session, todo, adding, list, panel, img, refresh, srvIcon,
                     failed, suspect, excused, late>>
  BY <1>0 DEF Part, guiVars, history
<1>2. /\ tr[t] # Idle /\ tr[t] \in Busy /\ a \in Account /\ Sound(t)
      /\ p \in 0..Parts /\ v \in Versions
  BY <1>0, <1>1, BusyFields DEF IInv, Stored, Transfers
<1>3. p + 1 \in 1..Parts /\ p \in Nat
  BY <1>1, <1>2, IconTransferAssumption
<1>4. tr[t].kind # "upload" /\ file[a] # Absent
  <2>1. tr[t].kind # "upload"
    BY <1>0, <1>1, <1>2, IconTransferAssumption DEF Sound
  <2>2. QED
    BY <1>0, <1>1, <1>2, <2>1 DEF Sound
<1>5. t \in Writers(a) /\ t \in Running(a)
  BY <1>0, <1>1, <1>2, <1>4 DEF Writers, Running
<1>6. /\ r \in Busy /\ r.kind = tr[t].kind /\ r.account = a /\ r.pos = p + 1
      /\ r.state = tr[t].state /\ r.version = v
  <2>1. p + 1 \in 0..Parts
    BY <1>3, IconTransferAssumption
  <2>2. QED
    BY <1>0, <1>2, <2>1 DEF Busy
<1>7. /\ tr' \in [Transfer -> Busy \union {Idle}]
      /\ tr'[t] = r
      /\ \A u \in Transfer \ {t} : tr'[u] = tr[u]
  BY <1>0, <1>1, <1>6 DEF IInv, TypeOK
<1>8. /\ tr' \in [Transfer -> Busy \union {Idle}]
      /\ tr'[t] = r
      /\ \A u \in Transfer \ {t} : tr'[u] = tr[u]
      /\ \A u \in Transfer : tr[u] # Idle => tr'[u].kind = tr[u].kind
      /\ \A b : Running(b)' = Running(b)
      /\ \A b : Writers(b)' = Writers(b)
  <2>1. /\ TypeOK /\ tr[t] # Idle /\ r \in Busy /\ r.kind = tr[t].kind
        /\ r.account = tr[t].account
    BY <1>0, <1>2, <1>6 DEF IInv
  <2>2. r # Idle
    BY <1>7, <2>1, MoveFacts
  <2>3. \A b : Running(b)' = Running(b)
    BY <1>7, <2>1, MoveFacts
  <2>4. \A b : Writers(b)' = Writers(b)
    BY <1>6, <1>7, <2>1, MoveFacts
  <2>5. \A u \in Transfer : tr[u] # Idle => tr'[u].kind = tr[u].kind
    BY <1>7, <2>1, MoveFacts
  <2>6. QED
    BY <1>7, <2>1, <2>2, <2>3, <2>4, <2>5
<1>9. file[a] \in Content
  BY <1>2, <1>4 DEF IInv, TypeOK
<1>10. /\ file'[a] = WriteAt(file[a], p + 1, v)
       /\ \A b \in Account : b # a => file'[b] = file[b]
       /\ file'[a] \in Content
       /\ file' \in [Account -> Content \union {Absent}]
  BY <1>1, <1>2, <1>3, <1>9, WriteAtFacts DEF IInv, TypeOK
<1>11. file'[a] # Absent
  BY <1>10, ContentShape
<1>12. TypeOK'
  BY <1>1, <1>8, <1>10 DEF IInv, TypeOK
<1>13. ASSUME NEW u \in Transfer, tr'[u] # Idle PROVE Sound(u)'
  <2>1. CASE u = t
    BY <1>1, <1>2, <1>4, <1>6, <1>8, <1>11, <2>1, <1>0 DEF Sound
  <2>2. CASE u # t
    <3>1. tr'[u] = tr[u] /\ Sound(u) /\ tr[u].account \in Account
      BY <1>8, <1>13, <2>2, BusyFields DEF IInv, Stored, Transfers
    <3>2. file[tr[u].account] # Absent => file'[tr[u].account] # Absent
      BY <1>10, <1>11, <3>1
    <3>3. QED
      BY <1>1, <3>1, <3>2 DEF Sound
  <2>3. QED
    BY <2>1, <2>2
<1>14. ASSUME NEW b \in Account, NEW w \in Versions, Mends(b, w)
       PROVE  Mends(b, w)'
  <2>1. CASE b = a
    <3>1. w = v
      BY <1>0, <1>5, <1>14, <2>1 DEF Mends
    <3>2. \A u \in Writers(a) : tr'[u].version = w
      BY <1>6, <1>8, <1>14, <2>1, <3>1 DEF Mends, Writers
    <3>3. ASSUME NEW j \in 1..Parts
          PROVE  Written(file'[a], j, w) \/ \E u \in Writers(a) : tr'[u].pos < j
      <4>1. CASE j = p + 1
        BY <1>2, <1>9, <1>10, <3>1, <4>1, WriteAtFacts
      <4>2. CASE Written(file[a], j, w)
        BY <1>2, <1>3, <1>9, <1>10, <3>1, <4>2, WriteAtFacts
      <4>3. ASSUME NEW u \in Writers(a), tr[u].pos < j, j # p + 1
            PROVE  tr'[u].pos < j
        <5>1. CASE u = t
          <6>1. tr'[u].pos = p + 1 /\ p < j /\ j # p + 1
            BY <1>0, <1>6, <1>8, <4>3, <5>1
          <6>2. j \in Nat
            BY IconTransferAssumption
          <6>3. QED
            BY <1>3, <6>1, <6>2
        <5>2. CASE u # t
          BY <1>8, <4>3, <5>2 DEF Writers
        <5>3. QED
          BY <5>1, <5>2
      <4>4. QED
        BY <1>14, <2>1, <4>1, <4>2, <4>3 DEF Mends
    <3>4. QED
      BY <1>8, <2>1, <3>2, <3>3 DEF Mends
  <2>2. CASE b # a
    <3>1. t \notin Writers(b)
      BY <1>0, <2>2 DEF Writers
    <3>2. QED
      BY <1>8, <1>10, <1>14, <2>2, <3>1, MendsSame DEF Writers
  <2>3. QED
    BY <2>1, <2>2
<1>15. Mending'
  <2>1. \A b \in Account : file'[b] # Absent => file[b] # Absent
    BY <1>4, <1>10
  <2>2. QED
    BY <1>1, <1>14, <2>1 DEF IInv, Stored, Mending
<1>16. Stored'
  BY <1>1, <1>8, <1>13, <1>15 DEF IInv, Stored, Transfers, Orderly
<1>17. ASSUME NEW f \in Friend, Button(f) PROVE Button(f)'
  <2>1. \A u \in Running(f) : tr'[u].kind = tr[u].kind
    BY <1>8 DEF Running
  <2>2. CASE f = a
    <3>1. ~Still(f) /\ (Listing(f) => Listing(f)')
      BY <1>5, <1>8, <2>1, <2>2 DEF Still, Listing
    <3>2. Drawn(f) => Drawn(f)'
      BY <1>1, <1>5, <1>8, <2>2 DEF Drawn
    <3>3. QED
      BY <1>1, <1>17, <3>1, <3>2 DEF Button
  <2>3. CASE f # a
    BY <1>1, <1>8, <1>10, <1>17, <2>1, <2>3, ButtonSame DEF Account
  <2>4. QED
    BY <2>2, <2>3
<1>18. Buttons'
  BY <1>1, <1>17 DEF IInv, Buttons
<1>19. Adding' /\ Finding'
  BY <1>1, <1>8, GoesOn
<1>20. QED
  BY <1>12, <1>16, <1>18, <1>19 DEF IInv

\* A transfer ends: its file, if it wrote one, is suspect or complete.
LEMMA EndStored ==
    ASSUME IInv, NEW t \in Transfer, tr[t] # Idle, tr' = [tr EXCEPT ![t] = Idle],
           UNCHANGED <<on, file>>, suspect \subseteq suspect', failed \subseteq failed',
           suspect' \subseteq suspect \union {tr[t].account},
           \/ suspect' = suspect
           \/ tr[t].account \in failed',
           \/ tr[t].account \in suspect'
           \/ t \notin Writers(tr[t].account)
           \/ tr[t].pos = Parts
    PROVE  Stored'
<1>1. /\ tr'[t] = Idle
      /\ \A u \in Transfer \ {t} : tr'[u] = tr[u]
      /\ \A b : Writers(b)' = Writers(b) \ {t}
  BY EndFacts DEF IInv
<1>2. ASSUME NEW u \in Transfer, tr'[u] # Idle PROVE Sound(u)'
  BY <1>1, <1>2 DEF IInv, Stored, Transfers, Sound
<1>3. ASSUME NEW b \in Account, file'[b] # Absent, b \notin suspect'
      PROVE  \E w \in Versions : Mends(b, w)'
  <2>1. PICK w \in Versions : Mends(b, w)
    BY <1>3 DEF IInv, Stored, Mending
  <2>2. t \in Writers(b) => tr[t].pos = Parts
    BY <1>3 DEF Writers
  <2>3. \A u \in Writers(b)' : u \in Writers(b) /\ tr'[u] = tr[u]
    BY <1>1 DEF Writers
  <2>4. ASSUME NEW j \in 1..Parts, NEW u \in Writers(b), tr[u].pos < j
        PROVE  u \in Writers(b)' /\ tr'[u].pos < j
    <3>1. u # t
      <4>1. ~(Parts < j)
        BY IconTransferAssumption
      <4>2. QED
        BY <2>2, <2>4, <4>1
    <3>2. QED
      BY <1>1, <2>4, <3>1 DEF Writers
  <2>5. Mends(b, w)'
    BY <2>1, <2>3, <2>4 DEF Mends
  <2>6. QED
    BY <2>5
<1>4. ASSUME NEW f \in Friend, Writers(f)' # {}, f \notin failed'
      PROVE  f \notin suspect'
  BY <1>1, <1>4 DEF IInv, Stored, Orderly
<1>5. QED
  BY <1>2, <1>3, <1>4 DEF Stored, Transfers, Mending, Orderly

\* Friends that are to be added still have no transfer when one ends.
LEMMA EndAdding ==
    ASSUME IInv, NEW t \in Transfer, tr' = [tr EXCEPT ![t] = Idle],
           UNCHANGED <<on, todo, adding, list>>
    PROVE  Adding'
BY EndFacts DEF IInv, Adding

\* A button whose account is not that of the transfer that ends.
LEMMA EndButton ==
    ASSUME IInv, NEW t \in Transfer, tr' = [tr EXCEPT ![t] = Idle],
           UNCHANGED <<adding, list>>, NEW f \in Friend, f # tr[t].account,
           img'[f] = img[f], file'[f] = file[f], Button(f)
    PROVE  Button(f)'
<1>1. t \notin Running(f) /\ t \notin Writers(f)
  BY DEF Running, Writers
<1>2. /\ Running(f)' = Running(f) /\ Writers(f)' = Writers(f)
      /\ \A u \in Running(f) : tr'[u] = tr[u]
  <2>1. /\ Running(f)' = Running(f) \ {t} /\ Writers(f)' = Writers(f) \ {t}
        /\ \A u \in Transfer \ {t} : tr'[u] = tr[u]
    BY EndFacts DEF IInv
  <2>2. Running(f) \subseteq Transfer
    BY DEF Running
  <2>3. QED
    BY <1>1, <2>1, <2>2
<1>3. QED
  BY <1>2, ButtonSame

\* A transfer breaks off: its account has failed.
LEMMA BreakOffStep ==
    ASSUME IInv, NEW t \in Transfer, BreakOff(t)
    PROVE  IInv'
<1>0. PICK a : a = tr[t].account
  OBVIOUS
<1>1. /\ tr[t] # Idle /\ tr' = [tr EXCEPT ![t] = Idle]
      /\ failed' = failed \union {a}
      /\ suspect' = IF t \in Writers(a) THEN suspect \union {a} ELSE suspect
      /\ UNCHANGED <<on, session, file, todo, adding, list, panel, img, refresh,
                     srvIcon, excused, late>>
  BY <1>0 DEF BreakOff, guiVars
<1>2. a \in Account
  BY <1>0, <1>1, BusyFields DEF IInv
<1>3. /\ tr' \in [Transfer -> Busy \union {Idle}]
      /\ \A u \in Transfer \ {t} : tr'[u] = tr[u]
      /\ \A b : Running(b)' = Running(b) \ {t}
  BY <1>1, EndFacts DEF IInv
<1>4. TypeOK'
  BY <1>1, <1>2, <1>3 DEF IInv, TypeOK
<1>5. Stored'
  BY <1>0, <1>1, EndStored
<1>6. Adding'
  BY <1>1, EndAdding
<1>7. ASSUME NEW f \in Friend, f \notin failed' \union excused'
      PROVE  Button(f)'
  <2>1. f # a /\ Button(f)
    BY <1>1, <1>7 DEF IInv, Buttons
  <2>2. QED
    BY <1>0, <1>1, <2>1, EndButton
<1>8. Finding'
  <2>1. \A b : t \in Running(b) => b = a
    BY <1>0 DEF Running
  <2>2. \A b : \A u \in Running(b) : u # t => u \in Running(b)' /\ tr'[u] = tr[u]
    BY <1>3 DEF Running
  <2>3. QED
    BY <1>1, <2>1, <2>2, FindingSame DEF IInv
<1>9. QED
  BY <1>4, <1>5, <1>6, <1>7, <1>8 DEF IInv, Buttons

\* A download that ends while it alone writes a friend's file leaves it whole.
LEMMA DoneIsWhole ==
    ASSUME IInv, NEW t \in Transfer, tr[t].state = "open", tr[t].pos = Parts,
           tr[t].kind # "upload", NEW f \in Friend, f = tr[t].account,
           Writers(f) = {t}, f \notin failed
    PROVE  Whole(file[f])
<1>1. f \in Account
  BY DEF Account
<1>2. file[f] # Absent
  BY <1>1, WritersRun DEF IInv, Stored
<1>3. f \notin suspect
  BY DEF IInv, Stored, Orderly
<1>4. PICK v \in Versions : Mends(f, v)
  BY <1>1, <1>2, <1>3 DEF IInv, Stored, Mending
<1>5. ASSUME NEW j \in 1..Parts PROVE Written(file[f], j, v)
  <2>1. ~(tr[t].pos < j)
    <3>1. ~(Parts < j)
      BY IconTransferAssumption
    <3>2. QED
      BY <3>1
  <2>2. QED
    BY <1>4, <2>1 DEF Mends
<1>6. file[f] \in Content
  BY <1>1, <1>2 DEF IInv, TypeOK
<1>7. QED
  BY <1>5, <1>6, WholeFacts DEF Whole

\* The list's callback draws the button, or the friend is excused.
LEMMA CallbackListStep ==
    ASSUME IInv, NEW t \in Transfer, CallbackList(t)
    PROVE  IInv'
<1>0. PICK a : a = tr[t].account
  OBVIOUS
<1>1. /\ tr[t].state = "open" /\ tr[t].pos = Parts /\ tr[t].kind = "list"
      /\ tr' = [tr EXCEPT ![t] = Idle]
      /\ \/ /\ a = Me \/ a \in list
            /\ img' = [img EXCEPT ![a] = Load(a)]
            /\ excused' = IF Writers(a) # {t} THEN excused \union {a} ELSE excused
         \/ img' = img /\ excused' = excused \union {a}
      /\ UNCHANGED <<on, session, file, todo, adding, list, panel, refresh, srvIcon,
                     failed, suspect, late>>
  BY <1>0 DEF CallbackList, Done, guiVars
<1>2. tr[t] # Idle /\ a \in Account
  BY <1>0, <1>1, BusyFields DEF IInv
<1>3. /\ tr' \in [Transfer -> Busy \union {Idle}]
      /\ \A u \in Transfer \ {t} : tr'[u] = tr[u]
      /\ \A b : Running(b)' = Running(b) \ {t}
      /\ \A b : Writers(b)' = Writers(b) \ {t}
  BY <1>1, EndFacts DEF IInv
<1>4. /\ img' \in [Account -> {"none", "damaged", "whole"}]
      /\ \A f \in Account : f # a => img'[f] = img[f]
      /\ excused' \in SUBSET Account /\ excused \subseteq excused'
      /\ a \notin excused' => /\ img'[a] = Load(a) /\ Writers(a) = {t}
                              /\ a = Me \/ a \in list
  BY <1>1, <1>2, LoadFacts DEF IInv, TypeOK
<1>5. TypeOK'
  BY <1>1, <1>3, <1>4 DEF IInv, TypeOK
<1>6. Stored'
  BY <1>1, <1>2, EndStored
<1>7. Adding'
  BY <1>1, EndAdding
<1>8. ASSUME NEW f \in Friend, f \notin failed' \union excused'
      PROVE  Button(f)'
  <2>1. Button(f) /\ f \in Account /\ f \notin failed
    BY <1>1, <1>4, <1>8 DEF IInv, Buttons, Account
  <2>2. CASE f = a
    <3>1. Writers(f) = {t} /\ img'[f] = Load(f)
      BY <1>4, <1>8, <2>2
    <3>2. Whole(file[f])
      BY <1>0, <1>1, <2>1, <2>2, <3>1, DoneIsWhole
    <3>3. img'[f] = "whole"
      BY <2>1, <3>1, <3>2, LoadFacts DEF IInv
    <3>4. Drawn(f)'
      BY <1>1, <3>2, <3>3 DEF Drawn
    <3>5. adding.friend # f
      BY <1>4, <1>8, <2>2, IconTransferAssumption DEF IInv, Adding
    <3>6. QED
      BY <1>1, <3>4, <3>5 DEF Button
  <2>3. CASE f # a
    BY <1>0, <1>1, <1>4, <2>1, <2>3, EndButton
  <2>4. QED
    BY <2>2, <2>3
<1>9. Finding'
  <2>1. \A b : \A u \in Running(b) :
            tr[u].kind = "find" => u \in Running(b)' /\ tr'[u] = tr[u]
    BY <1>1, <1>3 DEF Running
  <2>2. QED
    BY <1>1, <2>1, FindingSame DEF IInv
<1>10. QED
  BY <1>5, <1>6, <1>7, <1>8, <1>9 DEF IInv, Buttons

\* The panel's callback ends a download the button does not wait for.
LEMMA CallbackFindStep ==
    ASSUME IInv, NEW t \in Transfer, CallbackFind(t)
    PROVE  IInv'
<1>0. PICK a : a = tr[t].account
  OBVIOUS
<1>1. /\ tr[t].state = "open" /\ tr[t].pos = Parts /\ tr[t].kind = "find"
      /\ tr' = [tr EXCEPT ![t] = Idle]
      /\ panel' = [panel EXCEPT !.icon = a]
      /\ late' = (a # panel.account)
      /\ UNCHANGED <<on, session, file, todo, adding, list, img, refresh, srvIcon,
                     failed, suspect, excused>>
  BY <1>0 DEF CallbackFind, Done
<1>2. tr[t] # Idle /\ a \in Account
  BY <1>0, <1>1, BusyFields DEF IInv
<1>3. /\ tr' \in [Transfer -> Busy \union {Idle}]
      /\ \A u \in Transfer \ {t} : tr'[u] = tr[u]
      /\ \A b : Running(b)' = Running(b) \ {t}
      /\ \A b : Writers(b)' = Writers(b) \ {t}
  BY <1>1, EndFacts DEF IInv
<1>4. /\ panel' \in [account : Account \union {Nobody}, icon : Account \union {Nobody}]
      /\ panel'.account = panel.account /\ panel'.icon = a
  BY <1>1, <1>2 DEF IInv, TypeOK
<1>5. late' \in BOOLEAN
  BY <1>1
<1>6. TypeOK'
  BY <1>1, <1>3, <1>4, <1>5 DEF IInv, TypeOK
<1>7. Stored'
  BY <1>1, <1>2, EndStored
<1>8. Adding'
  BY <1>1, EndAdding
<1>9. ASSUME NEW f \in Friend, f \notin failed' \union excused'
      PROVE  Button(f)'
  <2>1. Button(f) /\ f \notin failed
    BY <1>1, <1>9 DEF IInv, Buttons
  <2>2. CASE f = a
    <3>1. t \in Running(f) /\ t \in Writers(f)
      BY <1>0, <1>1, <1>2, <2>2 DEF Running, Writers
    <3>2. Writers(f)' = {} => Whole(file[f])
      BY <1>0, <1>1, <1>3, <2>1, <2>2, <3>1, DoneIsWhole
    <3>3. Drawn(f) => Drawn(f)'
      BY <1>1, <3>2 DEF Drawn
    <3>4. ~Still(f)
      BY <3>1 DEF Still
    <3>5. Listing(f) => Listing(f)'
      BY <1>1, <1>3 DEF Listing, Running
    <3>6. QED
      BY <1>1, <2>1, <3>3, <3>4, <3>5 DEF Button
  <2>3. CASE f # a
    BY <1>0, <1>1, <2>1, <2>3, EndButton
  <2>4. QED
    BY <2>2, <2>3
<1>10. Finding'
  BY <1>1, <1>4 DEF Finding
<1>11. QED
  BY <1>6, <1>7, <1>8, <1>9, <1>10 DEF IInv, Buttons

\* The picture uploaded takes the place of the own icon; it is suspect if a
\* download still writes to it.
LEMMA CallbackUploadStep ==
    ASSUME IInv, NEW t \in Transfer, CallbackUpload(t)
    PROVE  IInv'
<1> DEFINE new == [i \in 1..Parts |-> 1]
<1>1. /\ tr[t].state = "open" /\ tr[t].kind = "upload"
      /\ tr' = [tr EXCEPT ![t] = Idle]
      /\ file' = [file EXCEPT ![Me] = new]
      /\ suspect' = IF Writers(Me) # {} THEN suspect \union {Me} ELSE suspect \ {Me}
      /\ refresh' = TRUE
      /\ UNCHANGED <<on, session, todo, adding, list, panel, img, srvIcon, failed,
                     excused, late>>
  BY DEF CallbackUpload, Done, guiVars
<1>2. /\ tr[t] # Idle /\ tr[t].account = Me /\ Me \in Account /\ Me \notin Friend
  BY <1>1, BusyFields, IconTransferAssumption DEF IInv, Stored, Transfers, Sound, Account
<1>3. new \in Content /\ new # Absent /\ WholeAs(new, 1)
  BY NewFiles
<1> HIDE DEF new
<1>4. /\ tr' \in [Transfer -> Busy \union {Idle}]
      /\ tr'[t] = Idle
      /\ \A u \in Transfer \ {t} : tr'[u] = tr[u]
      /\ \A b : Running(b)' = Running(b) \ {t}
      /\ \A b : Writers(b)' = Writers(b)
  <2>1. \A b : t \notin Writers(b)
    BY <1>1 DEF Writers
  <2>2. \A b : Writers(b)' = Writers(b) \ {t}
    BY <1>1, EndFacts DEF IInv
  <2>3. \A b : Writers(b)' = Writers(b)
    BY <2>1, <2>2
  <2>4. QED
    BY <1>1, <2>3, EndFacts DEF IInv
<1>5. /\ file' \in [Account -> Content \union {Absent}]
      /\ file'[Me] = new
      /\ \A b \in Account : b # Me => file'[b] = file[b]
  BY <1>1, <1>2, <1>3 DEF IInv, TypeOK
<1>6. suspect' \in SUBSET Account /\ \A b : b # Me => (b \in suspect' <=> b \in suspect)
  BY <1>1, <1>2 DEF IInv, TypeOK
<1>7. TypeOK'
  BY <1>1, <1>4, <1>5, <1>6 DEF IInv, TypeOK
<1>8. ASSUME NEW u \in Transfer, tr'[u] # Idle PROVE Sound(u)'
  <2>1. u # t /\ tr'[u] = tr[u] /\ Sound(u) /\ tr[u].account \in Account
    BY <1>4, <1>8, BusyFields DEF IInv, Stored, Transfers
  <2>2. file[tr[u].account] # Absent => file'[tr[u].account] # Absent
    BY <1>3, <1>5, <2>1
  <2>3. QED
    BY <1>1, <2>1, <2>2 DEF Sound
<1>9. ASSUME NEW b \in Account, file'[b] # Absent, b \notin suspect'
      PROVE  \E w \in Versions : Mends(b, w)'
  <2>1. CASE b = Me
    <3>1. Writers(b) = {}
      BY <1>1, <1>9, <2>1
    <3>2. 1 \in Versions
      BY DEF Versions
    <3>3. \A j \in 1..Parts : Written(file'[b], j, 1)
      BY <1>3, <1>5, <2>1, <3>2, WholeFacts
    <3>4. Mends(b, 1)'
      BY <1>4, <3>1, <3>3 DEF Mends
    <3>5. QED
      BY <3>2, <3>4
  <2>2. CASE b # Me
    <3>1. PICK w \in Versions : Mends(b, w)
      BY <1>5, <1>6, <1>9, <2>2 DEF IInv, Stored, Mending
    <3>2. \A u \in Writers(b) : tr'[u] = tr[u]
      BY <1>1, <1>4 DEF Writers
    <3>3. Mends(b, w)'
      BY <1>4, <1>5, <2>2, <3>1, <3>2, MendsSame
    <3>4. QED
      BY <3>3
  <2>3. QED
    BY <2>1, <2>2
<1>10. ASSUME NEW f \in Friend, Writers(f)' # {}, f \notin failed'
       PROVE  f \notin suspect'
  BY <1>1, <1>2, <1>4, <1>6, <1>10 DEF IInv, Stored, Orderly
<1>11. Stored'
  BY <1>8, <1>9, <1>10 DEF Stored, Transfers, Mending, Orderly
<1>12. Adding'
  BY <1>1, EndAdding
<1>13. ASSUME NEW f \in Friend, f \notin failed' \union excused'
       PROVE  Button(f)'
  <2>1. Button(f) /\ f # Me /\ f \in Account
    BY <1>1, <1>2, <1>13 DEF IInv, Buttons, Account
  <2>2. QED
    BY <1>1, <1>2, <1>5, <2>1, EndButton
<1>14. Finding'
  <2>1. \A b : \A u \in Running(b) :
            tr[u].kind = "find" => u \in Running(b)' /\ tr'[u] = tr[u]
    BY <1>1, <1>4 DEF Running
  <2>2. QED
    BY <1>1, <2>1, FindingSame DEF IInv
<1>15. QED
  BY <1>7, <1>11, <1>12, <1>13, <1>14 DEF IInv, Buttons
-----------------------------------------------------------------------------
(***************************************************************************)
(* The theorems.                                                           *)
(***************************************************************************)
\* IInv is an inductive invariant of the panels, the transfers and the disk.
THEOREM Invariance == Spec => []IInv
<1>1. Init => IInv
  BY InitIInv
<1>2. ASSUME IInv, [Next]_vars
      PROVE  IInv'
  <2>1. CASE Login \/ Exit \/ Gui
    BY <1>2, <2>1, LoginStep, ExitStep, AddFriendStep, InitSizeStep, EmplaceStep DEF Gui
  <2>2. CASE ChangeIcon \/ UpdateInfoIcon
    BY <1>2, <2>2, ChangeIconStep, UpdateInfoIconStep
  <2>3. CASE \E a \in Account : FindBack(a)
    BY <1>2, <2>3, FindBackStep
  <2>4. CASE \E f \in Friend : UpdateButt(f)
    BY <1>2, <2>4, UpdateButtStep
  <2>5. CASE \E t \in Transfer : Moves(t)
    BY <1>2, <2>5, OpenedStep, UploadedStep, PartStep, BreakOffStep,
       CallbackListStep, CallbackFindStep, CallbackUploadStep DEF Moves
  <2>6. CASE UNCHANGED vars
    <3>1. UNCHANGED <<on, session, file, tr, todo, adding, list, panel, img, refresh,
                      srvIcon, failed, suspect, excused, late>>
      BY <2>6 DEF vars, guiVars, history
    <3>2. TypeOK'
      BY <1>2, <3>1 DEF IInv, TypeOK
    <3>3. Stored'
      BY <1>2, <3>1, StoredSame DEF IInv
    <3>4. \A b : Running(b)' = Running(b) /\ Writers(b)' = Writers(b)
      BY <3>1 DEF Running, Writers
    <3>5. Adding'
      BY <1>2, <3>1, <3>4 DEF IInv, Adding
    <3>6. Buttons'
      BY <1>2, <3>1, <3>4, ButtonSame DEF IInv, Buttons
    <3>7. Finding'
      BY <1>2, <3>1, <3>4, FindingSame DEF IInv
    <3>8. QED
      BY <3>2, <3>3, <3>5, <3>6, <3>7 DEF IInv
  <2>7. QED
    BY <1>2, <2>1, <2>2, <2>3, <2>4, <2>5, <2>6 DEF Next
<1>3. QED
  BY <1>1, <1>2, PTL DEF Spec

\* The disk, the transfers and what is shown keep their shape: no part is
\* written behind the end of an icon.
THEOREM TypeCorrect == Spec => []TypeOK
BY Invariance, PTL DEF IInv

\* Downloads of one icon that overlap, each emptying and writing the same file,
\* leave it whole once all of them are through; only one that broke off, or a
\* picture copied into the middle, spoils it.
THEOREM OverlapHealsHolds == Spec => []OverlapHeals
<1>1. IInv => OverlapHeals
  BY HealedIsWhole DEF IInv, Stored, OverlapHeals
<1>2. QED
  BY <1>1, Invariance, PTL

\* update_ac_icon and init_size leave a button with the icon that is on the
\* disk, unless a transfer failed, the callback missed the friend in the map or
\* loaded a file another download was writing.
THEOREM ButtonShowsFileHolds == Spec => []ButtonShowsFile
<1>1. ASSUME IInv, NEW f \in list, Whole(file[f]), Running(f) = {},
             f \notin failed \union excused
      PROVE  img[f] = "whole"
  <2>1. f \in Friend
    BY <1>1 DEF IInv, TypeOK
  <2>2. Listing(f) \/ Drawn(f) \/ (Still(f) /\ ~Whole(file[f]))
    BY <1>1, <2>1 DEF IInv, Buttons, Button
  <2>3. QED
    BY <1>1, <2>2 DEF Listing, Drawn
<1>2. IInv => ButtonShowsFile
  BY <1>1 DEF ButtonShowsFile
<1>3. QED
  BY <1>2, Invariance, PTL

\* The search panel of wid_friend_add shows the icon of the account it shows,
\* unless that is on its way, failed, or an earlier search's icon came late.
THEOREM FindShowsIconHolds == Spec => []FindShowsIcon
<1>1. IInv => FindShowsIcon
  BY DEF IInv, Finding, FindShowsIcon
<1>2. QED
  BY <1>1, Invariance, PTL
=============================================================================
