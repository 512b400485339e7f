------------------------------- MODULE Delivery -------------------------------
(***************************************************************************)
(* What the message exchange of qweb_client promises, without clients,     *)
(* connections or server.  A message is named by its sender, its receiver  *)
(* and its send time.  It is sent once; after that it may be stored by the *)
(* receiver, or the receiver may fail to store it; and only then may it be *)
(* confirmed.  The history table two friends keep of each other has one    *)
(* row per send time, so of two messages that cross with equal send times  *)
(* neither can be stored, and none can be sent where one is stored.        *)
(***************************************************************************)
CONSTANTS Account, Time

VARIABLES sent, stored, dropped, confirmed

vars == <<sent, stored, dropped, confirmed>>

Message == Account \X Account \X Time

\* The message that would use the same row of the receiver's table.
Crossing(m) == <<m[2], m[1], m[3]>>

Init ==
    /\ sent = {}
    /\ stored = {}
    /\ dropped = {}
    /\ confirmed = {}

\* The sender records the message (ask_swap_msg).
SendMsg(m) ==
    /\ m \notin sent
    /\ Crossing(m) \notin stored
    /\ sent' = sent \union {m}
    /\ UNCHANGED <<stored, dropped, confirmed>>

\* The receiver records the message (task_swap_msg).
Store(m) ==
    /\ m \in sent \ stored
    /\ Crossing(m) \notin sent
    /\ stored' = stored \union {m}
    /\ UNCHANGED <<sent, dropped, confirmed>>

\* The receiver gets the message and cannot record it (task_swap_msg).
Drop(m) ==
    /\ m \in sent \ stored
    /\ dropped' = dropped \union {m}
    /\ UNCHANGED <<sent, stored, confirmed>>

\* The sender learns that the receiver got it (task_swap_msg_back).
Confirm(m) ==
    /\ m \in sent
    /\ m \in stored \union dropped
    /\ confirmed' = confirmed \union {m}
    /\ UNCHANGED <<sent, stored, dropped>>

Next == \E m \in Message : SendMsg(m) \/ Store(m) \/ Drop(m) \/ Confirm(m)

Spec == Init /\ [][Next]_vars
=============================================================================
