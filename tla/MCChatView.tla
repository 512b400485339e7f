------------------------------ MODULE MCChatView ------------------------------
(***************************************************************************)
(* Instances of ChatView for TLC.                                          *)
(***************************************************************************)
EXTENDS ChatView

CONSTANTS bob, carol

TwoFriends == {bob, carol}
TwoTimes == {1, 2}
=============================================================================
