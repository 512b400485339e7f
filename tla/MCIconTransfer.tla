---------------------------- MODULE MCIconTransfer ----------------------------
(***************************************************************************)
(* Instances of IconTransfer for TLC.                                      *)
(***************************************************************************)
EXTENDS IconTransfer

CONSTANTS bob               \* a friend

OneFriend == {bob}
TwoTransfers == 1..2
=============================================================================
