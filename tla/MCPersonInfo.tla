----------------------------- MODULE MCPersonInfo -----------------------------
(***************************************************************************)
(* Instances of PersonInfo for TLC.                                        *)
(***************************************************************************)
EXTENDS PersonInfo

CONSTANTS bob, carol,           \* friends
          empty, mine, old      \* fields: never filled in, mine, age 201

TwoFriends == {bob, carol}
OneLabel == {1}
SomeRest == {empty, mine, old}
BadRest == {old}
Entries == {[sex |-> "m", rest |-> mine], [sex |-> "", rest |-> mine],
            [sex |-> "f", rest |-> old]}
=============================================================================
