------------------------------ MODULE MCSwapMsg ------------------------------
(***************************************************************************)
(* Instances of SwapMsg for TLC.                                           *)
(***************************************************************************)
EXTENDS SwapMsg, TLC

CONSTANTS alice, bob,       \* accounts
          plain, quote      \* a text without and one with a single quote

TwoAccounts == {alice, bob}
OneTime == {1}
TwoTimes == {1, 2}
TwoTexts == {plain, quote}
OneText == {plain}
QuotedTexts == {quote}
NoTexts == {}

AccountSymmetry == Permutations(TwoAccounts)
=============================================================================
