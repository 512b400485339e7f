----------------------------- MODULE MCFileUpload -----------------------------
(***************************************************************************)
(* Instances of FileUpload for TLC.                                        *)
(***************************************************************************)
EXTENDS FileUpload

CONSTANTS photo,            \* a file
          u1, u2            \* ids

OneFile == {photo}
OneId == {u1}
TwoIds == {u1, u2}

\* With buffers of 2 and segments of 4 bytes: a whole segment, and two
\* segments with a rest.
SomeSizes == {4, 9}
WithEmpty == 0..2
=============================================================================
