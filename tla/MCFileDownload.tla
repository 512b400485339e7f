---------------------------- MODULE MCFileDownload ----------------------------
(***************************************************************************)
(* Instances of FileDownload for TLC.                                      *)
(***************************************************************************)
EXTENDS FileDownload

CONSTANTS icon, photo,      \* files
          d1, d2            \* ids

OneFile == {icon}
TwoFiles == {icon, photo}
OneId == {d1}
TwoIds == {d1, d2}

\* A whole segment of 2 bytes, and a segment with a rest.
SomeSizes == {2, 3}
\* Around the buffer (2) and the segment (4).
AllSizes == 1..9
=============================================================================
