--------------------------- MODULE SqlInsertProof ---------------------------
(***************************************************************************)
(* Proofs about SqlInsert, for any rows, numbers and texts.                *)
(*                                                                         *)
(* The text being formatted is at every turn of the loop of sformat_t what *)
(* it should be, or it is spoilt: it agrees with the statement that should *)
(* come out up to a brace of a value, in whose place it has something      *)
(* else.  Whatever is put in later, a spoilt text stays spoilt; and a text *)
(* becomes spoilt exactly if the values in it have a pair of braces, which *)
(* is then found before the marker.                                        *)
(***************************************************************************)
EXTENDS SqlInsert, SequenceTheorems, WellFoundedInduction, TLAPS

Chars == Seq(Char)
Values == Numbers \union [text : {TRUE}, chars : Chars]

\* What the loop needs to know of its variables.  (val is left out: a number
\* that is used has been compared with the length of _vec.)
TypeOK ==
    /\ job \in Job
    /\ k \in 1..Len(job.row)
    /\ sql \in Chars
    /\ stage \in Running \union {"exec", "thrown"}
    /\ str \in Chars
    /\ vec \in Seq(Chars)
    /\ from \in Nat \ {0}

\* Where a text has a brace.  A plain text has none.
Opens(s, i) == s[i] = "{"
Closes(s, i) == s[i] = "}"
Plain(s) == s \in Chars /\ \A i \in 1..Len(s) : ~Opens(s, i) /\ ~Closes(s, i)

\* From b on, the first braces in s that match are those of the marker {d}
\* behind p.
Waiting(s, b, p, d, q) ==
    /\ s = p \o (Marker(d) \o q)
    /\ b \in 1..(Len(p) + 1)
    /\ \A i, j \in b..Len(p) : Opens(p, i) /\ Closes(p, j) => j < i

\* The search has passed the end of the text.
Over == from > Len(str)

\* insert_db: the n-th value as it should be, the statement up to its place, the
\* statement waiting for it, and what is put in for it.
Value(row, n) == Quoted(row[n], row[n].chars)
Intro == <<"I">> \o <<"t">> \o <<"V", "(">>
Outro == <<")", ";">>
Before(row, n) ==
    IF n = 1 THEN Intro ELSE Intro \o (Listing(row)[n - 1] \o <<",">>)
Ready(row, n) == Before(row, n) \o (Marker("0") \o Outro)
Piece(row, n) ==
    IF n < Len(row) THEN Value(row, n) \o <<",">> \o Marker("0") ELSE Value(row, n)

\* A brace of the text t is missing from s, which is as t so far.
Spoilt(s, t) ==
    \E p \in 1..Len(s) :
        /\ p <= Len(t)
        /\ Opens(t, p) /\ ~Opens(s, p)
        /\ \A i \in 1..(p - 1) : s[i] = t[i]
Lost(s) == Spoilt(s, Expected) /\ ~SafeRow

Inserting ==
    /\ stage \notin {"shape", "fill"}
    /\ stage = "table" =>
          /\ k = 1
          /\ vec = << <<"t">>, Marker("0") >>
          /\ \/ Waiting(str, from, <<"I">>, "0", <<"V", "(">> \o (Marker("1") \o Outro))
             \/ Waiting(str, from, Intro, "1", Outro)
             \/ str = Ready(job.row, 1) /\ Over
    /\ stage = "value" =>
          /\ sql = Ready(job.row, k) \/ Lost(sql)
          /\ vec = <<job.row[k].chars>>
          /\ \/ str = Quoted(job.row[k], Marker("0")) /\ from = 1
             \/ str = Value(job.row, k) /\ Over
    /\ stage = "splice" =>
          /\ vec = <<Piece(job.row, k)>>
          /\ \/ str = Ready(job.row, k) /\ from = 1 /\ val = -1
             \/ /\ str = (Before(job.row, k) \o Piece(job.row, k)) \o Outro
                /\ Over
                /\ ~Braced(Before(job.row, k))
             \/ Lost(str)

\* update_db: the template, word by word, from each marker on, and the words
\* before it with the arguments put in so far.
UpdateRest4 == <<";", " ">>
UpdateRest3 == <<"=", " ">> \o (Marker("4") \o UpdateRest4)
UpdateRest2 == <<"W", "H">> \o (Marker("3") \o UpdateRest3)
UpdateRest1 == <<"=", " ">> \o (Marker("2") \o UpdateRest2)
UpdateRest0 == <<"S", "E">> \o (Marker("1") \o UpdateRest1)
UpdateDone1 == (<<"U">> \o <<"t">>) \o <<"S", "E">>
UpdateDone2 == (UpdateDone1 \o <<"u">>) \o <<"=", " ">>
UpdateDone3 == (UpdateDone2 \o Marker("0")) \o <<"W", "H">>
UpdateDone4 == (UpdateDone3 \o <<"i">>) \o <<"=", " ">>

\* Between its two values; the statement with the first of them.
Middle == (<<"W", "H">> \o <<"i">>) \o <<"=", " ">>
Half(row) == (UpdateDone2 \o row[1].chars) \o Middle

Updating ==
    /\ stage \in {"shape", "fill", "exec"}
    /\ stage = "shape" =>
          /\ vec = << <<"t">>, <<"u">>, Marker("0"), <<"i">>, Marker("1") >>
          /\ \/ Waiting(str, from, <<"U">>, "0", UpdateRest0)
             \/ Waiting(str, from, UpdateDone1, "1", UpdateRest1)
             \/ Waiting(str, from, UpdateDone2, "2", UpdateRest2)
             \/ Waiting(str, from, UpdateDone3, "3", UpdateRest3)
             \/ Waiting(str, from, UpdateDone4, "4", UpdateRest4)
             \/ str = (UpdateDone4 \o Marker("1")) \o UpdateRest4 /\ Over
    /\ stage = "fill" =>
          /\ vec = <<job.row[1].chars, job.row[2].chars>>
          /\ \/ Waiting(str, from, UpdateDone2, "0", Middle \o (Marker("1") \o UpdateRest4))
             \/ Waiting(str, from, Half(job.row), "1", UpdateRest4)
             \/ str = Expected /\ Over

\* delete_db, in the same way.
DeleteRest2 == <<";", " ">>
DeleteRest1 == <<"=", " ">> \o (Marker("2") \o DeleteRest2)
DeleteRest0 == <<"W", "H">> \o (Marker("1") \o DeleteRest1)
DeleteDone1 == (<<"D">> \o <<"t">>) \o <<"W", "H">>
DeleteDone2 == (DeleteDone1 \o <<"i">>) \o <<"=", " ">>

Deleting ==
    /\ stage \in {"shape", "fill", "exec"}
    /\ stage = "shape" =>
          /\ vec = << <<"t">>, <<"i">>, Marker("0") >>
          /\ \/ Waiting(str, from, <<"D">>, "0", DeleteRest0)
             \/ Waiting(str, from, DeleteDone1, "1", DeleteRest1)
             \/ Waiting(str, from, DeleteDone2, "2", DeleteRest2)
             \/ str = (DeleteDone2 \o Marker("0")) \o DeleteRest2 /\ Over
    /\ stage = "fill" =>
          /\ vec = <<job.row[1].chars>>
          /\ \/ Waiting(str, from, DeleteDone2, "0", DeleteRest2)
             \/ str = Expected /\ Over

IInv ==
    /\ TypeOK
    /\ job.op = "insert" => Inserting
    /\ job.op = "update" => Updating
    /\ job.op = "delete" => Deleting
    /\ InsertFaithful
-----------------------------------------------------------------------------
(***************************************************************************)
(* Least and greatest elements.                                            *)
(***************************************************************************)
\* A set of natural numbers has a least element, and Min is it.
LEMMA MinIsLeast ==
    ASSUME NEW S, S \subseteq Nat, S # {}
    PROVE  Min(S) \in S /\ \A y \in S : Min(S) =< y
<1>1. PICK x \in S : \A y \in S : ~(<<y, x>> \in OpToRel(<, Nat))
  BY WFMin, NatLessThanWellFounded, Zenon
<1>2. \A y \in S : ~(y < x)
  BY <1>1 DEF OpToRel
<1>3. \E z \in S : \A y \in S : z =< y
  BY <1>2
<1> QED
  BY <1>3 DEF Min

\* A set of natural numbers below a bound has a greatest element, and Max is it.
LEMMA MaxIsGreatest ==
    ASSUME NEW S, S \subseteq Nat, S # {}, NEW n \in Nat, \A y \in S : y =< n
    PROVE  Max(S) \in S /\ \A y \in S : Max(S) >= y
<1> DEFINE Above == {m \in Nat : \A y \in S : y =< m}
<1>1. Above \subseteq Nat /\ Above # {}
  OBVIOUS
<1>2. PICK m \in Above : m = Min(Above) /\ \A z \in Above : m =< z
  BY <1>1, MinIsLeast, Zenon
<1>3. m \in Nat /\ \A y \in S : y =< m
  BY <1>2
<1>4. m \in S
  <2>1. CASE m = 0
    <3>1. PICK y \in S : TRUE
      OBVIOUS
    <3>2. y \in Nat /\ y =< m
      BY <1>3
    <3>3. y = m
      BY <3>2, <2>1
    <3> QED
      BY <3>3
  <2>2. CASE m # 0 /\ m \notin S
    <3>1. m - 1 \in Nat /\ \A y \in S : y =< m - 1
      BY <2>2, <1>3
    <3>2. m - 1 \in Above
      BY <3>1
    <3> QED
      BY <3>2, <1>2, <1>3
  <2> QED
    BY <2>1, <2>2
<1>5. \E z \in S : \A y \in S : z >= y
  BY <1>3, <1>4
<1> QED
  BY <1>5 DEF Max
-----------------------------------------------------------------------------
(***************************************************************************)
(* sformat.                                                                *)
(***************************************************************************)
\* find_flg: a marker that is found lies behind the place the search began, and
\* inside the text, from a "{" to the first "}" behind any.
LEMMA MarkerFound ==
    ASSUME NEW s \in Chars, NEW b \in Nat \ {0}, FindFlg(s, b).ok
    PROVE  /\ FindFlg(s, b).begin \in Nat /\ FindFlg(s, b).end \in Nat
           /\ b =< FindFlg(s, b).begin
           /\ FindFlg(s, b).begin < FindFlg(s, b).end
           /\ FindFlg(s, b).end =< Len(s)
           /\ s[FindFlg(s, b).begin] = "{"
           /\ s[FindFlg(s, b).end] = "}"
           /\ \A i \in b..Len(s) : i > FindFlg(s, b).begin /\ s[i] = "{"
                                   => i >= FindFlg(s, b).end
           /\ \A i, j \in b..Len(s) : i < j /\ s[i] = "{" /\ s[j] = "}"
                                      => FindFlg(s, b).end =< j
<1> DEFINE Open == {i \in b..Len(s) : s[i] = "{"}
           Close == {i \in b..Len(s) : s[i] = "}" /\ \E j \in Open : j < i}
           Opening == {j \in Open : j < Min(Close)}
<1>1. Len(s) \in Nat
  BY DEF Chars
<1>2. Close # {} /\ FindFlg(s, b) = [ok |-> TRUE, end |-> Min(Close), begin |-> Max(Opening)]
  <2>1. FindFlg(s, b) = IF Close = {} THEN [ok |-> FALSE, begin |-> 0, end |-> 0]
                        ELSE [ok |-> TRUE, end |-> Min(Close), begin |-> Max(Opening)]
    BY Zenon DEF FindFlg
  <2> HIDE DEF Open, Close, Opening
  <2> QED
    BY <2>1
<1>3. /\ \A i : i \in Open <=> i \in b..Len(s) /\ s[i] = "{"
      /\ \A i : i \in Close <=> i \in b..Len(s) /\ s[i] = "}" /\ \E j \in Open : j < i
      /\ \A j : j \in Opening <=> j \in Open /\ j < Min(Close)
  BY Zenon
<1> HIDE DEF Open, Close, Opening
<1>4. /\ \A i \in Close : i \in Nat /\ i =< Len(s)
      /\ \A i \in Opening : i \in Nat /\ i =< Len(s)
      /\ Close \subseteq Nat /\ Opening \subseteq Nat
  <2>1. \A i \in b..Len(s) : i \in Nat /\ i =< Len(s)
    BY <1>1
  <2> QED
    BY <1>3, <2>1, Zenon
<1>5. Min(Close) \in Close /\ \A i \in Close : Min(Close) =< i
  BY <1>2, <1>4, MinIsLeast, Zenon
<1>6. Opening # {} /\ Opening \subseteq Nat /\ \A j \in Opening : j =< Len(s)
  <2>1. PICK j \in Open : j < Min(Close)
    BY <1>3, <1>5
  <2>2. j \in Opening
    BY <2>1, <1>3
  <2> QED
    BY <2>2, <1>4, Zenon
<1>7. Max(Opening) \in Opening /\ \A i \in Opening : Max(Opening) >= i
  BY <1>1, <1>6, MaxIsGreatest
<1>8. /\ Min(Close) \in b..Len(s) /\ Max(Opening) \in b..Len(s)
      /\ Max(Opening) < Min(Close)
      /\ s[Max(Opening)] = "{" /\ s[Min(Close)] = "}"
  BY <1>3, <1>5, <1>7
<1>9. \A i \in b..Len(s) : i > Max(Opening) /\ s[i] = "{" => i >= Min(Close)
  <2>1. SUFFICES ASSUME NEW i \in b..Len(s), i > Max(Opening), s[i] = "{"
                 PROVE  i >= Min(Close)
    OBVIOUS
  <2>2. i \notin Opening
    <3>1. PICK m \in Nat : m = Max(Opening)
      BY <1>7, <1>4, Zenon
    <3>2. i > m
      BY <2>1, <3>1, Zenon
    <3>3. ~(m >= i)
      BY <1>1, <3>2
    <3> QED
      BY <1>7, <3>1, <3>3, Zenon
  <2>3. ~(i < Min(Close))
    BY <1>3, <2>1, <2>2, Zenon
  <2>4. PICK m \in Nat : m = Min(Close)
    BY <1>5, <1>4, Zenon
  <2> QED
    BY <1>1, <2>3, <2>4
<1>10. \A i, j \in b..Len(s) : i < j /\ s[i] = "{" /\ s[j] = "}" => Min(Close) =< j
  BY <1>3, <1>5
<1>11. PICK e, m : e = Min(Close) /\ m = Max(Opening)
  OBVIOUS
<1>12. FindFlg(s, b) = [ok |-> TRUE, end |-> e, begin |-> m]
  BY <1>2, <1>11, Zenon
<1>13. FindFlg(s, b).end = e /\ FindFlg(s, b).begin = m
  BY <1>12
<1>14. FindFlg(s, b).end = Min(Close) /\ FindFlg(s, b).begin = Max(Opening)
  BY <1>11, <1>13, Zenon
<1>15. /\ Min(Close) \in Nat /\ Max(Opening) \in Nat /\ b =< Max(Opening)
       /\ Max(Opening) < Min(Close) /\ Min(Close) =< Len(s)
  <2>1. PICK c \in b..Len(s), o \in b..Len(s) : c = Min(Close) /\ o = Max(Opening)
    BY <1>8, Zenon
  <2>2. c \in Nat /\ o \in Nat /\ b =< o /\ c =< Len(s)
    BY <1>1
  <2> QED
    BY <1>8, <2>1, <2>2, Zenon
<1> HIDE DEF Open, Close, Opening
<1> QED
  BY <1>8, <1>9, <1>10, <1>14, <1>15, Zenon

\* find_flg: if there are braces that match, it finds some.
LEMMA PairFound ==
    ASSUME NEW s \in Chars, NEW b \in Nat \ {0}, NEW i \in b..Len(s), NEW j \in b..Len(s),
           i < j, s[i] = "{", s[j] = "}"
    PROVE  FindFlg(s, b).ok
<1> DEFINE Open == {h \in b..Len(s) : s[h] = "{"}
           Close == {h \in b..Len(s) : s[h] = "}" /\ \E g \in Open : g < h}
           rest == Max({g \in Open : g < Min(Close)})
<1>1. FindFlg(s, b) = IF Close = {} THEN [ok |-> FALSE, begin |-> 0, end |-> 0]
                      ELSE [ok |-> TRUE, end |-> Min(Close), begin |-> rest]
  BY Zenon DEF FindFlg
<1>2. j \in Close
  BY Zenon
<1> HIDE DEF Open, Close
<1>3. PICK e, m : FindFlg(s, b) = [ok |-> TRUE, end |-> e, begin |-> m]
  BY <1>1, <1>2, Zenon
<1>4. [ok |-> TRUE, end |-> e, begin |-> m].ok
  OBVIOUS
<1> QED
  BY <1>3, <1>4, Zenon

\* replace_string: what it returns is a text, and how long it is.
LEMMA Replaced ==
    ASSUME NEW s \in Chars, NEW flg \in Chars, NEW b \in Nat \ {0}, NEW e \in Nat,
           b < e, e =< Len(s)
    PROVE  /\ ReplaceString(s, flg, b, e) \in Chars
           /\ Len(ReplaceString(s, flg, b, e)) = b - 1 + Len(flg) + Len(s) - e
<1>1. Len(s) \in Nat /\ Len(flg) \in Nat
  BY DEF Chars
<1>2. SubSeq(s, 1, b - 1) \in Chars /\ Len(SubSeq(s, 1, b - 1)) = b - 1
  BY <1>1, SubSeqProperties DEF Chars
<1>3. SubSeq(s, e + 1, Len(s)) \in Chars /\ Len(SubSeq(s, e + 1, Len(s))) = Len(s) - e
  <2>1. CASE e = Len(s)
    BY <2>1, <1>1, SubSeqProperties DEF Chars
  <2>2. CASE e < Len(s)
    BY <2>2, <1>1, SubSeqProperties DEF Chars
  <2> QED
    BY <2>1, <2>2, <1>1
<1>4. /\ SubSeq(s, 1, b - 1) \o flg \in Chars
      /\ Len(SubSeq(s, 1, b - 1) \o flg) = b - 1 + Len(flg)
  BY <1>1, <1>2, ConcatProperties DEF Chars
<1>5. PICK p \in Chars, r \in Chars :
        p = SubSeq(s, 1, b - 1) \o flg /\ r = SubSeq(s, e + 1, Len(s))
  BY <1>3, <1>4
<1>6. p \o r \in Chars /\ Len(p \o r) = Len(p) + Len(r)
  BY ConcatProperties DEF Chars
<1>7. ReplaceString(s, flg, b, e) = p \o r
  BY <1>5, Zenon DEF ReplaceString
<1> QED
  BY <1>1, <1>3, <1>4, <1>5, <1>6, <1>7
-----------------------------------------------------------------------------
(***************************************************************************)
(* The texts that are formatted, and the values put in.                    *)
(***************************************************************************)
LEMMA Joined ==
    ASSUME NEW s \in Chars, NEW t \in Chars
    PROVE  s \o t \in Chars
  BY ConcatProperties DEF Chars

\* The characters of the templates.
LEMMA KnownChars ==
    /\ "{" \in Char /\ "}" \in Char /\ "'" \in Char /\ "," \in Char /\ "(" \in Char
    /\ ")" \in Char /\ ";" \in Char /\ "=" \in Char /\ " " \in Char
    /\ "I" \in Char /\ "V" \in Char /\ "U" \in Char /\ "S" \in Char /\ "E" \in Char
    /\ "W" \in Char /\ "H" \in Char /\ "D" \in Char /\ "t" \in Char /\ "i" \in Char
    /\ "u" \in Char
    /\ "0" \in Char /\ "1" \in Char /\ "2" \in Char /\ "3" \in Char /\ "4" \in Char
  BY Zenon DEF Char, Digits

LEMMA Letter ==
    ASSUME NEW c \in Char
    PROVE  <<c>> \in Chars
<1>1. <<c>> \in Seq(Char)
  OBVIOUS
<1> QED
  BY <1>1, Zenon DEF Chars

LEMMA Markers ==
    ASSUME NEW d \in Char
    PROVE  Marker(d) \in Chars
<1>1. PICK l \in Char, r \in Char : l = "{" /\ r = "}"
  BY Zenon DEF Char
<1>2. <<l, d, r>> \in Seq(Char)
  OBVIOUS
<1> QED
  BY <1>1, <1>2, Zenon DEF Marker, Chars

LEMMA QuotedText ==
    ASSUME NEW v, NEW s \in Chars
    PROVE  Quoted(v, s) \in Chars
<1>1. "'" \in Char
  BY Zenon DEF Char
<1>2. <<"'">> \o s \o <<"'">> \in Chars
  BY <1>1, Letter, Joined, Zenon
<1> QED
  BY <1>2, Zenon DEF Quoted

LEMMA Shapes == InsertShape \in Chars /\ UpdateShape \in Chars /\ DeleteShape \in Chars
<1>1. /\ <<"I">> \in Chars /\ <<"V", "(">> \in Chars /\ <<")", ";">> \in Chars
      /\ <<"U">> \in Chars /\ <<"S", "E">> \in Chars /\ <<"=", " ">> \in Chars
      /\ <<"W", "H">> \in Chars /\ <<";", " ">> \in Chars /\ <<"D">> \in Chars
  BY DEF Chars, Char
<1>2. /\ Marker("0") \in Chars /\ Marker("1") \in Chars /\ Marker("2") \in Chars
      /\ Marker("3") \in Chars /\ Marker("4") \in Chars
  BY KnownChars, Markers, Zenon
<1>3. InsertShape \in Chars
  BY <1>1, <1>2, Joined DEF InsertShape
<1>4. DeleteShape \in Chars
  BY <1>1, <1>2, Joined DEF DeleteShape
<1>5. UpdateShape \in Chars
  BY <1>1, <1>2, Joined DEF UpdateShape
<1> QED
  BY <1>3, <1>4, <1>5

\* The row of an operation is a sequence of values, and not empty.
LEMMA JobRow ==
    ASSUME NEW j \in Job
    PROVE  /\ j.row \in Seq(Values)
           /\ Len(j.row) \in Nat \ {0}
           /\ j.op \in {"insert", "update", "delete"}
           /\ j.op = "update" => Len(j.row) = 2 /\ j.row[1] \in Numbers /\ j.row[2] \in Numbers
           /\ j.op = "delete" => Len(j.row) = 1 /\ j.row[1] \in Numbers
<1>1. CASE j \in [op : {"insert"}, row : Rows]
  <2>1. j.op = "insert" /\ j.row \in Rows
    BY <1>1
  <2>2. j.row \in Seq(Values) /\ Len(j.row) > 0
    BY <2>1, SqlInsertAssumption, Zenon DEF Values, Chars
  <2>3. Len(j.row) \in Nat \ {0}
    BY <2>2
  <2> QED
    BY <2>1, <2>2, <2>3
<1>2. CASE j \in [op : {"update"}, row : {<<a, b>> : a \in Numbers, b \in Numbers}]
  <2>1. j.op = "update" /\ \E a \in Numbers, b \in Numbers : j.row = <<a, b>>
    BY <1>2
  <2>2. PICK a \in Numbers, b \in Numbers : j.row = <<a, b>>
    BY <2>1
  <2>3. a \in Values /\ b \in Values
    BY DEF Values
  <2>4. /\ <<a, b>> \in Seq(Values) /\ Len(<<a, b>>) = 2
        /\ <<a, b>>[1] = a /\ <<a, b>>[2] = b
    BY <2>3
  <2>5. PICK p \in Seq(Values) : p = <<a, b>> /\ Len(p) = 2 /\ p[1] = a /\ p[2] = b
    BY <2>4, Zenon
  <2>6. j.row = p
    BY <2>2, <2>5, Zenon
  <2> QED
    BY <2>1, <2>5, <2>6
<1>3. CASE j \in [op : {"delete"}, row : {<<a>> : a \in Numbers}]
  <2>1. j.op = "delete" /\ \E a \in Numbers : j.row = <<a>>
    BY <1>3
  <2>2. PICK a \in Numbers : j.row = <<a>>
    BY <2>1, Zenon
  <2>3. a \in Values
    BY DEF Values
  <2>4. /\ <<a>> \in Seq(Values) /\ Len(<<a>>) = 1 /\ <<a>>[1] = a
    BY <2>3
  <2>5. PICK p \in Seq(Values) : p = <<a>> /\ Len(p) = 1 /\ p[1] = a
    BY <2>4, Zenon
  <2>6. j.row = p
    BY <2>2, <2>5, Zenon
  <2> QED
    BY <2>1, <2>5, <2>6
<1> QED
  BY <1>1, <1>2, <1>3 DEF Job

\* A number is not empty, not quoted and has no brace.
LEMMA NumberText ==
    ASSUME NEW v \in Numbers
    PROVE  /\ v.text = FALSE
           /\ v.chars \in Chars /\ Len(v.chars) > 0
           /\ \A i \in 1..Len(v.chars) : v.chars[i] # "{" /\ v.chars[i] # "}"
<1> DEFINE NoBrace == Char \ {"{", "}"}
<1>1. v \in [text : {FALSE}, chars : Seq(NoBrace) \ {<<>>}]
  BY SqlInsertAssumption, Zenon
<1>2. \A c \in NoBrace : c \in Char /\ c # "{" /\ c # "}"
  BY Zenon
<1> HIDE DEF NoBrace
<1>3. PICK s \in Seq(NoBrace) : s = v.chars /\ s # <<>>
  BY <1>1
<1>4. /\ s \in Seq(Char) /\ Len(s) > 0
      /\ \A i \in 1..Len(s) : s[i] # "{" /\ s[i] # "}"
  <2>1. \A i \in 1..Len(s) : s[i] \in NoBrace
    OBVIOUS
  <2>2. \A i \in 1..Len(s) : s[i] \in Char /\ s[i] # "{" /\ s[i] # "}"
    BY <1>2, <2>1, Zenon
  <2>3. Len(s) \in Nat /\ DOMAIN s = 1..Len(s) /\ Len(s) > 0
    BY <1>3
  <2>4. s \in Seq(Char)
    BY <1>2, SeqMonotonic, Zenon
  <2> QED
    BY <2>2, <2>3, <2>4, Zenon
<1>5. v.text = FALSE
  BY <1>1
<1> QED
  BY <1>3, <1>4, <1>5, Zenon DEF Chars

\* A value of the row, quoted or not.
LEMMA RowValue ==
    ASSUME NEW j \in Job, NEW n \in 1..Len(j.row)
    PROVE  j.row[n].chars \in Chars
<1>1. j.row \in Seq(Values) /\ n \in 1..Len(j.row)
  BY JobRow
<1>2. j.row[n] \in Values
  BY <1>1
<1>3. CASE j.row[n] \in Numbers
  BY <1>3, NumberText
<1>4. CASE j.row[n] \in [text : {TRUE}, chars : Chars]
  BY <1>4
<1> QED
  BY <1>2, <1>3, <1>4 DEF Values
-----------------------------------------------------------------------------
(***************************************************************************)
(* Texts that are put together.                                            *)
(***************************************************************************)
LEMMA Assoc ==
    ASSUME NEW p \in Chars, NEW q \in Chars, NEW r \in Chars
    PROVE  (p \o q) \o r = p \o (q \o r)
  BY DEF Chars

LEMMA JoinedAt ==
    ASSUME NEW p \in Chars, NEW q \in Chars
    PROVE  \E r \in Chars :
              /\ r = p \o q
              /\ Len(r) = Len(p) + Len(q)
              /\ \A i \in 1..Len(p) : r[i] = p[i]
              /\ \A i \in 1..Len(q) : r[Len(p) + i] = q[i]
<1>1. /\ p \o q \in Chars
      /\ Len(p \o q) = Len(p) + Len(q)
      /\ \A i \in 1..Len(p) : (p \o q)[i] = p[i]
      /\ \A i \in 1..Len(q) : (p \o q)[Len(p) + i] = q[i]
  BY DEF Chars
<1> QED
  BY <1>1, Zenon

LEMMA CharsLen ==
    ASSUME NEW s \in Chars
    PROVE  Len(s) \in Nat
  BY DEF Chars

LEMMA ThreeAt ==
    ASSUME NEW p \in Chars, NEW m \in Chars, NEW q \in Chars, Len(m) = 3
    PROVE  \E s \in Chars :
              /\ s = p \o (m \o q)
              /\ Len(s) = Len(p) + 3 + Len(q)
              /\ \A i \in 1..Len(p) : s[i] = p[i]
              /\ s[Len(p) + 1] = m[1] /\ s[Len(p) + 2] = m[2] /\ s[Len(p) + 3] = m[3]
              /\ \A i \in 1..Len(q) : s[Len(p) + 3 + i] = q[i]
<1>1. PICK r \in Chars :
        /\ r = m \o q
        /\ Len(r) = Len(m) + Len(q)
        /\ \A i \in 1..Len(m) : r[i] = m[i]
        /\ \A i \in 1..Len(q) : r[Len(m) + i] = q[i]
  BY JoinedAt, Zenon
<1>2. PICK s \in Chars :
        /\ s = p \o r
        /\ Len(s) = Len(p) + Len(r)
        /\ \A i \in 1..Len(p) : s[i] = p[i]
        /\ \A i \in 1..Len(r) : s[Len(p) + i] = r[i]
  BY JoinedAt, Zenon
<1>3. Len(p) \in Nat /\ Len(q) \in Nat /\ Len(r) = 3 + Len(q)
  BY <1>1, CharsLen
<1>4. s[Len(p) + 1] = m[1] /\ s[Len(p) + 2] = m[2] /\ s[Len(p) + 3] = m[3]
  BY <1>1, <1>2, <1>3
<1>5. \A i \in 1..Len(q) : s[Len(p) + 3 + i] = q[i]
  <2>1. SUFFICES ASSUME NEW i \in 1..Len(q) PROVE s[Len(p) + 3 + i] = q[i]
    OBVIOUS
  <2>2. 3 + i \in 1..Len(r) /\ Len(p) + (3 + i) = Len(p) + 3 + i
    BY <1>3
  <2>3. r[3 + i] = q[i]
    BY <1>1
  <2> QED
    BY <1>2, <2>2, <2>3, Zenon
<1>6. Len(s) = Len(p) + 3 + Len(q)
  BY <1>2, <1>3
<1>7. s = p \o (m \o q)
  BY <1>1, <1>2, Zenon
<1> QED
  BY <1>2, <1>4, <1>5, <1>6, <1>7, Zenon

\* A part of a text that ends before, or begins at, a certain place.
LEMMA PartOf ==
    ASSUME NEW s \in Chars, NEW n \in Nat, NEW p \in Chars, n + Len(p) =< Len(s),
           \A i \in 1..Len(p) : s[n + i] = p[i]
    PROVE  SubSeq(s, n + 1, n + Len(p)) = p
<1>1. PICK m \in Nat, l \in Nat : m = Len(p) /\ l = Len(s)
  BY CharsLen
<1>2. \A i \in (n + 1)..(n + m) : s[i] \in Char
  BY <1>1 DEF Chars
<1>3. PICK a \in Int, b \in Int : a = n + 1 /\ b = n + m
  OBVIOUS
<1>4. /\ SubSeq(s, a, b) \in Seq(Char)
      /\ Len(SubSeq(s, a, b)) = IF a <= b THEN b - a + 1 ELSE 0
      /\ \A i \in 1..(b - a + 1) : SubSeq(s, a, b)[i] = s[a + i - 1]
  <2>1. \A i \in a..b : s[i] \in Char
    BY <1>2, <1>3, Zenon
  <2> QED
    BY <2>1, SubSeqProperties
<1>5. PICK t \in Chars : t = SubSeq(s, a, b)
  BY <1>4, Zenon DEF Chars
<1>6. Len(t) = m
  BY <1>5, <1>3, <1>4
<1>7. \A i \in 1..m : t[i] = s[n + i]
  BY <1>5, <1>3, <1>4
<1>8. SubSeq(s, n + 1, n + m) = t
  BY <1>5, <1>3, Zenon
<1> QED
  <2>1. Len(t) = Len(p) /\ \A i \in 1..Len(t) : t[i] = p[i]
    BY <1>1, <1>6, <1>7
  <2>2. t = p
    BY <2>1, SeqEqual, Zenon DEF Chars
  <2> QED
    BY <1>1, <1>8, <2>2, Zenon

\* Where the characters of a text with a marker are.
AroundMarker(s, p, d, q) ==
    /\ s = p \o (Marker(d) \o q)
    /\ Len(s) = Len(p) + 3 + Len(q)
    /\ \A i \in 1..Len(p) : s[i] = p[i]
    /\ Opens(s, Len(p) + 1) /\ s[Len(p) + 2] = d /\ Closes(s, Len(p) + 3)
    /\ SubSeq(s, 1, Len(p)) = p
    /\ SubSeq(s, Len(p) + 2, Len(p) + 2) = <<d>>
    /\ SubSeq(s, Len(p) + 4, Len(s)) = q

LEMMA MarkerAt ==
    ASSUME NEW p \in Chars, NEW q \in Chars, NEW d \in Char
    PROVE  \E s \in Chars : AroundMarker(s, p, d, q)
<1>1. PICK l \in Char, r \in Char : l = "{" /\ r = "}"
  BY KnownChars, Zenon
<1>2. PICK m \in Chars : m = Marker(d) /\ Len(m) = 3 /\ m[1] = l /\ m[2] = d /\ m[3] = r
  <2>1. /\ <<l, d, r>> \in Seq(Char) /\ Len(<<l, d, r>>) = 3
        /\ <<l, d, r>>[1] = l /\ <<l, d, r>>[2] = d /\ <<l, d, r>>[3] = r
    OBVIOUS
  <2> QED
    BY <1>1, <2>1, Zenon DEF Marker, Chars
<1>3. PICK s \in Chars :
        /\ s = p \o (m \o q)
        /\ Len(s) = Len(p) + 3 + Len(q)
        /\ \A i \in 1..Len(p) : s[i] = p[i]
        /\ s[Len(p) + 1] = m[1] /\ s[Len(p) + 2] = m[2] /\ s[Len(p) + 3] = m[3]
        /\ \A i \in 1..Len(q) : s[Len(p) + 3 + i] = q[i]
  <2>1. Len(m) = 3
    BY <1>2
  <2> QED
    BY <2>1, ThreeAt, Zenon
<1>4. s[Len(p) + 1] = l /\ s[Len(p) + 2] = d /\ s[Len(p) + 3] = r
  BY <1>2, <1>3, Zenon
<1>5. Len(p) \in Nat /\ Len(q) \in Nat
  BY CharsLen
<1>6. SubSeq(s, 1, Len(p)) = p
  <2>1. /\ 0 \in Nat /\ 0 + Len(p) =< Len(s)
        /\ \A i \in 1..Len(p) : s[0 + i] = p[i]
    BY <1>3, <1>5
  <2>2. SubSeq(s, 0 + 1, 0 + Len(p)) = p
    BY <1>3, <2>1, PartOf, Zenon
  <2>3. 0 + 1 = 1 /\ 0 + Len(p) = Len(p)
    BY <1>5
  <2> QED
    BY <2>2, <2>3, Zenon
<1>7. SubSeq(s, Len(p) + 2, Len(p) + 2) = <<d>>
  <2>1. PICK t \in Chars : t = <<d>> /\ Len(t) = 1 /\ t[1] = d
    <3>1. Len(<<d>>) = 1 /\ <<d>>[1] = d
      OBVIOUS
    <3> QED
      BY <3>1, Letter, Zenon
  <2>2. PICK n \in Nat : n = Len(p) + 1
    BY <1>5
  <2>3. n + Len(t) =< Len(s) /\ \A i \in 1..Len(t) : s[n + i] = t[i]
    BY <1>3, <1>5, <1>4, <2>1, <2>2
  <2>4. SubSeq(s, n + 1, n + Len(t)) = t
    BY <1>3, <2>3, PartOf, Zenon
  <2>5. n + 1 = Len(p) + 2 /\ n + Len(t) = Len(p) + 2
    BY <1>5, <2>1, <2>2
  <2> QED
    BY <2>1, <2>4, <2>5, Zenon
<1>8. SubSeq(s, Len(p) + 4, Len(s)) = q
  <2>1. PICK n \in Nat : n = Len(p) + 3
    BY <1>5
  <2>2. n + Len(q) =< Len(s) /\ \A i \in 1..Len(q) : s[n + i] = q[i]
    BY <1>3, <1>5, <2>1
  <2>3. SubSeq(s, n + 1, n + Len(q)) = q
    BY <1>3, <2>2, PartOf, Zenon
  <2>4. n + 1 = Len(p) + 4 /\ n + Len(q) = Len(s)
    BY <1>3, <1>5, <2>1
  <2> QED
    BY <2>3, <2>4, Zenon
<1>9. s = p \o (Marker(d) \o q)
  BY <1>2, <1>3, Zenon
<1>10. Opens(s, Len(p) + 1) /\ s[Len(p) + 2] = d /\ Closes(s, Len(p) + 3)
  BY <1>1, <1>4, Zenon DEF Opens, Closes
<1> QED
  BY <1>3, <1>6, <1>7, <1>8, <1>9, <1>10, Zenon DEF AroundMarker

LEMMA DigitValue ==
    /\ Digit["0"] = 0 /\ Digit["1"] = 1 /\ Digit["2"] = 2 /\ Digit["3"] = 3 /\ Digit["4"] = 4
    /\ \A d \in Digits : Digit[d] \in 0..9
    /\ {"0", "1", "2", "3", "4"} \subseteq Digits
<1>1. {"0", "1", "2", "3", "4"} \subseteq Digits
  BY DEF Digits
<1>2. Digit["0"] = 0 /\ Digit["1"] = 1 /\ Digit["2"] = 2 /\ Digit["3"] = 3 /\ Digit["4"] = 4
  BY DEF Digits, Digit
<1>3. \A d \in Digits : Digit[d] \in 0..9
  BY DEF Digits, Digit
<1> QED
  BY <1>1, <1>2, <1>3

\* The number that one digit is.
LEMMA NaturalOfOne ==
    ASSUME NEW s, Digit[s[1]] \in Nat
    PROVE  Natural(s, 0, 1) = Digit[s[1]]
<1> DEFINE rest(f) == [i \in 0..1 |-> IF i = 0 THEN 0 ELSE 10 * f[i - 1] + Digit[s[i]]]
           it == CHOOSE f : f = rest(f)
<1>1. Natural(s, 0, 1) = it[1]
  BY Zenon DEF Natural
<1>2. \E f : f = rest(f)
  <2> DEFINE g == [i \in 0..1 |-> IF i = 0 THEN 0 ELSE Digit[s[1]]]
  <2>1. g[0] = 0
    OBVIOUS
  <2>2. g = rest(g)
    BY <2>1
  <2> QED
    BY <2>2, Zenon
<1>3. it = rest(it)
  BY <1>2, Zenon
<1> HIDE DEF it
<1>4. it[0] = 0
  BY <1>3
<1>5. it[1] = 10 * it[0] + Digit[s[1]]
  BY <1>3
<1> QED
  BY <1>1, <1>4, <1>5

LEMMA DigitIsNoSign ==
    ASSUME NEW d \in Digits
    PROVE  /\ d \in Char
           /\ d # " " /\ d # "+" /\ d # "-" /\ d # "{" /\ d # "}"
<1>1. d \in Char
  BY Zenon DEF Char
<1>2. d # " " /\ d # "+" /\ d # "-" /\ d # "{" /\ d # "}"
  BY DEF Digits
<1> QED
  BY <1>1, <1>2, Zenon

\* to_num: a digit is read as the number it is.
LEMMA ToNumOfOne ==
    ASSUME NEW d \in Digits
    PROVE  ToNum(<<d>>) = [ok |-> TRUE, val |-> Digit[d]]
<1> DEFINE s == <<d>>
           blank(j) == s[j] = " "
           digit(j) == s[j] \in Digits
           Spaces == {i \in 0..Len(s) : \A j \in 1..i : blank(j)}
           space == Max(Spaces)
           signed == space < Len(s) /\ s[space + 1] \in {"+", "-"}
           first == IF signed THEN space + 1 ELSE space
           Numerals == {i \in first..Len(s) : \A j \in (first + 1)..i : digit(j)}
           last == Max(Numerals)
           num == IF first > space /\ s[first] = "-" THEN -Natural(s, first, last)
                  ELSE Natural(s, first, last)
<1>1. ToNum(s) = [ok |-> last > first /\ -MaxInt - 1 <= num /\ num <= MaxInt, val |-> num]
  BY Zenon DEF ToNum
<1>2. Len(s) = 1 /\ s[1] = d
  OBVIOUS
<1>3. ~blank(1) /\ digit(1) /\ s[1] \notin {"+", "-"}
  BY <1>2, DigitIsNoSign, Zenon
<1> HIDE DEF blank, digit, s
<1>4. space = 0
  <2>1. Spaces \subseteq Nat /\ 0 \in Spaces
    BY <1>2
  <2>2. \A i \in Spaces : i =< 0
    BY <1>2, <1>3
  <2>3. Max(Spaces) \in Spaces
    BY <2>1, <2>2, MaxIsGreatest, Zenon
  <2> QED
    BY <2>1, <2>2, <2>3
<1>5. signed = FALSE /\ first = 0
  <2>1. 0 + 1 = 1
    OBVIOUS
  <2>2. ~signed
    BY <1>3, <1>4, <2>1, Zenon
  <2> QED
    BY <1>4, <2>2, Zenon
<1>6. last = 1
  <2>1. \A i : i \in Numerals <=> i \in 0..1 /\ \A j \in 1..i : digit(j)
    <3>1. 0 + 1 = 1
      OBVIOUS
    <3> QED
      BY <1>2, <1>5, <3>1, Zenon
  <2> HIDE DEF Numerals, first
  <2>2. Numerals \subseteq Nat /\ 1 \in Numerals /\ \A i \in Numerals : i =< 1
    BY <1>3, <2>1
  <2>3. Max(Numerals) \in Numerals /\ \A y \in Numerals : Max(Numerals) >= y
    BY <2>2, MaxIsGreatest, Zenon
  <2>4. PICK m \in Nat : m = last /\ m =< 1 /\ m >= 1
    BY <2>2, <2>3, Zenon
  <2> QED
    BY <2>4
<1>7. Digit[d] \in 0..9 /\ Digit[d] \in Nat
  BY DigitValue
<1>8. Natural(s, first, last) = Digit[d]
  BY <1>2, <1>5, <1>6, <1>7, NaturalOfOne, Zenon
<1>9. num = Digit[d]
  <2>1. ~(first > space)
    BY <1>4, <1>5
  <2> QED
    BY <1>8, <2>1, Zenon
<1> HIDE DEF num, first, last, space
<1>10. (last > first /\ -MaxInt - 1 <= num /\ num <= MaxInt) = TRUE
  BY <1>5, <1>6, <1>7, <1>9 DEF MaxInt
<1>11. ToNum(s) = [ok |-> TRUE, val |-> Digit[d]]
  BY <1>1, <1>9, <1>10
<1> QED
  BY <1>11, Zenon DEF s

\* find_flg, in a text that waits for its next argument, finds the marker.
LEMMA WaitingFound ==
    ASSUME NEW p \in Chars, NEW q \in Chars, NEW d \in Digits, NEW s, NEW b \in Nat \ {0},
           Waiting(s, b, p, d, q)
    PROVE  /\ FindFlg(s, b).ok
           /\ FindFlg(s, b).begin = Len(p) + 1
           /\ FindFlg(s, b).end = Len(p) + 3
<1>1. PICK t \in Chars : AroundMarker(t, p, d, q)
  <2>1. d \in Char
    BY DigitIsNoSign, Zenon
  <2> QED
    BY <2>1, MarkerAt, Zenon
<1>2. /\ t = p \o (Marker(d) \o q)
      /\ Len(t) = Len(p) + 3 + Len(q)
      /\ \A i \in 1..Len(p) : t[i] = p[i]
      /\ Opens(t, Len(p) + 1) /\ t[Len(p) + 2] = d /\ Closes(t, Len(p) + 3)
  BY <1>1, Zenon DEF AroundMarker
<1>3. s = t
  BY <1>2, Zenon DEF Waiting
<1>4. PICK L \in Nat, N \in Nat : L = Len(p) /\ N = Len(t)
  BY CharsLen, Zenon
<1>5. b =< L + 1 /\ L + 3 =< N
  <2>1. b \in 1..(L + 1)
    BY <1>4, Zenon DEF Waiting
  <2>2. N = L + 3 + Len(q) /\ Len(q) \in Nat
    BY <1>2, <1>4, CharsLen
  <2> QED
    BY <2>1, <2>2
<1>6. Opens(t, L + 1) /\ Closes(t, L + 3)
  BY <1>2, <1>4, Zenon
<1>7. \A i, j \in b..L : Opens(t, i) /\ Closes(t, j) => j < i
  <2>1. \A i \in b..L : t[i] = p[i]
    <3>1. \A i \in b..L : i \in 1..L
      OBVIOUS
    <3> QED
      BY <1>2, <1>4, <3>1, Zenon
  <2>2. \A i, j \in b..L : Opens(p, i) /\ Closes(p, j) => j < i
    BY <1>4, Zenon DEF Waiting
  <2> QED
    BY <2>1, <2>2, Zenon DEF Opens, Closes
<1>8. FindFlg(t, b).ok
  <2>1. L + 1 \in b..N /\ L + 3 \in b..N /\ L + 1 < L + 3
    BY <1>5
  <2>2. t[L + 1] = "{" /\ t[L + 3] = "}"
    BY <1>6, Zenon DEF Opens, Closes
  <2> QED
    BY <1>4, <2>1, <2>2, PairFound, Zenon
<1>9. PICK m \in Nat, e \in Nat :
        /\ m = FindFlg(t, b).begin /\ e = FindFlg(t, b).end
        /\ b =< m /\ m < e /\ e =< N
        /\ Opens(t, m) /\ Closes(t, e)
        /\ \A i \in b..N : i > m /\ Opens(t, i) => i >= e
        /\ \A i, j \in b..N : i < j /\ Opens(t, i) /\ Closes(t, j) => e =< j
  BY <1>4, <1>8, MarkerFound, Zenon DEF Opens, Closes
<1>10. e =< L + 3
  <2>1. L + 1 \in b..N /\ L + 3 \in b..N /\ L + 1 < L + 3
    BY <1>5
  <2> QED
    BY <1>6, <1>9, <2>1, Zenon
<1>11. ~Closes(t, L + 1) /\ ~Closes(t, L + 2) /\ ~Opens(t, L + 2)
  <2>1. t[L + 2] = d /\ t[L + 1] = "{"
    BY <1>2, <1>4, <1>6, Zenon DEF Opens
  <2> QED
    BY <2>1, DigitIsNoSign, Zenon DEF Opens, Closes
<1>12. e # L + 1 /\ e # L + 2 /\ m # L + 2
  BY <1>9, <1>11, Zenon
<1>13. ~(e =< L)
  <2>1. SUFFICES ASSUME e =< L PROVE FALSE
    OBVIOUS
  <2>2. m \in b..L /\ e \in b..L
    BY <1>9, <2>1
  <2>3. e < m
    BY <1>7, <1>9, <2>2, Zenon
  <2> QED
    BY <1>9, <2>3
<1>14. e = L + 3
  BY <1>10, <1>12, <1>13
<1>15. ~(m =< L)
  <2>1. SUFFICES ASSUME m =< L PROVE FALSE
    OBVIOUS
  <2>2. L + 1 \in b..N /\ L + 1 > m
    BY <1>5, <2>1
  <2>3. L + 1 >= e
    BY <1>6, <1>9, <2>2, Zenon
  <2> QED
    BY <1>14, <2>3
<1>16. m = L + 1
  BY <1>9, <1>12, <1>14, <1>15
<1> QED
  BY <1>3, <1>4, <1>8, <1>9, <1>14, <1>16, Zenon

\* No marker is found behind the end of the text.
LEMMA OverDone ==
    ASSUME TypeOK, Over
    PROVE  ~Found.ok
<1>1. SUFFICES ASSUME Found.ok PROVE FALSE
  OBVIOUS
<1>2. PICK b \in Nat, e \in Nat : from =< b /\ b < e /\ e =< Len(str)
  BY <1>1, MarkerFound, Zenon DEF Found, TypeOK
<1>3. from \in Nat /\ Len(str) \in Nat
  BY CharsLen DEF TypeOK
<1> QED
  BY <1>2, <1>3 DEF Over

\* One turn of the loop of sformat_t, with what find_flg and to_num return.
LEMMA TurnCases ==
    ASSUME Turn
    PROVE  /\ stage \in Running /\ Found.ok
           /\ \/ Replace(Found, Num(Found))
              \/ PassOver(Found, Num(Found))
              \/ Throw(Num(Found))
  BY Zenon DEF Turn

\* In a text that waits for its next argument, one turn of the loop puts it in.
LEMMA TurnWaiting ==
    ASSUME TypeOK, Turn, NEW p \in Chars, NEW q \in Chars, NEW d \in Digits,
           NEW n \in Nat, n = Digit[d] + 1, n =< Len(vec),
           Waiting(str, from, p, d, q)
    PROVE  /\ str' = (p \o vec[n]) \o q
           /\ from' = Len(p) + 3 + Len(vec[n])
           /\ vec[n] \in Chars
           /\ UNCHANGED <<job, k, sql, stage, vec>>
<1>1. /\ from \in Nat \ {0} /\ vec \in Seq(Chars) /\ Len(vec) \in Nat
  BY DEF TypeOK
<1>2. Found.ok /\ Found.begin = Len(p) + 1 /\ Found.end = Len(p) + 3
  <2>1. /\ FindFlg(str, from).ok
        /\ FindFlg(str, from).begin = Len(p) + 1
        /\ FindFlg(str, from).end = Len(p) + 3
    BY <1>1, WaitingFound
  <2> QED
    BY <2>1, Zenon DEF Found
<1>3. PICK t \in Chars : AroundMarker(t, p, d, q)
  <2>1. d \in Char
    BY DigitIsNoSign, Zenon
  <2> QED
    BY <2>1, MarkerAt, Zenon
<1>4. str = t
  BY <1>3, Zenon DEF Waiting, AroundMarker
<1>5. PICK L \in Nat : L = Len(p)
  BY CharsLen, Zenon
<1>6. (L + 1) + 1 = L + 2 /\ (L + 3) - 1 = L + 2 /\ (L + 1) - 1 = L /\ (L + 3) + 1 = L + 4
  OBVIOUS
<1>7. Num(Found) = [ok |-> TRUE, val |-> Digit[d]]
  <2>1. SubSeq(str, Found.begin + 1, Found.end - 1) = <<d>>
    BY <1>2, <1>3, <1>4, <1>5, <1>6, Zenon DEF AroundMarker
  <2> QED
    BY <2>1, ToNumOfOne, Zenon DEF Num
<1>8. Num(Found).ok /\ Num(Found).val = Digit[d]
  BY <1>7
<1>9. InVec(Digit[d]) /\ Digit[d] \in Nat
  BY <1>1, DigitValue DEF InVec
<1>10. Replace(Found, Num(Found))
  <2>1. ~PassOver(Found, Num(Found))
    BY <1>8, Zenon DEF PassOver
  <2>2. ~Throw(Num(Found))
    BY <1>8, <1>9, Zenon DEF Throw
  <2> QED
    BY <2>1, <2>2, TurnCases, Zenon
<1>11. /\ str' = ReplaceString(str, vec[n], L + 1, L + 3)
       /\ from' = (L + 3) + Len(vec[n])
  BY <1>2, <1>5, <1>8, <1>10, Zenon DEF Replace, NextFrom
<1>12. str' = SubSeq(t, 1, L) \o vec[n] \o SubSeq(t, L + 4, Len(t))
  BY <1>4, <1>6, <1>11, Zenon DEF ReplaceString
<1>13. str' = (p \o vec[n]) \o q
  BY <1>3, <1>5, <1>12, Zenon DEF AroundMarker
<1>14. vec[n] \in Chars
  BY <1>1, <1>9
<1> QED
  BY <1>5, <1>10, <1>11, <1>13, <1>14, Zenon DEF Replace

LEMMA PlainJoined ==
    ASSUME NEW p, NEW q, Plain(p), Plain(q)
    PROVE  Plain(p \o q)
<1>1. p \in Chars /\ q \in Chars
  BY DEF Plain
<1>2. PICK r \in Chars :
        /\ r = p \o q
        /\ Len(r) = Len(p) + Len(q)
        /\ \A i \in 1..Len(p) : r[i] = p[i]
        /\ \A i \in 1..Len(q) : r[Len(p) + i] = q[i]
  BY <1>1, JoinedAt, Zenon
<1>3. PICK L \in Nat, N \in Nat : L = Len(p) /\ N = Len(q)
  BY <1>1, CharsLen, Zenon
<1>4. ASSUME NEW i \in 1..Len(r)
      PROVE  ~Opens(r, i) /\ ~Closes(r, i)
  <2>1. CASE i =< L
    <3>1. i \in 1..L
      BY <2>1
    <3> QED
      BY <1>2, <1>3, <3>1, Zenon DEF Plain, Opens, Closes
  <2>2. CASE i > L
    <3>1. PICK j \in 1..N : i = L + j
      <4>1. Len(r) = L + N
        BY <1>2, <1>3, Zenon
      <4>2. i - L \in 1..N /\ i = L + (i - L)
        BY <2>2, <4>1
      <4> QED
        BY <4>2, Zenon
    <3> QED
      BY <1>2, <1>3, <3>1, Zenon DEF Plain, Opens, Closes
  <2> QED
    BY <1>3, <2>1, <2>2
<1> QED
  BY <1>2, <1>4, Zenon DEF Plain

\* ... and it waits for the next argument if another marker follows.
LEMMA ThenWaiting ==
    ASSUME NEW p \in Chars, NEW w, NEW d \in Digits, NEW q \in Chars, Plain(w), Len(w) >= 2
    PROVE  Waiting(p \o (w \o (Marker(d) \o q)), Len(p) + 3, p \o w, d, q)
<1>1. w \in Chars /\ d \in Char
  BY DigitIsNoSign DEF Plain
<1>2. Marker(d) \o q \in Chars
  BY <1>1, Markers, Joined, Zenon
<1>3. p \o (w \o (Marker(d) \o q)) = (p \o w) \o (Marker(d) \o q)
  BY <1>1, <1>2, Assoc, Zenon
<1>4. PICK r \in Chars :
        /\ r = p \o w
        /\ Len(r) = Len(p) + Len(w)
        /\ \A i \in 1..Len(p) : r[i] = p[i]
        /\ \A i \in 1..Len(w) : r[Len(p) + i] = w[i]
  BY <1>1, JoinedAt, Zenon
<1>5. PICK L \in Nat, N \in Nat : L = Len(p) /\ N = Len(w)
  BY <1>1, CharsLen, Zenon
<1>6. Len(r) = L + N /\ N >= 2
  BY <1>4, <1>5
<1>7. L + 3 \in 1..(Len(r) + 1)
  BY <1>6
<1>8. ASSUME NEW i \in (L + 3)..Len(r)
      PROVE  ~Opens(r, i)
  <2>1. PICK j \in 1..N : i = L + j
    <3>1. i - L \in 1..N /\ i = L + (i - L)
      BY <1>6
    <3> QED
      BY <3>1, Zenon
  <2> QED
    BY <1>4, <1>5, <2>1, Zenon DEF Plain, Opens
<1> QED
  BY <1>3, <1>4, <1>5, <1>7, <1>8, Zenon DEF Waiting

LEMMA TurnToNext ==
    ASSUME TypeOK, Turn, NEW p \in Chars, NEW d \in Digits, NEW n \in Nat, n = Digit[d] + 1,
           n =< Len(vec), NEW w, NEW e \in Digits, NEW q \in Chars, Plain(w), Len(w) >= 2,
           Waiting(str, from, p, d, w \o (Marker(e) \o q))
    PROVE  /\ Waiting(str', from', (p \o vec[n]) \o w, e, q)
           /\ UNCHANGED <<job, k, sql, stage, vec>>
<1>1. w \o (Marker(e) \o q) \in Chars
  BY DigitIsNoSign, Markers, Joined, Zenon DEF Plain
<1>2. PICK r \in Chars : r = w \o (Marker(e) \o q)
  BY <1>1, Zenon
<1>3. Waiting(str, from, p, d, r)
  BY <1>2, Zenon
<1>4. /\ str' = (p \o vec[n]) \o r
      /\ from' = Len(p) + 3 + Len(vec[n])
      /\ vec[n] \in Chars
      /\ UNCHANGED <<job, k, sql, stage, vec>>
  BY <1>3, TurnWaiting
<1>5. PICK t \in Chars : t = p \o vec[n] /\ Len(t) = Len(p) + Len(vec[n])
  BY <1>4, JoinedAt, Zenon
<1>6. Len(p) + 3 + Len(vec[n]) = Len(t) + 3
  <2>1. PICK a \in Nat, b \in Nat : a = Len(p) /\ b = Len(vec[n])
    BY <1>4, CharsLen, Zenon
  <2>2. a + 3 + b = (a + b) + 3
    OBVIOUS
  <2> QED
    BY <1>5, <2>1, <2>2, Zenon
<1>7. Waiting(t \o (w \o (Marker(e) \o q)), Len(t) + 3, t \o w, e, q)
  BY ThenWaiting, Zenon
<1>8. str' = t \o (w \o (Marker(e) \o q)) /\ from' = Len(t) + 3
  BY <1>2, <1>4, <1>5, <1>6, Zenon
<1> QED
  BY <1>4, <1>5, <1>7, <1>8, Zenon

\* ... or the search passes the end of the text if only two characters follow.
LEMMA TurnToEnd ==
    ASSUME TypeOK, Turn, NEW p \in Chars, NEW d \in Digits, NEW n \in Nat, n = Digit[d] + 1,
           n =< Len(vec), NEW q \in Chars, Len(q) =< 2,
           Waiting(str, from, p, d, q)
    PROVE  /\ str' = (p \o vec[n]) \o q
           /\ Over'
           /\ UNCHANGED <<job, k, sql, stage, vec>>
<1>1. /\ str' = (p \o vec[n]) \o q
      /\ from' = Len(p) + 3 + Len(vec[n])
      /\ vec[n] \in Chars
      /\ UNCHANGED <<job, k, sql, stage, vec>>
  BY TurnWaiting
<1>2. PICK t \in Chars : t = p \o vec[n] /\ Len(t) = Len(p) + Len(vec[n])
  BY <1>1, JoinedAt, Zenon
<1>3. PICK u \in Chars : u = t \o q /\ Len(u) = Len(t) + Len(q)
  BY JoinedAt, Zenon
<1>4. Len(u) < Len(p) + 3 + Len(vec[n])
  <2>1. PICK a \in Nat, b \in Nat, c \in Nat : a = Len(p) /\ b = Len(vec[n]) /\ c = Len(q)
    BY <1>1, CharsLen, Zenon
  <2>2. c =< 2 /\ Len(t) = a + b /\ Len(u) = Len(t) + c
    BY <1>2, <1>3, <2>1, Zenon
  <2>3. Len(u) < a + 3 + b
    BY <2>2
  <2> QED
    BY <2>1, <2>3, Zenon
<1>5. str' = u
  BY <1>1, <1>2, <1>3, Zenon
<1>6. from' > Len(str')
  BY <1>1, <1>4, <1>5
<1> QED
  BY <1>1, <1>6, Zenon DEF Over

\* A text that waits for its next argument is not returned.
LEMMA WaitingGoesOn ==
    ASSUME TypeOK, NEW p \in Chars, NEW q \in Chars, NEW d \in Digits,
           Waiting(str, from, p, d, q)
    PROVE  Found.ok
<1>1. FindFlg(str, from).ok
  BY WaitingFound DEF TypeOK
<1> QED
  BY <1>1, Zenon DEF Found

LEMMA OneLetter ==
    ASSUME NEW c \in Char
    PROVE  \E s \in Chars : s = <<c>> /\ Len(s) = 1 /\ \A i \in 1..Len(s) : s[i] = c
<1>1. Len(<<c>>) = 1 /\ \A i \in 1..1 : <<c>>[i] = c
  OBVIOUS
<1> QED
  BY <1>1, Letter, Zenon

LEMMA TwoLetters ==
    ASSUME NEW c \in Char, NEW d \in Char
    PROVE  \E s \in Chars : /\ s = <<c, d>> /\ Len(s) = 2
                           /\ \A i \in 1..Len(s) : s[i] = c \/ s[i] = d
<1>1. /\ <<c, d>> \in Seq(Char) /\ Len(<<c, d>>) = 2
      /\ \A i \in 1..2 : <<c, d>>[i] = c \/ <<c, d>>[i] = d
  OBVIOUS
<1> QED
  BY <1>1, Zenon DEF Chars

LEMMA PlainLetter ==
    ASSUME NEW c \in Char, c # "{", c # "}"
    PROVE  Plain(<<c>>) /\ Len(<<c>>) = 1
<1>1. PICK s \in Chars : s = <<c>> /\ Len(s) = 1 /\ \A i \in 1..Len(s) : s[i] = c
  BY OneLetter, Zenon
<1>2. \A i \in 1..Len(s) : ~Opens(s, i) /\ ~Closes(s, i)
  BY <1>1, Zenon DEF Opens, Closes
<1> QED
  BY <1>1, <1>2, Zenon DEF Plain

LEMMA PlainPair ==
    ASSUME NEW c \in Char, NEW d \in Char, c # "{", c # "}", d # "{", d # "}"
    PROVE  Plain(<<c, d>>) /\ Len(<<c, d>>) = 2
<1>1. PICK s \in Chars : /\ s = <<c, d>> /\ Len(s) = 2
                       /\ \A i \in 1..Len(s) : s[i] = c \/ s[i] = d
  BY TwoLetters, Zenon
<1>2. \A i \in 1..Len(s) : ~Opens(s, i) /\ ~Closes(s, i)
  BY <1>1, Zenon DEF Opens, Closes
<1> QED
  BY <1>1, <1>2, Zenon DEF Plain

\* The words of the templates.
LEMMA Words ==
    /\ Plain(<<"I">>) /\ Plain(<<"U">>) /\ Plain(<<"D">>)
    /\ Plain(<<"t">>) /\ Plain(<<"i">>) /\ Plain(<<"u">>) /\ Plain(<<",">>)
    /\ Plain(<<"V", "(">>) /\ Plain(<<"S", "E">>) /\ Plain(<<"W", "H">>)
    /\ Plain(<<"=", " ">>) /\ Plain(<<";", " ">>) /\ Plain(<<")", ";">>)
    /\ Len(<<"V", "(">>) = 2 /\ Len(<<"S", "E">>) = 2 /\ Len(<<"W", "H">>) = 2
    /\ Len(<<"=", " ">>) = 2 /\ Len(<<";", " ">>) = 2 /\ Len(<<")", ";">>) = 2
<1>1. /\ Plain(<<"I">>) /\ Plain(<<"U">>) /\ Plain(<<"D">>)
      /\ Plain(<<"t">>) /\ Plain(<<"i">>) /\ Plain(<<"u">>) /\ Plain(<<",">>)
  BY KnownChars, PlainLetter
<1>2. Plain(<<"V", "(">>) /\ Len(<<"V", "(">>) = 2
  BY KnownChars, PlainPair
<1>3. Plain(<<"S", "E">>) /\ Len(<<"S", "E">>) = 2
  BY KnownChars, PlainPair
<1>4. Plain(<<"W", "H">>) /\ Len(<<"W", "H">>) = 2
  BY KnownChars, PlainPair
<1>5. Plain(<<"=", " ">>) /\ Len(<<"=", " ">>) = 2
  BY KnownChars, PlainPair
<1>6. Plain(<<";", " ">>) /\ Len(<<";", " ">>) = 2
  BY KnownChars, PlainPair
<1>7. Plain(<<")", ";">>) /\ Len(<<")", ";">>) = 2
  BY KnownChars, PlainPair
<1> QED
  BY <1>1, <1>2, <1>3, <1>4, <1>5, <1>6, <1>7

LEMMA PlainWaiting ==
    ASSUME NEW p, NEW d, NEW q, Plain(p)
    PROVE  Waiting(p \o (Marker(d) \o q), 1, p, d, q)
<1>1. 1 \in 1..(Len(p) + 1)
  BY CharsLen DEF Plain
<1> QED
  BY <1>1, Zenon DEF Waiting, Plain

\* Texts are put together in any order.
Cat(s, t) == s \o t

LEMMA CatLaws ==
    /\ \A a, b \in Chars : Cat(a, b) \in Chars
    /\ \A a, b, c \in Chars : Cat(Cat(a, b), c) = Cat(a, Cat(b, c))
    /\ \A a, b, c, d \in Chars : Cat(Cat(Cat(a, b), c), d) = Cat(a, Cat(b, Cat(c, d)))
<1>1. \A a, b \in Chars : Cat(a, b) \in Chars
  BY Joined, Zenon DEF Cat
<1>2. \A a, b, c \in Chars : Cat(Cat(a, b), c) = Cat(a, Cat(b, c))
  BY Assoc DEF Cat
<1>3. \A a, b, c, d \in Chars : Cat(Cat(Cat(a, b), c), d) = Cat(a, Cat(b, Cat(c, d)))
  BY <1>1, <1>2
<1> QED
  BY <1>1, <1>2, <1>3

\* The digits of the markers, and the markers, are texts; the words are.
LEMMA Parts ==
    /\ Marker("0") \in Chars /\ Marker("1") \in Chars /\ Marker("2") \in Chars
    /\ Marker("3") \in Chars /\ Marker("4") \in Chars
    /\ <<"I">> \in Chars /\ <<"U">> \in Chars /\ <<"D">> \in Chars
    /\ <<"t">> \in Chars /\ <<"i">> \in Chars /\ <<"u">> \in Chars /\ <<",">> \in Chars
    /\ <<"V", "(">> \in Chars /\ <<"S", "E">> \in Chars /\ <<"W", "H">> \in Chars
    /\ <<"=", " ">> \in Chars /\ <<";", " ">> \in Chars /\ <<")", ";">> \in Chars
<1>1. /\ Marker("0") \in Chars /\ Marker("1") \in Chars /\ Marker("2") \in Chars
      /\ Marker("3") \in Chars /\ Marker("4") \in Chars
  BY KnownChars, Markers, Zenon
<1>2. /\ <<"I">> \in Chars /\ <<"U">> \in Chars /\ <<"D">> \in Chars
      /\ <<"t">> \in Chars /\ <<"i">> \in Chars /\ <<"u">> \in Chars /\ <<",">> \in Chars
      /\ <<"V", "(">> \in Chars /\ <<"S", "E">> \in Chars /\ <<"W", "H">> \in Chars
      /\ <<"=", " ">> \in Chars /\ <<";", " ">> \in Chars /\ <<")", ";">> \in Chars
  BY Words, Zenon DEF Plain
<1> QED
  BY <1>1, <1>2
-----------------------------------------------------------------------------
(***************************************************************************)
(* delete_db.                                                              *)
(***************************************************************************)
LEMMA DeleteTexts ==
    /\ DeleteRest0 \in Chars /\ DeleteRest1 \in Chars /\ DeleteRest2 \in Chars
    /\ DeleteDone1 \in Chars /\ Plain(DeleteDone2) /\ Len(DeleteRest2) = 2
<1>1. DeleteRest2 \in Chars /\ Len(DeleteRest2) = 2
  BY Parts, Words, Zenon DEF DeleteRest2
<1>2. DeleteRest1 \in Chars
  BY <1>1, Parts, Joined, Zenon DEF DeleteRest1
<1>3. DeleteRest0 \in Chars
  BY <1>2, Parts, Joined, Zenon DEF DeleteRest0
<1>4. Plain(DeleteDone1)
  BY Words, PlainJoined, Zenon DEF DeleteDone1
<1>5. Plain(DeleteDone2)
  BY <1>4, Words, PlainJoined, Zenon DEF DeleteDone2
<1> QED
  BY <1>1, <1>2, <1>3, <1>4, <1>5, Zenon DEF Plain

LEMMA DeleteShapeIs == DeleteShape = <<"D">> \o (Marker("0") \o DeleteRest0)
<1>1. PICK D \in Chars, m0 \in Chars, w \in Chars, m1 \in Chars, e \in Chars, m2 \in Chars,
           r \in Chars :
        /\ D = <<"D">> /\ m0 = Marker("0") /\ w = <<"W", "H">> /\ m1 = Marker("1")
        /\ e = <<"=", " ">> /\ m2 = Marker("2") /\ r = <<";", " ">>
  BY Parts, Zenon
<1>2. DeleteShape = Cat(Cat(Cat(Cat(Cat(Cat(D, m0), w), m1), e), m2), r)
  BY <1>1, Zenon DEF DeleteShape, Cat
<1>3. DeleteRest0 = Cat(w, Cat(m1, Cat(e, Cat(m2, r))))
  BY <1>1, Zenon DEF DeleteRest0, DeleteRest1, DeleteRest2, Cat
<1>4. PICK x \in Chars : x = Cat(Cat(D, m0), w)
  BY CatLaws
<1>5. PICK z \in Chars : z = Cat(Cat(x, m1), e)
  BY CatLaws
<1>6. PICK y \in Chars : y = Cat(m2, r)
  BY CatLaws
<1>7. PICK v \in Chars : v = Cat(m1, Cat(e, y))
  BY CatLaws
<1>8. \A a, b, c, d \in Chars : Cat(Cat(Cat(a, b), c), d) = Cat(a, Cat(b, Cat(c, d)))
  BY CatLaws
<1>9. Cat(Cat(z, m2), r) = Cat(z, y)
  BY <1>6, CatLaws
<1>10. Cat(z, y) = Cat(x, v)
  BY <1>5, <1>7, <1>8
<1>11. Cat(x, v) = Cat(D, Cat(m0, Cat(w, v)))
  BY <1>4, <1>8
<1>12. DeleteShape = Cat(D, Cat(m0, DeleteRest0))
  BY <1>2, <1>3, <1>4, <1>5, <1>6, <1>7, <1>9, <1>10, <1>11, Zenon
<1> QED
  BY <1>1, <1>12, Zenon DEF Cat

LEMMA DeleteExpected ==
    ASSUME job.op = "delete"
    PROVE  Expected = (DeleteDone2 \o job.row[1].chars) \o DeleteRest2 /\ SafeRow
<1>1. job.op # "insert" /\ job.op # "update"
  OBVIOUS
<1>2. Expected = <<"D">> \o <<"t">> \o <<"W", "H">> \o <<"i">> \o <<"=", " ">>
                 \o job.row[1].chars \o <<";", " ">>
  BY <1>1, Zenon DEF Expected
<1> QED
  BY <1>1, <1>2, Zenon DEF DeleteDone2, DeleteDone1, DeleteRest2, SafeRow

\* Nothing is claimed of a statement before it is executed.
LEMMA StillRunning ==
    ASSUME stage' \in Running
    PROVE  InsertFaithful'
<1>1. stage' # "exec" /\ stage' # "thrown"
  BY DEF Running
<1> QED
  BY <1>1, Zenon DEF InsertFaithful

LEMMA SameJob ==
    ASSUME job' = job
    PROVE  Expected' = Expected /\ SafeRow' = SafeRow
  BY DEF Expected, SafeRow

LEMMA NumberQuoted ==
    ASSUME NEW v \in Numbers, NEW s
    PROVE  Quoted(v, s) = s
  BY NumberText, Zenon DEF Quoted

LEMMA DeletingInit ==
    ASSUME Init, job.op = "delete"
    PROVE  Deleting
<1>1. job.op # "insert" /\ job.op # "update"
  OBVIOUS
<1>2. /\ job \in Job /\ stage = "shape" /\ str = DeleteShape /\ from = 1
      /\ vec = << <<"t">>, <<"i">>, Quoted(job.row[1], Marker("0")) >>
  BY <1>1, Zenon DEF Init
<1>3. Quoted(job.row[1], Marker("0")) = Marker("0")
  BY <1>2, JobRow, NumberQuoted, Zenon
<1>4. Waiting(str, from, <<"D">>, "0", DeleteRest0)
  BY <1>2, DeleteShapeIs, Words, PlainWaiting, Zenon
<1>5. stage # "fill"
  BY <1>2
<1> QED
  BY <1>2, <1>3, <1>4, <1>5, Zenon DEF Deleting

\* A turn of the loop puts the next argument in; none is left out, none is put in
\* for another, and nothing throws.
LEMMA DeletingTurn ==
    ASSUME TypeOK, Deleting, job.op = "delete", Turn
    PROVE  Deleting' /\ stage' \in Running
<1>1. stage = "shape" \/ stage = "fill"
  BY TurnCases DEF Deleting, Running
<1>2. 1 = Digit["0"] + 1 /\ 2 = Digit["1"] + 1 /\ 3 = Digit["2"] + 1
  BY DigitValue
<1>3. Plain(<<"W", "H">>) /\ Len(<<"W", "H">>) >= 2 /\ Plain(<<"=", " ">>) /\ Len(<<"=", " ">>) >= 2
  <2>1. 2 >= 2
    OBVIOUS
  <2> QED
    BY <2>1, Words, Zenon
<1>4. "0" \in Digits /\ "1" \in Digits /\ "2" \in Digits
  BY DigitValue
<1>5. ~Over
  BY TurnCases, OverDone, Zenon
<1>6. /\ <<"D">> \in Chars /\ DeleteDone1 \in Chars /\ DeleteDone2 \in Chars
      /\ DeleteRest1 \in Chars /\ DeleteRest2 \in Chars /\ Len(DeleteRest2) =< 2
  <2>1. 2 =< 2
    OBVIOUS
  <2> QED
    BY <2>1, Parts, DeleteTexts, Zenon DEF Plain
<1>7. CASE stage = "shape"
  <2>1. PICK t \in Chars, i \in Chars, m \in Chars :
          t = <<"t">> /\ i = <<"i">> /\ m = Marker("0") /\ vec = <<t, i, m>>
    BY <1>7, Parts, Zenon DEF Deleting
  <2>2. /\ vec[1] = t /\ vec[2] = i /\ vec[3] = m
        /\ 1 =< Len(vec) /\ 2 =< Len(vec) /\ 3 =< Len(vec)
    BY <2>1
  <2>3. CASE Waiting(str, from, <<"D">>, "0", DeleteRest0)
    <3>1. /\ Waiting(str', from', (<<"D">> \o vec[1]) \o <<"W", "H">>, "1", DeleteRest1)
          /\ UNCHANGED <<job, k, sql, stage, vec>>
      <4>1. Waiting(str, from, <<"D">>, "0", <<"W", "H">> \o (Marker("1") \o DeleteRest1))
        BY <2>3, Zenon DEF DeleteRest0
      <4> QED
        BY <1>2, <1>4, <1>6, <1>3, <2>2, <4>1, TurnToNext, Zenon
    <3>2. Waiting(str', from', DeleteDone1, "1", DeleteRest1)
      BY <2>1, <2>2, <3>1, Zenon DEF DeleteDone1
    <3> QED
      BY <1>7, <2>1, <3>1, <3>2 DEF Deleting, Running
  <2>4. CASE Waiting(str, from, DeleteDone1, "1", DeleteRest1)
    <3>1. /\ Waiting(str', from', (DeleteDone1 \o vec[2]) \o <<"=", " ">>, "2", DeleteRest2)
          /\ UNCHANGED <<job, k, sql, stage, vec>>
      <4>1. Waiting(str, from, DeleteDone1, "1", <<"=", " ">> \o (Marker("2") \o DeleteRest2))
        BY <2>4, Zenon DEF DeleteRest1
      <4> QED
        BY <1>2, <1>4, <1>6, <1>3, <2>2, <4>1, TurnToNext, Zenon
    <3>2. Waiting(str', from', DeleteDone2, "2", DeleteRest2)
      BY <2>1, <2>2, <3>1, Zenon DEF DeleteDone2
    <3> QED
      BY <1>7, <2>1, <3>1, <3>2 DEF Deleting, Running
  <2>5. CASE Waiting(str, from, DeleteDone2, "2", DeleteRest2)
    <3>1. /\ str' = (DeleteDone2 \o vec[3]) \o DeleteRest2
          /\ Over'
          /\ UNCHANGED <<job, k, sql, stage, vec>>
      BY <1>2, <1>4, <1>6, <2>2, <2>5, TurnToEnd, Zenon
    <3> QED
      BY <1>7, <2>1, <2>2, <3>1 DEF Deleting, Running
  <2> QED
    BY <1>5, <1>7, <2>3, <2>4, <2>5, Zenon DEF Deleting
<1>8. CASE stage = "fill"
  <2>1. job.row[1].chars \in Chars
    BY JobRow, NumberText, Zenon DEF TypeOK
  <2>2. PICK a \in Chars : a = job.row[1].chars /\ vec = <<a>>
    BY <1>8, <2>1, Zenon DEF Deleting
  <2>3. vec[1] = a /\ 1 =< Len(vec)
    BY <2>2
  <2>4. Waiting(str, from, DeleteDone2, "0", DeleteRest2)
    BY <1>5, <1>8, Zenon DEF Deleting
  <2>5. /\ str' = (DeleteDone2 \o vec[1]) \o DeleteRest2
        /\ Over'
        /\ UNCHANGED <<job, k, sql, stage, vec>>
    BY <1>2, <1>4, <1>6, <2>3, <2>4, TurnToEnd, Zenon
  <2>6. str' = Expected'
    BY <2>2, <2>3, <2>5, DeleteExpected, SameJob, Zenon
  <2> QED
    BY <1>8, <2>2, <2>5, <2>6 DEF Deleting, Running
<1> QED
  BY <1>1, <1>7, <1>8

\* What comes out of the first call goes into the second, and what comes out of
\* that is executed.
LEMMA DeletingCall ==
    ASSUME TypeOK, Deleting, job.op = "delete",
           InsertTable \/ Splice \/ NextValue \/ FillValues \/ Exec
    PROVE  Deleting' /\ InsertFaithful'
<1>1. stage # "table" /\ stage # "value" /\ stage # "splice"
  BY DEF Deleting
<1>2. "0" \in Digits /\ "1" \in Digits /\ "2" \in Digits
  BY DigitValue
<1>3. /\ <<"D">> \in Chars /\ DeleteDone1 \in Chars /\ DeleteDone2 \in Chars
      /\ DeleteRest0 \in Chars /\ DeleteRest1 \in Chars /\ DeleteRest2 \in Chars
  BY Parts, DeleteTexts DEF Plain
<1>4. CASE FillValues
  <2>1. /\ stage = "shape" /\ ~Found.ok
        /\ str' = str /\ from' = 1 /\ stage' = "fill" /\ UNCHANGED <<job, k, sql>>
        /\ vec' = [n \in DOMAIN job.row |-> job.row[n].chars]
    BY <1>4, Zenon DEF FillValues, Return, Call
  <2>2. str = (DeleteDone2 \o Marker("0")) \o DeleteRest2
    BY <1>2, <1>3, <2>1, WaitingGoesOn, Zenon DEF Deleting
  <2>3. (DeleteDone2 \o Marker("0")) \o DeleteRest2 = DeleteDone2 \o (Marker("0") \o DeleteRest2)
    <3>1. PICK m \in Chars : m = Marker("0")
      BY Parts, Zenon
    <3>2. PICK p \in Chars, q \in Chars : p = DeleteDone2 /\ q = DeleteRest2
      BY <1>3, Zenon
    <3>3. (p \o m) \o q = p \o (m \o q)
      BY Assoc
    <3> QED
      BY <3>1, <3>2, <3>3, Zenon
  <2>4. Waiting(str', from', DeleteDone2, "0", DeleteRest2)
    BY <2>1, <2>2, <2>3, DeleteTexts, PlainWaiting, Zenon
  <2>5. PICK row \in Seq(Values) : row = job.row /\ Len(row) = 1
    BY JobRow, Zenon DEF TypeOK
  <2>6. [n \in DOMAIN row |-> row[n].chars] = <<row[1].chars>>
    BY <2>5
  <2>7. vec' = <<job'.row[1].chars>>
    BY <2>1, <2>5, <2>6, Zenon
  <2>8. Deleting'
    BY <2>1, <2>4, <2>7 DEF Deleting
  <2> QED
    BY <2>1, <2>8, StillRunning DEF Running
<1>5. CASE Exec
  <2>1. /\ stage = "fill" /\ ~Found.ok /\ stage' = "exec"
        /\ UNCHANGED <<job, k, sql, str, vec, val, from>>
    BY <1>1, <1>5, Zenon DEF Exec, Return
  <2>2. str = Expected
    BY <1>2, <1>3, <2>1, WaitingGoesOn, Zenon DEF Deleting
  <2>3. Expected' = Expected /\ SafeRow' = SafeRow
    BY <2>1, SameJob
  <2>4. str' = Expected' /\ SafeRow'
    BY <2>1, <2>2, <2>3, DeleteExpected
  <2>5. stage' # "shape" /\ stage' # "fill" /\ stage' # "thrown"
    BY <2>1
  <2> QED
    BY <2>1, <2>4, <2>5, Zenon DEF Deleting, InsertFaithful
<1> QED
  BY <1>1, <1>4, <1>5, Zenon DEF InsertTable, Splice, NextValue, Return
-----------------------------------------------------------------------------
(***************************************************************************)
(* update_db, in the same way.                                             *)
(***************************************************************************)
LEMMA MiddleText == Plain(Middle) /\ Len(Middle) >= 2
<1>1. Plain(<<"W", "H">> \o <<"i">>)
  BY Words, PlainJoined, Zenon
<1>2. PICK p \in Chars, e \in Chars : p = <<"W", "H">> \o <<"i">> /\ e = <<"=", " ">> /\ Len(e) = 2
  BY <1>1, Words, Zenon DEF Plain
<1>3. PICK r \in Chars : r = p \o e /\ Len(r) = Len(p) + Len(e)
  BY JoinedAt, Zenon
<1>4. Len(r) >= 2
  <2>1. PICK a \in Nat : a = Len(p)
    BY CharsLen, Zenon
  <2>2. Len(r) = a + 2
    BY <1>2, <1>3, <2>1, Zenon
  <2>3. a + 2 >= 2
    OBVIOUS
  <2> QED
    BY <2>2, <2>3, Zenon
<1>5. Middle = r
  BY <1>2, <1>3, Zenon DEF Middle
<1> QED
  BY <1>1, <1>4, <1>5, Words, PlainJoined, Zenon DEF Middle

LEMMA UpdateTexts ==
    /\ UpdateRest0 \in Chars /\ UpdateRest1 \in Chars /\ UpdateRest2 \in Chars
    /\ UpdateRest3 \in Chars /\ UpdateRest4 \in Chars /\ Len(UpdateRest4) = 2
    /\ UpdateDone1 \in Chars /\ Plain(UpdateDone2)
    /\ UpdateDone3 \in Chars /\ UpdateDone4 \in Chars
<1>1. UpdateRest4 \in Chars /\ Len(UpdateRest4) = 2
  BY Parts, Words, Zenon DEF UpdateRest4
<1>2. UpdateRest3 \in Chars
  BY <1>1, Parts, Joined, Zenon DEF UpdateRest3
<1>3. UpdateRest2 \in Chars
  BY <1>2, Parts, Joined, Zenon DEF UpdateRest2
<1>4. UpdateRest1 \in Chars
  BY <1>3, Parts, Joined, Zenon DEF UpdateRest1
<1>5. UpdateRest0 \in Chars
  BY <1>4, Parts, Joined, Zenon DEF UpdateRest0
<1>6. Plain(UpdateDone1)
  BY Words, PlainJoined, Zenon DEF UpdateDone1
<1>7. Plain(UpdateDone2)
  BY <1>6, Words, PlainJoined, Zenon DEF UpdateDone2
<1>8. UpdateDone2 \in Chars
  BY <1>7, Zenon DEF Plain
<1>9. UpdateDone3 \in Chars
  BY <1>8, Parts, Joined, Zenon DEF UpdateDone3
<1>10. UpdateDone4 \in Chars
  BY <1>9, Parts, Joined, Zenon DEF UpdateDone4
<1> QED
  BY <1>1, <1>2, <1>3, <1>4, <1>5, <1>6, <1>7, <1>9, <1>10, Zenon DEF Plain

LEMMA UpdateShapeIs == UpdateShape = <<"U">> \o (Marker("0") \o UpdateRest0)
<1>1. PICK U \in Chars, S \in Chars, E \in Chars, W \in Chars, R \in Chars :
        /\ U = <<"U">> /\ S = <<"S", "E">> /\ E = <<"=", " ">> /\ W = <<"W", "H">>
        /\ R = <<";", " ">>
  BY Parts, Zenon
<1>2. PICK m0 \in Chars, m1 \in Chars, m2 \in Chars, m3 \in Chars, m4 \in Chars :
        /\ m0 = Marker("0") /\ m1 = Marker("1") /\ m2 = Marker("2") /\ m3 = Marker("3")
        /\ m4 = Marker("4")
  BY Parts, Zenon
<1>3. UpdateShape = Cat(Cat(Cat(Cat(Cat(Cat(Cat(Cat(Cat(Cat(
                      U, m0), S), m1), E), m2), W), m3), E), m4), R)
  BY <1>1, <1>2, Zenon DEF UpdateShape, Cat
<1>4. UpdateRest0 = Cat(S, Cat(m1, Cat(E, Cat(m2, Cat(W, Cat(m3, Cat(E, Cat(m4, R))))))))
  BY <1>1, <1>2, Zenon DEF UpdateRest0, UpdateRest1, UpdateRest2, UpdateRest3, UpdateRest4, Cat
<1>5. PICK x1 \in Chars : x1 = Cat(Cat(U, m0), S)
  BY CatLaws
<1>6. PICK x2 \in Chars : x2 = Cat(Cat(x1, m1), E)
  BY CatLaws
<1>7. PICK x3 \in Chars : x3 = Cat(Cat(x2, m2), W)
  BY CatLaws
<1>8. PICK x4 \in Chars : x4 = Cat(Cat(x3, m3), E)
  BY CatLaws
<1>9. PICK y4 \in Chars : y4 = Cat(m4, R)
  BY CatLaws
<1>10. PICK y3 \in Chars : y3 = Cat(m3, Cat(E, y4))
  BY CatLaws
<1>11. PICK y2 \in Chars : y2 = Cat(m2, Cat(W, y3))
  BY CatLaws
<1>12. PICK y1 \in Chars : y1 = Cat(m1, Cat(E, y2))
  BY CatLaws
<1>13. Cat(Cat(x4, m4), R) = Cat(x4, y4)
  BY <1>9, CatLaws
<1>14. \A a, b, c, d \in Chars : Cat(Cat(Cat(a, b), c), d) = Cat(a, Cat(b, Cat(c, d)))
  BY CatLaws
<1>15. Cat(x4, y4) = Cat(x3, y3)
  BY <1>8, <1>10, <1>14
<1>16. Cat(x3, y3) = Cat(x2, y2)
  BY <1>7, <1>11, <1>14
<1>17. Cat(x2, y2) = Cat(x1, y1)
  BY <1>6, <1>12, <1>14
<1>18. Cat(x1, y1) = Cat(U, Cat(m0, Cat(S, y1)))
  BY <1>5, <1>14
<1>19. UpdateShape = Cat(Cat(x4, m4), R)
  BY <1>3, <1>5, <1>6, <1>7, <1>8, Zenon
<1>20. UpdateRest0 = Cat(S, y1)
  BY <1>4, <1>9, <1>10, <1>11, <1>12, Zenon
<1>21. UpdateShape = Cat(U, Cat(m0, UpdateRest0))
  BY <1>13, <1>15, <1>16, <1>17, <1>18, <1>19, <1>20, Zenon
<1> QED
  BY <1>1, <1>2, <1>21, Zenon DEF Cat

\* The words between the two values.
LEMMA MiddleJoined ==
    ASSUME NEW x \in Chars
    PROVE  ((x \o <<"W", "H">>) \o <<"i">>) \o <<"=", " ">> = x \o Middle
<1>1. PICK W \in Chars, i \in Chars, E \in Chars :
        W = <<"W", "H">> /\ i = <<"i">> /\ E = <<"=", " ">>
  BY Parts, Zenon
<1>2. Cat(Cat(Cat(x, W), i), E) = Cat(x, Cat(Cat(W, i), E))
  BY CatLaws
<1> QED
  BY <1>1, <1>2, Zenon DEF Middle, Cat

LEMMA UpdateExpected ==
    ASSUME job.op = "update", job.row[1].chars \in Chars
    PROVE  Expected = (Half(job.row) \o job.row[2].chars) \o UpdateRest4 /\ SafeRow
<1>1. job.op # "insert" /\ job.op # "delete"
  OBVIOUS
<1>2. PICK x : x = UpdateDone2 \o job.row[1].chars
  OBVIOUS
<1>3. x \in Chars
  BY <1>2, UpdateTexts, Joined, Zenon DEF Plain
<1>4. Expected = (((x \o <<"W", "H">>) \o <<"i">>) \o <<"=", " ">>)
                 \o job.row[2].chars \o UpdateRest4
  BY <1>1, <1>2, Zenon DEF Expected, UpdateDone2, UpdateDone1, UpdateRest4
<1>5. Expected = ((x \o Middle) \o job.row[2].chars) \o UpdateRest4
  BY <1>3, <1>4, MiddleJoined, Zenon
<1> QED
  BY <1>1, <1>2, <1>5, Zenon DEF Half, SafeRow

LEMMA UpdatingInit ==
    ASSUME Init, job.op = "update"
    PROVE  Updating
<1>1. job.op # "insert" /\ job.op # "delete"
  OBVIOUS
<1>2. /\ job \in Job /\ stage = "shape" /\ str = UpdateShape /\ from = 1
      /\ vec = << <<"t">>, <<"u">>, Quoted(job.row[1], Marker("0")),
                  <<"i">>, Quoted(job.row[2], Marker("1")) >>
  BY <1>1, Zenon DEF Init
<1>3. /\ Quoted(job.row[1], Marker("0")) = Marker("0")
      /\ Quoted(job.row[2], Marker("1")) = Marker("1")
  BY <1>2, JobRow, NumberQuoted, Zenon
<1>4. Waiting(str, from, <<"U">>, "0", UpdateRest0)
  BY <1>2, UpdateShapeIs, Words, PlainWaiting, Zenon
<1>5. stage # "fill"
  BY <1>2
<1> QED
  BY <1>2, <1>3, <1>4, <1>5, Zenon DEF Updating

LEMMA UpdatingTurn ==
    ASSUME TypeOK, Updating, job.op = "update", Turn
    PROVE  Updating' /\ stage' \in Running
<1>1. stage = "shape" \/ stage = "fill"
  BY TurnCases DEF Updating, Running
<1>2. /\ 1 = Digit["0"] + 1 /\ 2 = Digit["1"] + 1 /\ 3 = Digit["2"] + 1
      /\ 4 = Digit["3"] + 1 /\ 5 = Digit["4"] + 1
  BY DigitValue
<1>3. "0" \in Digits /\ "1" \in Digits /\ "2" \in Digits /\ "3" \in Digits /\ "4" \in Digits
  BY DigitValue
<1>4. ~Over
  BY TurnCases, OverDone, Zenon
<1>5. /\ <<"U">> \in Chars /\ UpdateDone1 \in Chars /\ UpdateDone2 \in Chars
      /\ UpdateDone3 \in Chars /\ UpdateDone4 \in Chars
      /\ UpdateRest1 \in Chars /\ UpdateRest2 \in Chars /\ UpdateRest3 \in Chars
      /\ UpdateRest4 \in Chars /\ Len(UpdateRest4) =< 2
  <2>1. 2 =< 2
    OBVIOUS
  <2> QED
    BY <2>1, Parts, UpdateTexts, Zenon DEF Plain
<1>6. /\ Plain(<<"W", "H">>) /\ Len(<<"W", "H">>) >= 2 /\ Plain(<<"=", " ">>)
      /\ Len(<<"=", " ">>) >= 2 /\ Plain(<<"S", "E">>) /\ Len(<<"S", "E">>) >= 2
  <2>1. 2 >= 2
    OBVIOUS
  <2> QED
    BY <2>1, Words, Zenon
<1>7. CASE stage = "shape"
  <2>1. PICK t \in Chars, u \in Chars, m \in Chars, i \in Chars, n \in Chars :
          /\ t = <<"t">> /\ u = <<"u">> /\ m = Marker("0") /\ i = <<"i">> /\ n = Marker("1")
          /\ vec = <<t, u, m, i, n>>
    BY <1>7, Parts, Zenon DEF Updating
  <2>2. /\ vec[1] = t /\ vec[2] = u /\ vec[3] = m /\ vec[4] = i /\ vec[5] = n
        /\ 1 =< Len(vec) /\ 2 =< Len(vec) /\ 3 =< Len(vec) /\ 4 =< Len(vec) /\ 5 =< Len(vec)
    BY <2>1
  <2>3. CASE Waiting(str, from, <<"U">>, "0", UpdateRest0)
    <3>1. /\ Waiting(str', from', (<<"U">> \o vec[1]) \o <<"S", "E">>, "1", UpdateRest1)
          /\ UNCHANGED <<job, k, sql, stage, vec>>
      <4>1. Waiting(str, from, <<"U">>, "0", <<"S", "E">> \o (Marker("1") \o UpdateRest1))
        BY <2>3, Zenon DEF UpdateRest0
      <4> QED
        BY <1>2, <1>3, <1>5, <1>6, <2>2, <4>1, TurnToNext, Zenon
    <3>2. Waiting(str', from', UpdateDone1, "1", UpdateRest1)
      BY <2>1, <2>2, <3>1, Zenon DEF UpdateDone1
    <3> QED
      BY <1>7, <2>1, <3>1, <3>2 DEF Updating, Running
  <2>4. CASE Waiting(str, from, UpdateDone1, "1", UpdateRest1)
    <3>1. /\ Waiting(str', from', (UpdateDone1 \o vec[2]) \o <<"=", " ">>, "2", UpdateRest2)
          /\ UNCHANGED <<job, k, sql, stage, vec>>
      <4>1. Waiting(str, from, UpdateDone1, "1", <<"=", " ">> \o (Marker("2") \o UpdateRest2))
        BY <2>4, Zenon DEF UpdateRest1
      <4> QED
        BY <1>2, <1>3, <1>5, <1>6, <2>2, <4>1, TurnToNext, Zenon
    <3>2. Waiting(str', from', UpdateDone2, "2", UpdateRest2)
      BY <2>1, <2>2, <3>1, Zenon DEF UpdateDone2
    <3> QED
      BY <1>7, <2>1, <3>1, <3>2 DEF Updating, Running
  <2>5. CASE Waiting(str, from, UpdateDone2, "2", UpdateRest2)
    <3>1. /\ Waiting(str', from', (UpdateDone2 \o vec[3]) \o <<"W", "H">>, "3", UpdateRest3)
          /\ UNCHANGED <<job, k, sql, stage, vec>>
      <4>1. Waiting(str, from, UpdateDone2, "2", <<"W", "H">> \o (Marker("3") \o UpdateRest3))
        BY <2>5, Zenon DEF UpdateRest2
      <4> QED
        BY <1>2, <1>3, <1>5, <1>6, <2>2, <4>1, TurnToNext, Zenon
    <3>2. Waiting(str', from', UpdateDone3, "3", UpdateRest3)
      BY <2>1, <2>2, <3>1, Zenon DEF UpdateDone3
    <3> QED
      BY <1>7, <2>1, <3>1, <3>2 DEF Updating, Running
  <2>6. CASE Waiting(str, from, UpdateDone3, "3", UpdateRest3)
    <3>1. /\ Waiting(str', from', (UpdateDone3 \o vec[4]) \o <<"=", " ">>, "4", UpdateRest4)
          /\ UNCHANGED <<job, k, sql, stage, vec>>
      <4>1. Waiting(str, from, UpdateDone3, "3", <<"=", " ">> \o (Marker("4") \o UpdateRest4))
        BY <2>6, Zenon DEF UpdateRest3
      <4> QED
        BY <1>2, <1>3, <1>5, <1>6, <2>2, <4>1, TurnToNext, Zenon
    <3>2. Waiting(str', from', UpdateDone4, "4", UpdateRest4)
      BY <2>1, <2>2, <3>1, Zenon DEF UpdateDone4
    <3> QED
      BY <1>7, <2>1, <3>1, <3>2 DEF Updating, Running
  <2>7. CASE Waiting(str, from, UpdateDone4, "4", UpdateRest4)
    <3>1. /\ str' = (UpdateDone4 \o vec[5]) \o UpdateRest4
          /\ Over'
          /\ UNCHANGED <<job, k, sql, stage, vec>>
      BY <1>2, <1>3, <1>5, <2>2, <2>7, TurnToEnd, Zenon
    <3> QED
      BY <1>7, <2>1, <2>2, <3>1 DEF Updating, Running
  <2> QED
    BY <1>4, <1>7, <2>3, <2>4, <2>5, <2>6, <2>7, Zenon DEF Updating
<1>8. CASE stage = "fill"
  <2>1. job.row[1].chars \in Chars /\ job.row[2].chars \in Chars
    BY JobRow, NumberText, Zenon DEF TypeOK
  <2>2. PICK a \in Chars, b \in Chars :
          a = job.row[1].chars /\ b = job.row[2].chars /\ vec = <<a, b>>
    BY <1>8, <2>1, Zenon DEF Updating
  <2>3. vec[1] = a /\ vec[2] = b /\ 1 =< Len(vec) /\ 2 =< Len(vec)
    BY <2>2
  <2>4. CASE Waiting(str, from, UpdateDone2, "0", Middle \o (Marker("1") \o UpdateRest4))
    <3>1. /\ Waiting(str', from', (UpdateDone2 \o vec[1]) \o Middle, "1", UpdateRest4)
          /\ UNCHANGED <<job, k, sql, stage, vec>>
      BY <1>2, <1>3, <1>5, <2>3, <2>4, MiddleText, TurnToNext, Zenon
    <3>2. Waiting(str', from', Half(job'.row), "1", UpdateRest4)
      BY <2>2, <2>3, <3>1, Zenon DEF Half
    <3> QED
      BY <1>8, <2>2, <3>1, <3>2 DEF Updating, Running
  <2>5. CASE Waiting(str, from, Half(job.row), "1", UpdateRest4)
    <3>1. Half(job.row) \in Chars
      BY <1>5, <2>1, MiddleText, Joined, Zenon DEF Half, Plain
    <3>2. /\ str' = (Half(job.row) \o vec[2]) \o UpdateRest4
          /\ Over'
          /\ UNCHANGED <<job, k, sql, stage, vec>>
      BY <1>2, <1>3, <1>5, <2>3, <2>5, <3>1, TurnToEnd, Zenon
    <3>3. str' = Expected'
      BY <2>1, <2>2, <2>3, <3>2, UpdateExpected, SameJob, Zenon
    <3> QED
      BY <1>8, <2>2, <3>2, <3>3 DEF Updating, Running
  <2> QED
    BY <1>4, <1>8, <2>4, <2>5, Zenon DEF Updating
<1> QED
  BY <1>1, <1>7, <1>8

LEMMA UpdatingCall ==
    ASSUME TypeOK, Updating, job.op = "update",
           InsertTable \/ Splice \/ NextValue \/ FillValues \/ Exec
    PROVE  Updating' /\ InsertFaithful'
<1>1. stage # "table" /\ stage # "value" /\ stage # "splice"
  BY DEF Updating
<1>2. "0" \in Digits /\ "1" \in Digits /\ "2" \in Digits /\ "3" \in Digits /\ "4" \in Digits
  BY DigitValue
<1>3. /\ <<"U">> \in Chars /\ UpdateDone1 \in Chars /\ UpdateDone2 \in Chars
      /\ UpdateDone3 \in Chars /\ UpdateDone4 \in Chars
      /\ UpdateRest0 \in Chars /\ UpdateRest1 \in Chars /\ UpdateRest2 \in Chars
      /\ UpdateRest3 \in Chars /\ UpdateRest4 \in Chars
  BY Parts, UpdateTexts, Zenon DEF Plain
<1>4. job.row[1].chars \in Chars /\ job.row[2].chars \in Chars
  BY JobRow, NumberText, Zenon DEF TypeOK
<1>5. CASE FillValues
  <2>1. /\ stage = "shape" /\ ~Found.ok
        /\ str' = str /\ from' = 1 /\ stage' = "fill" /\ UNCHANGED <<job, k, sql>>
        /\ vec' = [n \in DOMAIN job.row |-> job.row[n].chars]
    BY <1>5, Zenon DEF FillValues, Return, Call
  <2>2. str = (UpdateDone4 \o Marker("1")) \o UpdateRest4
    BY <1>2, <1>3, <2>1, WaitingGoesOn, Zenon DEF Updating
  <2>3. (UpdateDone4 \o Marker("1")) \o UpdateRest4
          = UpdateDone2 \o (Marker("0") \o (Middle \o (Marker("1") \o UpdateRest4)))
    <3>1. PICK x \in Chars, m \in Chars, y \in Chars, n \in Chars, r \in Chars, M \in Chars :
            /\ x = UpdateDone2 /\ m = Marker("0") /\ n = Marker("1") /\ r = UpdateRest4
            /\ y = x \o m /\ M = Middle
      BY <1>3, Parts, MiddleText, Joined, Zenon DEF Plain
    <3>2. UpdateDone4 = y \o M
      BY <3>1, MiddleJoined, Zenon DEF UpdateDone4, UpdateDone3
    <3>3. Cat(Cat(Cat(y, M), n), r) = Cat(y, Cat(M, Cat(n, r)))
      BY CatLaws
    <3>4. PICK z \in Chars : z = Cat(M, Cat(n, r))
      BY CatLaws
    <3>5. Cat(Cat(x, m), z) = Cat(x, Cat(m, z))
      BY CatLaws
    <3> QED
      BY <3>1, <3>2, <3>3, <3>4, <3>5, Zenon DEF Cat
  <2>4. Waiting(str', from', UpdateDone2, "0", Middle \o (Marker("1") \o UpdateRest4))
    BY <2>1, <2>2, <2>3, UpdateTexts, PlainWaiting, Zenon
  <2>5. PICK row \in Seq(Values) : row = job.row /\ Len(row) = 2
    BY JobRow, Zenon DEF TypeOK
  <2>6. [n \in DOMAIN row |-> row[n].chars] = <<row[1].chars, row[2].chars>>
    BY <2>5
  <2>7. vec' = <<job'.row[1].chars, job'.row[2].chars>>
    BY <2>1, <2>5, <2>6, Zenon
  <2>8. Updating'
    BY <2>1, <2>4, <2>7 DEF Updating
  <2> QED
    BY <2>1, <2>8, StillRunning DEF Running
<1>6. CASE Exec
  <2>1. /\ stage = "fill" /\ ~Found.ok /\ stage' = "exec"
        /\ UNCHANGED <<job, k, sql, str, vec, val, from>>
    BY <1>1, <1>6, Zenon DEF Exec, Return
  <2>2. Half(job.row) \in Chars /\ Middle \o (Marker("1") \o UpdateRest4) \in Chars
    BY <1>3, <1>4, Parts, MiddleText, Joined, Zenon DEF Half, Plain
  <2>3. str = Expected
    BY <1>2, <1>3, <2>1, <2>2, WaitingGoesOn, Zenon DEF Updating
  <2>4. Expected' = Expected /\ SafeRow' = SafeRow
    BY <2>1, SameJob
  <2>5. str' = Expected' /\ SafeRow'
    BY <1>4, <2>1, <2>3, <2>4, UpdateExpected
  <2>6. stage' # "shape" /\ stage' # "fill" /\ stage' # "thrown"
    BY <2>1
  <2> QED
    BY <2>1, <2>5, <2>6, Zenon DEF Updating, InsertFaithful
<1> QED
  BY <1>1, <1>5, <1>6, Zenon DEF InsertTable, Splice, NextValue, Return
-----------------------------------------------------------------------------
(***************************************************************************)
(* insert_db: the values as the statement lists them.                      *)
(***************************************************************************)
\* Induction up to a bound.
LEMMA Upwards ==
    ASSUME NEW N \in Nat, NEW S, 0 \in S, \A n \in 0..N : n < N /\ n \in S => n + 1 \in S
    PROVE  \A n \in 0..N : n \in S
<1> DEFINE Out == {n \in 0..N : n \notin S}
<1>1. SUFFICES ASSUME Out # {} PROVE FALSE
  OBVIOUS
<1>2. Out \subseteq Nat
  OBVIOUS
<1>3. PICK m \in Out : \A y \in Out : m =< y
  BY <1>1, <1>2, MinIsLeast, Zenon
<1>4. m \in 0..N /\ m \notin S /\ m # 0
  BY <1>3
<1>5. m - 1 \in 0..N /\ m - 1 < N /\ (m - 1) + 1 = m /\ ~(m =< m - 1)
  BY <1>4
<1>6. m - 1 \in S
  BY <1>3, <1>5, Zenon
<1> QED
  BY <1>4, <1>5, <1>6

\* What Listing computes, value by value.
LEMMA ListingStep ==
    ASSUME NEW row, Len(row) \in Nat
    PROVE  /\ Listing(row)[0] = <<>>
           /\ \A n \in 1..Len(row) :
                 Listing(row)[n] = (IF n = 1 THEN <<>> ELSE Listing(row)[n - 1] \o <<",">>)
                                   \o Value(row, n)
<1> DEFINE next(a, n) == IF n = 0 THEN <<>>
                         ELSE (IF n = 1 THEN <<>> ELSE a \o <<",">>) \o Value(row, n)
           list(f) == [n \in 0..Len(row) |-> next(f[n - 1], n)]
           it == CHOOSE f : f = list(f)
<1>1. Listing(row) = it
  BY Zenon DEF Listing, Value
<1>2. \A a : next(a, 0) = <<>>
  BY Zenon
<1>3. \A a : \A n \in 1..Len(row) :
        next(a, n) = (IF n = 1 THEN <<>> ELSE a \o <<",">>) \o Value(row, n)
  <2>1. \A n \in 1..Len(row) : n # 0
    OBVIOUS
  <2> QED
    BY <2>1, Zenon
<1>4. PICK N \in Nat : N = Len(row)
  OBVIOUS
<1> HIDE DEF next
<1>5. \E f : f = list(f)
  <2> DEFINE Upto(m, g) == \A n \in 0..m : g[n] = next(g[n - 1], n)
             Reached == {m \in 0..N : \E g : Upto(m, g)}
  <2>1. 0 \in Reached
    <3>1. PICK g : g = [n \in 0..0 |-> next(0, 0)]
      OBVIOUS
    <3>2. g[0] = next(0, 0)
      BY <3>1
    <3>3. g[0] = next(g[0 - 1], 0)
      BY <1>2, <3>2, Zenon
    <3>4. \A n \in 0..0 : g[n] = next(g[n - 1], n)
      BY <3>3
    <3> QED
      BY <3>4
  <2>2. ASSUME NEW m \in 0..N, m < N, m \in Reached
        PROVE  m + 1 \in Reached
    <3>1. PICK g : \A n \in 0..m : g[n] = next(g[n - 1], n)
      BY <2>2
    <3>2. PICK h : h = [n \in 0..(m + 1) |-> IF n =< m THEN g[n] ELSE next(g[m], m + 1)]
      OBVIOUS
    <3>3. ASSUME NEW n \in 0..(m + 1) PROVE h[n] = next(h[n - 1], n)
      <4>1. CASE n = 0
        <5>1. h[0] = g[0] /\ g[0] = next(g[0 - 1], 0)
          BY <3>1, <3>2
        <5> QED
          BY <1>2, <4>1, <5>1
      <4>2. CASE n \in 1..m
        <5>1. h[n] = g[n] /\ h[n - 1] = g[n - 1] /\ n \in 0..m
          BY <3>2, <4>2
        <5> QED
          BY <3>1, <5>1, Zenon
      <4>3. CASE n = m + 1
        <5>1. h[n] = next(g[m], n) /\ h[m] = g[m] /\ n - 1 = m
          BY <3>2, <4>3
        <5> QED
          BY <5>1, Zenon
      <4> QED
        BY <4>1, <4>2, <4>3
    <3>4. m + 1 \in 0..N
      BY <2>2
    <3> QED
      BY <3>3, <3>4
  <2> HIDE DEF Reached
  <2>3. N \in Reached
    <3>1. N \in 0..N
      OBVIOUS
    <3> QED
      BY <2>1, <2>2, <3>1, Upwards
  <2>4. PICK g : \A n \in 0..N : g[n] = next(g[n - 1], n)
    BY <2>3 DEF Reached
  <2>5. PICK f : f = [n \in 0..N |-> g[n]]
    OBVIOUS
  <2>6. ASSUME NEW n \in 0..N PROVE f[n] = next(f[n - 1], n)
    <3>1. CASE n = 0
      <4>1. f[0] = g[0] /\ g[0] = next(g[0 - 1], 0)
        BY <2>4, <2>5
      <4> QED
        BY <1>2, <3>1, <4>1
    <3>2. CASE n # 0
      <4>1. f[n] = g[n] /\ f[n - 1] = g[n - 1]
        BY <2>5, <3>2
      <4> QED
        BY <2>4, <4>1, Zenon
    <3> QED
      BY <3>1, <3>2
  <2>7. f = [n \in 0..N |-> next(f[n - 1], n)]
    BY <2>5, <2>6
  <2> QED
    BY <1>4, <2>7, Zenon
<1>6. it = list(it)
  BY <1>5, Zenon
<1> HIDE DEF it
<1>7. \A n \in 0..N : it[n] = next(it[n - 1], n)
  BY <1>4, <1>6
<1>8. it[0] = <<>>
  <2>1. 0 \in 0..N
    OBVIOUS
  <2> QED
    BY <1>2, <1>7, <2>1, Zenon
<1>9. ASSUME NEW n \in 1..N
      PROVE  it[n] = (IF n = 1 THEN <<>> ELSE it[n - 1] \o <<",">>) \o Value(row, n)
  <2>1. n \in 0..N
    OBVIOUS
  <2>2. it[n] = next(it[n - 1], n)
    BY <1>7, <2>1, Zenon
  <2> QED
    BY <1>4, <1>3, <2>2, Zenon
<1> QED
  BY <1>1, <1>4, <1>8, <1>9, Zenon
\* The text t goes on where s ends.
Begins(s, t) == \E u \in Chars : t = s \o u

LEMMA BeginsAt ==
    ASSUME NEW s \in Chars, NEW t, Begins(s, t)
    PROVE  t \in Chars /\ Len(s) =< Len(t) /\ \A i \in 1..Len(s) : t[i] = s[i]
<1>1. PICK u \in Chars : t = s \o u
  BY Zenon DEF Begins
<1>2. PICK r \in Chars :
        /\ r = s \o u
        /\ Len(r) = Len(s) + Len(u)
        /\ \A i \in 1..Len(s) : r[i] = s[i]
        /\ \A i \in 1..Len(u) : r[Len(s) + i] = u[i]
  BY JoinedAt, Zenon
<1>3. Len(s) =< Len(r)
  <2>1. PICK a \in Nat, b \in Nat : a = Len(s) /\ b = Len(u)
    BY CharsLen, Zenon
  <2>2. a =< a + b
    OBVIOUS
  <2> QED
    BY <1>2, <2>1, <2>2, Zenon
<1> QED
  BY <1>1, <1>2, <1>3, Zenon

LEMMA NoText == <<>> \in Chars /\ Len(<<>>) = 0 /\ \A s \in Chars : s \o <<>> = s /\ <<>> \o s = s
<1>1. <<>> \in Seq(Char) /\ Len(<<>>) = 0
  OBVIOUS
<1>2. \A s \in Seq(Char) : s \o <<>> = s /\ <<>> \o s = s
  OBVIOUS
<1> QED
  BY <1>1, <1>2, Zenon DEF Chars

\* A value as it should be is a text, not empty, and begins with no brace.
LEMMA ValueText ==
    ASSUME NEW j \in Job, NEW n \in 1..Len(j.row)
    PROVE  /\ Value(j.row, n) \in Chars
           /\ 1 =< Len(Value(j.row, n)) /\ ~Opens(Value(j.row, n), 1)
<1>1. j.row \in Seq(Values) /\ Len(j.row) \in Nat
  BY JobRow
<1>2. PICK v \in Values : v = j.row[n]
  BY <1>1
<1>3. PICK s \in Chars : s = v.chars
  BY <1>2, RowValue, Zenon
<1>4. Value(j.row, n) = Quoted(v, s)
  BY <1>2, <1>3, Zenon DEF Value
<1>5. CASE v \in Numbers
  <2>1. Len(s) > 0 /\ \A i \in 1..Len(s) : ~Opens(s, i)
    BY <1>3, <1>5, NumberText, Zenon DEF Opens
  <2>2. PICK a \in Nat : a = Len(s)
    BY CharsLen, Zenon
  <2>3. 1 =< a /\ 1 \in 1..a
    BY <2>1, <2>2
  <2>4. Value(j.row, n) = s
    BY <1>4, <1>5, NumberQuoted, Zenon
  <2> QED
    BY <2>1, <2>2, <2>3, <2>4, Zenon
<1>6. CASE v \in [text : {TRUE}, chars : Chars]
  <2>1. v.text
    BY <1>6
  <2>2. Quoted(v, s) = (<<"'">> \o s) \o <<"'">>
    BY <2>1, Zenon DEF Quoted
  <2>3. PICK c \in Char : c = "'" /\ c # "{"
    BY KnownChars
  <2>4. PICK q \in Chars : q = <<c>> /\ Len(q) = 1 /\ \A i \in 1..Len(q) : q[i] = c
    BY OneLetter, Zenon
  <2>5. PICK r \in Chars :
          /\ r = q \o s
          /\ Len(r) = Len(q) + Len(s)
          /\ \A i \in 1..Len(q) : r[i] = q[i]
    BY JoinedAt, Zenon
  <2>6. PICK u \in Chars :
          /\ u = r \o q
          /\ Len(u) = Len(r) + Len(q)
          /\ \A i \in 1..Len(r) : u[i] = r[i]
    BY JoinedAt, Zenon
  <2>7. PICK a \in Nat : a = Len(s)
    BY CharsLen, Zenon
  <2>8. Len(r) = 1 + a /\ Len(u) = (1 + a) + 1
    BY <2>4, <2>5, <2>6, <2>7, Zenon
  <2>9. 1 \in 1..1 /\ 1 \in 1..(1 + a) /\ 1 =< (1 + a) + 1
    OBVIOUS
  <2>10. u[1] = c
    BY <2>4, <2>5, <2>6, <2>8, <2>9, Zenon
  <2>11. ~Opens(u, 1)
    BY <2>3, <2>10, Zenon DEF Opens
  <2>12. Value(j.row, n) = u
    BY <1>4, <2>2, <2>3, <2>4, <2>5, <2>6, Zenon
  <2> QED
    BY <2>8, <2>9, <2>11, <2>12, Zenon
<1> QED
  BY <1>2, <1>5, <1>6, Zenon DEF Values

\* The lists are texts.
LEMMA ListingText ==
    ASSUME NEW j \in Job
    PROVE  \A n \in 0..Len(j.row) : Listing(j.row)[n] \in Chars
<1> DEFINE list == Listing(j.row)
           Texts == {n \in 0..Len(j.row) : list[n] \in Chars}
<1>1. PICK N \in Nat : N = Len(j.row)
  BY JobRow
<1>2. /\ list[0] = <<>>
      /\ \A n \in 1..N : list[n] = (IF n = 1 THEN <<>> ELSE list[n - 1] \o <<",">>)
                                   \o Value(j.row, n)
  BY <1>1, ListingStep
<1> HIDE DEF list
<1>3. 0 \in Texts
  <2>1. 0 \in 0..Len(j.row)
    BY <1>1
  <2> QED
    BY <1>2, <2>1, NoText, Zenon
<1>4. ASSUME NEW n \in 0..N, n < N, n \in Texts
      PROVE  n + 1 \in Texts
  <2>1. PICK m \in 1..N : m = n + 1
    BY <1>4
  <2>2. m - 1 = n
    BY <2>1
  <2>3. list[m] = (IF m = 1 THEN <<>> ELSE list[n] \o <<",">>) \o Value(j.row, m)
    BY <1>2, <2>2, Zenon
  <2>4. list[n] \in Chars
    BY <1>4
  <2>5. list[n] \o <<",">> \in Chars
    BY <2>4, Parts, Joined, Zenon
  <2>6. Value(j.row, m) \in Chars /\ <<>> \in Chars
    BY <1>1, NoText, ValueText, Zenon
  <2>7. list[m] \in Chars
    BY <2>3, <2>5, <2>6, Joined, Zenon
  <2>8. m \in 0..Len(j.row)
    BY <1>1, <2>1
  <2> QED
    BY <2>1, <2>7, <2>8, Zenon
<1> HIDE DEF Texts
<1>5. \A n \in 0..N : n \in Texts
  BY <1>3, <1>4, Upwards
<1> QED
  BY <1>1, <1>5, Zenon DEF Texts, list

\* A list goes on where a shorter one ends.
LEMMA ListingGrows ==
    ASSUME NEW j \in Job, NEW n \in 1..Len(j.row), NEW m \in n..Len(j.row)
    PROVE  Begins(Listing(j.row)[n], Listing(j.row)[m])
<1> DEFINE list == Listing(j.row)
           Longer == {h \in 0..Len(j.row) : n =< h => Begins(list[n], list[h])}
<1>1. PICK N \in Nat : N = Len(j.row)
  BY JobRow
<1>2. \A h \in 1..N : list[h] = (IF h = 1 THEN <<>> ELSE list[h - 1] \o <<",">>)
                                \o Value(j.row, h)
  BY <1>1, ListingStep
<1>3. \A h \in 0..N : list[h] \in Chars
  BY <1>1, ListingText
<1> HIDE DEF list
<1>4. 0 \in Longer
  BY <1>1
<1>5. ASSUME NEW h \in 0..N, h < N, h \in Longer
      PROVE  h + 1 \in Longer
  <2>1. PICK g \in 1..N : g = h + 1
    BY <1>5
  <2>2. g - 1 = h /\ g \in 0..Len(j.row)
    BY <1>1, <2>1
  <2>3. CASE n = g
    <3>1. list[g] = list[g] \o <<>> /\ <<>> \in Chars
      BY <1>1, <1>3, <2>2, NoText, Zenon
    <3>2. Begins(list[n], list[g])
      BY <2>3, <3>1, Zenon DEF Begins
    <3> QED
      BY <2>1, <2>2, <3>2, Zenon
  <2>4. CASE n > g
    <3>1. ~(n =< g)
      BY <1>1, <2>4
    <3> QED
      BY <2>1, <2>2, <3>1, Zenon
  <2>5. CASE n < g
    <3>1. n =< h /\ g # 1
      BY <1>1, <2>1, <2>5
    <3>2. PICK u \in Chars : list[h] = list[n] \o u
      BY <1>5, <3>1, Zenon DEF Begins
    <3>3. PICK a \in Chars, c \in Chars, v \in Chars :
            a = list[n] /\ c = <<",">> /\ v = Value(j.row, g)
      <4>1. list[n] \in Chars
        BY <1>1, <1>3
      <4> QED
        BY <1>1, <4>1, Parts, ValueText, Zenon
    <3>4. list[g] = ((a \o u) \o c) \o v
      BY <1>2, <2>2, <3>1, <3>2, <3>3, Zenon
    <3>5. /\ Cat(Cat(Cat(a, u), c), v) = Cat(a, Cat(u, Cat(c, v)))
          /\ Cat(u, Cat(c, v)) \in Chars
      BY CatLaws
    <3>6. list[g] = Cat(a, Cat(u, Cat(c, v)))
      BY <3>4, <3>5, Zenon DEF Cat
    <3>7. Begins(list[n], list[g])
      BY <3>3, <3>5, <3>6, Zenon DEF Begins, Cat
    <3> QED
      BY <2>1, <2>2, <3>7, Zenon
  <2> QED
    BY <1>1, <2>3, <2>4, <2>5
<1> HIDE DEF Longer
<1>6. \A h \in 0..N : h \in Longer
  BY <1>4, <1>5, Upwards
<1>7. m \in 0..N /\ n =< m
  BY <1>1
<1>8. m \in Longer
  BY <1>6, <1>7, Zenon
<1> QED
  BY <1>7, <1>8, Zenon DEF Longer, list
\* The statement up to a value, and with it.
LEMMA BeforeText ==
    ASSUME NEW j \in Job, NEW n \in 1..Len(j.row)
    PROVE  /\ Before(j.row, n) \in Chars
           /\ Listing(j.row)[n] \in Chars
           /\ Before(j.row, n) \o Value(j.row, n) = Intro \o Listing(j.row)[n]
<1>1. PICK N \in Nat : N = Len(j.row)
  BY JobRow
<1>2. Intro \in Chars
  BY Parts, Joined, Zenon DEF Intro
<1>3. /\ n \in 0..N /\ n \in 1..N /\ n - 1 \in 0..N
  BY <1>1
<1>4. /\ Listing(j.row)[n] \in Chars /\ Listing(j.row)[n - 1] \in Chars
  BY <1>1, <1>3, ListingText, Zenon
<1>5. Value(j.row, n) \in Chars
  BY ValueText, Zenon
<1>6. Len(j.row) \in Nat
  BY <1>1
<1>7. CASE n = 1
  <2>1. Listing(j.row)[n] = <<>> \o Value(j.row, n)
    BY <1>6, <1>7, ListingStep, Zenon
  <2>2. Listing(j.row)[n] = Value(j.row, n)
    BY <1>5, <2>1, NoText, Zenon
  <2> QED
    BY <1>2, <1>4, <1>7, <2>2, Zenon DEF Before
<1>8. CASE n # 1
  <2>1. PICK I \in Chars, l \in Chars, c \in Chars, v \in Chars :
          /\ I = Intro /\ l = Listing(j.row)[n - 1] /\ c = <<",">> /\ v = Value(j.row, n)
    BY <1>2, <1>4, <1>5, Parts, Zenon
  <2>2. Listing(j.row)[n] = Cat(Cat(l, c), v)
    BY <1>6, <1>8, <2>1, ListingStep, Zenon DEF Cat
  <2>3. Before(j.row, n) = Cat(I, Cat(l, c))
    BY <1>8, <2>1, Zenon DEF Before, Cat
  <2>4. Cat(I, Cat(l, c)) \in Chars /\ Cat(Cat(I, Cat(l, c)), v) = Cat(I, Cat(Cat(l, c), v))
    BY CatLaws
  <2> QED
    BY <1>4, <2>1, <2>2, <2>3, <2>4, Zenon DEF Cat
<1> QED
  BY <1>7, <1>8

\* With a value, its comma and the next marker put in, the statement waits for the
\* next value.
LEMMA NextReady ==
    ASSUME NEW j \in Job, NEW n \in 1..Len(j.row), n < Len(j.row)
    PROVE  (Before(j.row, n) \o Piece(j.row, n)) \o Outro = Ready(j.row, n + 1)
<1>1. PICK b \in Chars, v \in Chars, c \in Chars, m \in Chars, o \in Chars, l \in Chars,
           I \in Chars :
        /\ b = Before(j.row, n) /\ v = Value(j.row, n) /\ c = <<",">> /\ m = Marker("0")
        /\ o = Outro /\ l = Listing(j.row)[n] /\ I = Intro
  <2>1. Intro \in Chars
    BY Parts, Joined, Zenon DEF Intro
  <2>2. Outro \in Chars
    BY Parts, Zenon DEF Outro
  <2> QED
    BY <2>1, <2>2, BeforeText, ValueText, Parts, Zenon
<1>2. Cat(b, v) = Cat(I, l)
  BY <1>1, BeforeText, Zenon DEF Cat
<1>3. Piece(j.row, n) = Cat(Cat(v, c), m)
  BY <1>1, Zenon DEF Piece, Cat
<1>4. Before(j.row, n + 1) = Cat(I, Cat(l, c))
  <2>1. PICK N \in Nat : N = Len(j.row)
    BY JobRow
  <2>2. n + 1 # 1 /\ (n + 1) - 1 = n
    BY <2>1
  <2> QED
    BY <1>1, <2>2, Zenon DEF Before, Cat
<1>5. Cat(Cat(b, Cat(Cat(v, c), m)), o) = Cat(Cat(I, Cat(l, c)), Cat(m, o))
  <2>1. Cat(b, Cat(Cat(v, c), m)) = Cat(b, Cat(v, Cat(c, m)))
    BY CatLaws
  <2>2. PICK x \in Chars : x = Cat(c, m)
    BY CatLaws
  <2>3. Cat(b, Cat(v, x)) = Cat(Cat(b, v), x)
    BY CatLaws
  <2>4. Cat(Cat(I, l), x) = Cat(I, Cat(l, x))
    BY CatLaws
  <2>5. Cat(l, x) = Cat(Cat(l, c), m)
    BY <2>2, CatLaws
  <2>6. PICK y \in Chars : y = Cat(l, c)
    BY CatLaws
  <2>7. Cat(Cat(I, Cat(y, m)), o) = Cat(Cat(I, y), Cat(m, o))
    BY CatLaws
  <2> QED
    BY <1>2, <2>1, <2>2, <2>3, <2>4, <2>5, <2>6, <2>7, Zenon
<1> QED
  BY <1>1, <1>3, <1>4, <1>5, Zenon DEF Ready, Cat

\* What is put in for a value is not empty and begins with no brace.
LEMMA PieceText ==
    ASSUME NEW j \in Job, NEW n \in 1..Len(j.row)
    PROVE  /\ Piece(j.row, n) \in Chars
           /\ 1 =< Len(Piece(j.row, n)) /\ ~Opens(Piece(j.row, n), 1)
<1>1. PICK v \in Chars : v = Value(j.row, n) /\ 1 =< Len(v) /\ ~Opens(v, 1)
  BY ValueText, Zenon
<1>2. CASE n < Len(j.row)
  <2>1. PICK c \in Chars, m \in Chars : c = <<",">> /\ m = Marker("0")
    BY Parts, Zenon
  <2>2. PICK r \in Chars : r = v \o c /\ Len(r) = Len(v) + Len(c) /\ \A i \in 1..Len(v) : r[i] = v[i]
    BY JoinedAt, Zenon
  <2>3. PICK u \in Chars : u = r \o m /\ Len(u) = Len(r) + Len(m) /\ \A i \in 1..Len(r) : u[i] = r[i]
    BY JoinedAt, Zenon
  <2>4. PICK a \in Nat, b \in Nat, d \in Nat : a = Len(v) /\ b = Len(c) /\ d = Len(m)
    BY CharsLen, Zenon
  <2>5. 1 =< a /\ Len(r) = a + b /\ Len(u) = (a + b) + d
    BY <1>1, <2>2, <2>3, <2>4, Zenon
  <2>6. 1 \in 1..a /\ 1 \in 1..(a + b) /\ 1 =< (a + b) + d
    BY <2>5
  <2>7. u[1] = v[1]
    BY <2>2, <2>3, <2>4, <2>5, <2>6, Zenon
  <2>8. Piece(j.row, n) = u
    BY <1>1, <1>2, <2>1, <2>2, <2>3, Zenon DEF Piece
  <2> QED
    BY <1>1, <2>5, <2>6, <2>7, <2>8, Zenon DEF Opens
<1>3. CASE ~(n < Len(j.row))
  BY <1>1, <1>3, Zenon DEF Piece
<1> QED
  BY <1>2, <1>3

LEMMA InsertExpected ==
    ASSUME job.op = "insert"
    PROVE  /\ Expected = (Intro \o Listing(job.row)[Len(job.row)]) \o Outro
           /\ SafeRow <=> ~Braced(Listing(job.row)[Len(job.row) - 1])
  BY Zenon DEF Expected, Intro, Outro, SafeRow

\* The statement is what it should be up to the value that is put in.
LEMMA BeforeExpected ==
    ASSUME job \in Job, job.op = "insert", NEW n \in 1..Len(job.row)
    PROVE  Begins(Before(job.row, n), Expected)
<1>1. PICK N \in Nat : N = Len(job.row)
  BY JobRow
<1>2. N \in 1..N /\ n \in 1..N /\ N \in n..N
  BY <1>1
<1>3. PICK I \in Chars, L \in Chars, o \in Chars :
        I = Intro /\ L = Listing(job.row)[N] /\ o = Outro
  <2>1. Intro \in Chars
    BY Parts, Joined, Zenon DEF Intro
  <2>2. Outro \in Chars
    BY Parts, Zenon DEF Outro
  <2> QED
    BY <1>1, <1>2, <2>1, <2>2, BeforeText, Zenon
<1>4. Expected = Cat(Cat(I, L), o)
  BY <1>1, <1>3, InsertExpected, Zenon DEF Cat
<1>5. CASE n = 1
  <2>1. Cat(Cat(I, L), o) = Cat(I, Cat(L, o)) /\ Cat(L, o) \in Chars
    BY CatLaws
  <2> QED
    BY <1>3, <1>4, <1>5, <2>1, Zenon DEF Before, Begins, Cat
<1>6. CASE n # 1
  <2>1. Begins(Listing(job.row)[n], Listing(job.row)[N])
    BY <1>1, <1>2, ListingGrows, Zenon
  <2>2. PICK u \in Chars : L = Listing(job.row)[n] \o u
    BY <1>3, <2>1, Zenon DEF Begins
  <2>3. n - 1 \in 0..Len(job.row) /\ Len(job.row) \in Nat
    BY <1>1
  <2>4. PICK l \in Chars, c \in Chars, v \in Chars :
          l = Listing(job.row)[n - 1] /\ c = <<",">> /\ v = Value(job.row, n)
    BY <2>3, ListingText, Parts, ValueText, Zenon
  <2>5. Listing(job.row)[n] = Cat(Cat(l, c), v)
    BY <1>6, <2>3, <2>4, ListingStep, Zenon DEF Cat
  <2>6. Before(job.row, n) = Cat(I, Cat(l, c))
    BY <1>3, <1>6, <2>4, Zenon DEF Before, Cat
  <2>7. PICK x \in Chars : x = Cat(l, c)
    BY CatLaws
  <2>8. Expected = Cat(Cat(I, Cat(Cat(x, v), u)), o)
    BY <1>4, <2>2, <2>5, <2>7, Zenon DEF Cat
  <2>9. Cat(Cat(I, Cat(Cat(x, v), u)), o) = Cat(Cat(I, x), Cat(v, Cat(u, o)))
    <3>1. Cat(Cat(x, v), u) = Cat(x, Cat(v, u))
      BY CatLaws
    <3>2. PICK y \in Chars : y = Cat(v, u)
      BY CatLaws
    <3>3. Cat(Cat(I, Cat(x, y)), o) = Cat(Cat(I, x), Cat(y, o))
      BY CatLaws
    <3>4. Cat(y, o) = Cat(v, Cat(u, o))
      BY <3>2, CatLaws
    <3> QED
      BY <3>1, <3>2, <3>3, <3>4, Zenon
  <2>10. Cat(v, Cat(u, o)) \in Chars
    BY CatLaws
  <2>11. Expected = Cat(Before(job.row, n), Cat(v, Cat(u, o)))
    BY <2>6, <2>7, <2>8, <2>9, Zenon
  <2> QED
    BY <2>10, <2>11, Zenon DEF Begins, Cat
<1> QED
  BY <1>5, <1>6
-----------------------------------------------------------------------------
(***************************************************************************)
(* insert_db: braces of the values.                                        *)
(***************************************************************************)
\* Braces that match, in terms of places.
LEMMA BracedAt ==
    ASSUME NEW s \in Chars
    PROVE  Braced(s) <=> \E i, j \in 1..Len(s) : i < j /\ Opens(s, i) /\ Closes(s, j)
<1>1. DOMAIN s = 1..Len(s)
  BY DEF Chars
<1> QED
  BY <1>1, Zenon DEF Braced, Opens, Closes

\* Plain text around a text adds no braces.
LEMMA BracedBetween ==
    ASSUME NEW p, NEW l \in Chars, NEW q, Plain(p), Plain(q)
    PROVE  Braced(p \o (l \o q)) <=> Braced(l)
<1>1. p \in Chars /\ q \in Chars
  BY Zenon DEF Plain
<1>2. PICK r \in Chars :
        /\ r = l \o q
        /\ Len(r) = Len(l) + Len(q)
        /\ \A i \in 1..Len(l) : r[i] = l[i]
        /\ \A i \in 1..Len(q) : r[Len(l) + i] = q[i]
  BY <1>1, JoinedAt, Zenon
<1>3. PICK s \in Chars :
        /\ s = p \o r
        /\ Len(s) = Len(p) + Len(r)
        /\ \A i \in 1..Len(p) : s[i] = p[i]
        /\ \A i \in 1..Len(r) : s[Len(p) + i] = r[i]
  BY <1>1, JoinedAt, Zenon
<1>4. PICK a \in Nat, b \in Nat, c \in Nat : a = Len(p) /\ b = Len(l) /\ c = Len(q)
  BY <1>1, CharsLen, Zenon
<1>5. Len(r) = b + c /\ Len(s) = a + (b + c)
  BY <1>2, <1>3, <1>4, Zenon
<1>6. \A i \in 1..b : s[a + i] = l[i]
  <2>1. \A i \in 1..b : i \in 1..(b + c)
    OBVIOUS
  <2> QED
    BY <1>2, <1>3, <1>4, <1>5, <2>1, Zenon
<1>7. ASSUME NEW i \in 1..(a + (b + c)), Opens(s, i) \/ Closes(s, i)
      PROVE  \E h \in 1..b : i = a + h
  <2>1. CASE i =< a
    <3>1. i \in 1..a
      BY <2>1
    <3>2. ~Opens(p, i) /\ ~Closes(p, i) /\ s[i] = p[i]
      BY <1>3, <1>4, <3>1, Zenon DEF Plain
    <3> QED
      BY <1>7, <3>2, Zenon DEF Opens, Closes
  <2>2. CASE i > a + b
    <3>1. PICK h \in 1..c : i = a + (b + h) /\ b + h \in 1..(b + c)
      <4>1. i - a - b \in 1..c /\ i = a + (b + (i - a - b)) /\ b + (i - a - b) \in 1..(b + c)
        BY <2>2
      <4> QED
        BY <4>1, Zenon
    <3>2. s[i] = q[h]
      BY <1>2, <1>3, <1>4, <1>5, <3>1, Zenon
    <3>3. ~Opens(q, h) /\ ~Closes(q, h)
      BY <1>4, <3>1, Zenon DEF Plain
    <3> QED
      BY <1>7, <3>2, <3>3, Zenon DEF Opens, Closes
  <2>3. CASE i > a /\ i =< a + b
    <3>1. i - a \in 1..b /\ i = a + (i - a)
      BY <2>3
    <3> QED
      BY <3>1, Zenon
  <2> QED
    BY <2>1, <2>2, <2>3
<1>8. ASSUME Braced(s) PROVE Braced(l)
  <2>1. PICK i \in 1..(a + (b + c)), j \in 1..(a + (b + c)) :
          i < j /\ Opens(s, i) /\ Closes(s, j)
    BY <1>5, <1>8, BracedAt, Zenon
  <2>2. PICK g \in 1..b, h \in 1..b : i = a + g /\ j = a + h
    BY <1>7, <2>1, Zenon
  <2>3. g < h
    BY <2>1, <2>2
  <2>4. Opens(l, g) /\ Closes(l, h)
    BY <1>6, <2>1, <2>2, Zenon DEF Opens, Closes
  <2> QED
    BY <1>4, <2>3, <2>4, BracedAt, Zenon
<1>9. ASSUME Braced(l) PROVE Braced(s)
  <2>1. PICK i \in 1..b, j \in 1..b : i < j /\ Opens(l, i) /\ Closes(l, j)
    BY <1>4, <1>9, BracedAt, Zenon
  <2>2. Opens(s, a + i) /\ Closes(s, a + j)
    BY <1>6, <2>1, Zenon DEF Opens, Closes
  <2>3. a + i \in 1..(a + (b + c)) /\ a + j \in 1..(a + (b + c)) /\ a + i < a + j
    BY <2>1
  <2> QED
    BY <1>5, <2>2, <2>3, BracedAt, Zenon
<1> QED
  BY <1>2, <1>3, <1>8, <1>9, Zenon

\* Nor are braces lost where a text goes on.
LEMMA BracedGrows ==
    ASSUME NEW s \in Chars, NEW t, Begins(s, t), Braced(s)
    PROVE  Braced(t)
<1>1. t \in Chars /\ Len(s) =< Len(t) /\ \A i \in 1..Len(s) : t[i] = s[i]
  BY BeginsAt
<1>2. PICK a \in Nat, b \in Nat : a = Len(s) /\ b = Len(t)
  BY <1>1, CharsLen, Zenon
<1>3. PICK i \in 1..a, j \in 1..a : i < j /\ Opens(s, i) /\ Closes(s, j)
  BY <1>2, BracedAt, Zenon
<1>4. a =< b
  BY <1>1, <1>2, Zenon
<1>5. i \in 1..b /\ j \in 1..b
  BY <1>4
<1>6. Opens(t, i) /\ Closes(t, j)
  BY <1>1, <1>2, <1>3, Zenon DEF Opens, Closes
<1> QED
  BY <1>1, <1>2, <1>3, <1>5, <1>6, BracedAt, Zenon

\* What the words of the statement are.
LEMMA InsertTexts == Plain(Intro) /\ Outro \in Chars /\ Len(Outro) = 2
<1>1. Plain(Intro)
  BY Words, PlainJoined, Zenon DEF Intro
<1> QED
  BY <1>1, Parts, Words, Zenon DEF Outro

\* If the values put in so far have a pair of braces, those but for the last have;
\* and if none is left to put in, the other way round.
LEMMA BracedBefore ==
    ASSUME NEW j \in Job, NEW n \in 1..Len(j.row)
    PROVE  /\ Braced(Before(j.row, n)) => Braced(Listing(j.row)[Len(j.row) - 1])
           /\ n = Len(j.row) /\ Braced(Listing(j.row)[Len(j.row) - 1])
                => Braced(Before(j.row, n))
<1>1. PICK N \in Nat : N = Len(j.row)
  BY JobRow
<1>2. CASE n = 1
  <2>1. Before(j.row, n) = Intro /\ Plain(Intro)
    BY <1>2, InsertTexts, Zenon DEF Before
  <2>2. ~Braced(Before(j.row, n))
    BY <2>1, BracedAt, Zenon DEF Plain
  <2>3. ASSUME n = N PROVE ~Braced(Listing(j.row)[N - 1])
    <3>1. N - 1 = 0 /\ Len(j.row) \in Nat
      BY <1>1, <1>2, <2>3
    <3>2. Listing(j.row)[N - 1] = <<>>
      BY <3>1, ListingStep, Zenon
    <3>3. \A i : i \notin 1..0
      OBVIOUS
    <3>4. ~Braced(<<>>)
      BY <3>3, NoText, BracedAt, Zenon
    <3> QED
      BY <3>2, <3>4, Zenon
  <2> QED
    BY <1>1, <2>2, <2>3, Zenon
<1>3. CASE n # 1
  <2>1. /\ n - 1 \in 1..N /\ N - 1 \in (n - 1)..N
        /\ n - 1 \in 0..N
    BY <1>1, <1>3
  <2>2. PICK l \in Chars : l = Listing(j.row)[n - 1]
    BY <1>1, <2>1, ListingText, Zenon
  <2>3. Before(j.row, n) = Intro \o (l \o <<",">>)
    BY <1>3, <2>2, Zenon DEF Before
  <2>4. Braced(Before(j.row, n)) <=> Braced(l)
    <3>1. PICK p, q : p = Intro /\ q = <<",">> /\ Plain(p) /\ Plain(q)
      BY InsertTexts, Words, Zenon
    <3>2. Braced(p \o (l \o q)) <=> Braced(l)
      BY <3>1, BracedBetween
    <3> QED
      BY <2>3, <3>1, <3>2, Zenon
  <2>5. Begins(l, Listing(j.row)[N - 1])
    BY <1>1, <2>1, <2>2, ListingGrows, Zenon
  <2>6. Braced(l) => Braced(Listing(j.row)[N - 1])
    BY <2>5, BracedGrows, Zenon
  <2> QED
    BY <1>1, <2>2, <2>4, <2>6, Zenon
<1> QED
  BY <1>2, <1>3
\* replace_string: what lies before the marker stays, and the text put in follows.
LEMMA ReplacedAt ==
    ASSUME NEW s \in Chars, NEW v \in Chars, NEW b \in Nat \ {0}, NEW e \in Nat,
           b < e, e =< Len(s), 1 =< Len(v)
    PROVE  \E r \in Chars :
              /\ r = ReplaceString(s, v, b, e)
              /\ b =< Len(r)
              /\ \A i \in 1..(b - 1) : r[i] = s[i]
              /\ r[b] = v[1]
<1>1. PICK n \in Nat, m \in Nat : n = Len(s) /\ m = Len(v)
  BY CharsLen, Zenon
<1>2. /\ SubSeq(s, 1, b - 1) \in Chars /\ Len(SubSeq(s, 1, b - 1)) = b - 1
      /\ \A i \in 1..(b - 1) : SubSeq(s, 1, b - 1)[i] = s[i]
  BY <1>1, SubSeqProperties DEF Chars
<1>3. PICK p \in Chars :
        p = SubSeq(s, 1, b - 1) /\ Len(p) = b - 1 /\ \A i \in 1..(b - 1) : p[i] = s[i]
  BY <1>2, Zenon
<1>4. SubSeq(s, e + 1, Len(s)) \in Chars
  BY <1>1, SubSeqProperties DEF Chars
<1>5. PICK q \in Chars : q = SubSeq(s, e + 1, Len(s))
  BY <1>4, Zenon
<1>6. PICK u \in Chars :
        /\ u = p \o v
        /\ Len(u) = Len(p) + Len(v)
        /\ \A i \in 1..Len(p) : u[i] = p[i]
        /\ \A i \in 1..Len(v) : u[Len(p) + i] = v[i]
  BY JoinedAt, Zenon
<1>7. PICK r \in Chars :
        /\ r = u \o q
        /\ Len(r) = Len(u) + Len(q)
        /\ \A i \in 1..Len(u) : r[i] = u[i]
  BY JoinedAt, Zenon
<1>8. r = ReplaceString(s, v, b, e)
  BY <1>3, <1>5, <1>6, <1>7, Zenon DEF ReplaceString
<1>9. PICK h \in Nat : h = Len(q)
  BY CharsLen, Zenon
<1>10. Len(u) = (b - 1) + m /\ Len(r) = ((b - 1) + m) + h /\ 1 =< m
  BY <1>1, <1>3, <1>6, <1>7, <1>9, Zenon
<1>11. b =< Len(r) /\ b \in 1..Len(u) /\ 1 \in 1..m /\ (b - 1) + 1 = b
  BY <1>10
<1>12. \A i \in 1..(b - 1) : i \in 1..Len(u)
  BY <1>10
<1>13. r[b] = v[1]
  <2>1. Len(p) + 1 = b /\ 1 \in 1..Len(v)
    BY <1>1, <1>3, <1>11, Zenon
  <2>2. u[Len(p) + 1] = v[1]
    BY <1>6, <2>1, Zenon
  <2> QED
    BY <1>7, <1>11, <2>1, <2>2, Zenon
<1>14. \A i \in 1..(b - 1) : r[i] = s[i]
  BY <1>3, <1>6, <1>7, <1>12, Zenon
<1> QED
  BY <1>8, <1>11, <1>13, <1>14, Zenon

LEMMA SpoiltAt ==
    ASSUME NEW s \in Chars, NEW t \in Chars, NEW p \in Nat \ {0}, p =< Len(s), p =< Len(t),
           Opens(t, p), ~Opens(s, p), \A i \in 1..(p - 1) : s[i] = t[i]
    PROVE  Spoilt(s, t)
<1>1. PICK a \in Nat, b \in Nat : a = Len(s) /\ b = Len(t)
  BY CharsLen, Zenon
<1>2. p \in 1..a
  BY <1>1
<1> QED
  BY <1>1, <1>2, Zenon DEF Spoilt

\* What is put in for braces that are none of the marker's makes the text other than
\* it should be, and a text that is so already stays so.
LEMMA SpoiltByReplace ==
    ASSUME NEW s \in Chars, NEW t \in Chars, NEW v \in Chars,
           NEW b \in Nat \ {0}, NEW e \in Nat, b < e, e =< Len(s), Opens(s, b),
           1 =< Len(v), ~Opens(v, 1),
           Spoilt(s, t) \/ (b =< Len(t) /\ \A i \in 1..b : s[i] = t[i])
    PROVE  Spoilt(ReplaceString(s, v, b, e), t)
<1>1. PICK r \in Chars :
        /\ r = ReplaceString(s, v, b, e)
        /\ b =< Len(r)
        /\ \A i \in 1..(b - 1) : r[i] = s[i]
        /\ r[b] = v[1]
  BY ReplacedAt
<1>2. PICK m \in Nat, n \in Nat : m = Len(t) /\ n = Len(r)
  BY CharsLen, Zenon
<1>3. ASSUME b =< m, \A i \in 1..b : s[i] = t[i]
      PROVE  Spoilt(r, t)
  <2>1. b \in 1..b /\ \A i \in 1..(b - 1) : i \in 1..b
    OBVIOUS
  <2>2. Opens(t, b) /\ ~Opens(r, b)
    BY <1>1, <1>3, <2>1, Zenon DEF Opens
  <2>3. \A i \in 1..(b - 1) : r[i] = t[i]
    BY <1>1, <1>3, <2>1, Zenon
  <2> QED
    BY <1>1, <1>2, <1>3, <2>2, <2>3, SpoiltAt, Zenon
<1>4. ASSUME Spoilt(s, t) PROVE Spoilt(r, t)
  <2>1. PICK p \in 1..Len(s) :
          /\ p =< Len(t)
          /\ Opens(t, p) /\ ~Opens(s, p)
          /\ \A i \in 1..(p - 1) : s[i] = t[i]
    BY <1>4, Zenon DEF Spoilt
  <2>2. p \in Nat \ {0} /\ p =< m
    BY <1>2, <2>1, CharsLen
  <2>3. p # b
    BY <2>1, Zenon
  <2>4. CASE p < b
    <3>1. p \in 1..(b - 1) /\ \A i \in 1..(p - 1) : i \in 1..(b - 1)
      BY <2>2, <2>4
    <3>2. p =< n
      BY <1>1, <1>2, <2>2, <2>4
    <3>3. ~Opens(r, p) /\ \A i \in 1..(p - 1) : r[i] = t[i]
      BY <1>1, <2>1, <3>1, Zenon DEF Opens
    <3> QED
      BY <1>2, <2>1, <2>2, <3>2, <3>3, SpoiltAt, Zenon
  <2>5. CASE b < p
    <3>1. b =< m /\ \A i \in 1..b : i \in 1..(p - 1)
      BY <2>2, <2>5
    <3> QED
      BY <1>3, <2>1, <3>1, Zenon
  <2> QED
    BY <2>2, <2>3, <2>4, <2>5
<1> QED
  BY <1>1, <1>2, <1>3, <1>4, Zenon

LEMMA SpoiltIsOther ==
    ASSUME NEW s, NEW t, Spoilt(s, t)
    PROVE  s # t
  BY Zenon DEF Spoilt

\* If the values put in so far have a pair of braces, the loop finds some there, and
\* not the marker.
LEMMA BracesFirst ==
    ASSUME NEW j \in Job, NEW n \in 1..Len(j.row), Braced(Before(j.row, n))
    PROVE  \E s \in Chars :
              /\ s = Ready(j.row, n)
              /\ FindFlg(s, 1).ok
              /\ FindFlg(s, 1).begin =< Len(Before(j.row, n))
              /\ \A i \in 1..Len(Before(j.row, n)) : s[i] = Before(j.row, n)[i]
<1>1. PICK b \in Chars : b = Before(j.row, n)
  BY BeforeText, Zenon
<1>2. PICK q \in Chars : q = Marker("0") \o Outro
  BY Parts, InsertTexts, Joined, Zenon
<1>3. PICK s \in Chars :
        s = b \o q /\ Len(s) = Len(b) + Len(q) /\ \A i \in 1..Len(b) : s[i] = b[i]
  BY JoinedAt, Zenon
<1>4. s = Ready(j.row, n)
  BY <1>1, <1>2, <1>3, Zenon DEF Ready
<1>5. PICK m \in Nat, h \in Nat : m = Len(b) /\ h = Len(q)
  BY CharsLen, Zenon
<1>6. PICK i \in 1..m, g \in 1..m : i < g /\ Opens(b, i) /\ Closes(b, g)
  BY <1>1, <1>5, BracedAt, Zenon
<1>7. Opens(s, i) /\ Closes(s, g)
  BY <1>3, <1>5, <1>6, Zenon DEF Opens, Closes
<1>8. Len(s) = m + h
  BY <1>3, <1>5, Zenon
<1>9. i \in 1..Len(s) /\ g \in 1..Len(s) /\ 1 \in Nat \ {0}
  BY <1>8
<1>10. FindFlg(s, 1).ok
  BY <1>6, <1>7, <1>9, PairFound, Zenon DEF Opens, Closes
<1>11. /\ FindFlg(s, 1).begin \in Nat /\ FindFlg(s, 1).end \in Nat
       /\ FindFlg(s, 1).begin < FindFlg(s, 1).end /\ FindFlg(s, 1).end =< g
  BY <1>6, <1>7, <1>9, <1>10, MarkerFound, Zenon DEF Opens, Closes
<1>12. PICK x \in Nat, y \in Nat : x = FindFlg(s, 1).begin /\ y = FindFlg(s, 1).end
  BY <1>11, Zenon
<1>13. x < y /\ y =< g
  BY <1>11, <1>12, Zenon
<1>14. x =< m
  BY <1>13
<1> QED
  BY <1>1, <1>3, <1>4, <1>5, <1>10, <1>12, <1>14, Zenon
-----------------------------------------------------------------------------
(***************************************************************************)
(* insert_db: the calls of sformat.                                        *)
(***************************************************************************)
LEMMA InsertShapeIs ==
    InsertShape = <<"I">> \o (Marker("0") \o (<<"V", "(">> \o (Marker("1") \o Outro)))
<1>1. PICK I \in Chars, m0 \in Chars, w \in Chars, m1 \in Chars, r \in Chars :
        /\ I = <<"I">> /\ m0 = Marker("0") /\ w = <<"V", "(">> /\ m1 = Marker("1")
        /\ r = <<")", ";">>
  BY Parts, Zenon
<1>2. InsertShape = Cat(Cat(Cat(Cat(I, m0), w), m1), r)
  BY <1>1, Zenon DEF InsertShape, Cat
<1>3. PICK y \in Chars : y = Cat(m1, r)
  BY CatLaws
<1>4. PICK x \in Chars : x = Cat(Cat(I, m0), w)
  BY CatLaws
<1>5. Cat(Cat(x, m1), r) = Cat(x, y)
  BY <1>3, CatLaws
<1>6. Cat(Cat(Cat(I, m0), w), y) = Cat(I, Cat(m0, Cat(w, y)))
  BY CatLaws
<1>7. InsertShape = Cat(I, Cat(m0, Cat(w, Cat(m1, r))))
  BY <1>2, <1>3, <1>4, <1>5, <1>6, Zenon
<1> QED
  BY <1>1, <1>7, Zenon DEF Cat, Outro

LEMMA InsertingInit ==
    ASSUME Init, job.op = "insert"
    PROVE  Inserting
<1>1. job.op # "update" /\ job.op # "delete"
  OBVIOUS
<1>2. /\ stage = "table" /\ str = InsertShape /\ from = 1 /\ k = 1
      /\ vec = << <<"t">>, Marker("0") >>
  BY <1>1, Zenon DEF Init
<1>3. Waiting(str, from, <<"I">>, "0", <<"V", "(">> \o (Marker("1") \o Outro))
  BY <1>2, InsertShapeIs, Words, PlainWaiting, Zenon
<1>4. stage # "shape" /\ stage # "fill" /\ stage # "value" /\ stage # "splice"
  BY <1>2
<1> QED
  BY <1>2, <1>3, <1>4, Zenon DEF Inserting

\* What insert_parse_sql formats a value with.
LEMMA QuotedWaiting ==
    ASSUME NEW j \in Job, NEW n \in 1..Len(j.row)
    PROVE  \E p \in Chars, q \in Chars :
              /\ Len(q) =< 2
              /\ Waiting(Quoted(j.row[n], Marker("0")), 1, p, "0", q)
              /\ (p \o j.row[n].chars) \o q = Value(j.row, n)
<1>1. PICK m \in Chars : m = Marker("0")
  BY Parts, Zenon
<1>2. PICK s \in Chars : s = j.row[n].chars
  BY RowValue, Zenon
<1>3. CASE j.row[n].text
  <2>1. PICK q \in Chars : q = <<"'">> /\ Plain(q) /\ Len(q) = 1
    <3>1. "'" \in Char /\ "'" # "{" /\ "'" # "}"
      BY KnownChars
    <3> QED
      BY <3>1, PlainLetter, Zenon DEF Plain
  <2>2. Quoted(j.row[n], m) = (q \o m) \o q /\ Value(j.row, n) = (q \o s) \o q
    BY <1>2, <1>3, <2>1, Zenon DEF Quoted, Value
  <2>3. (q \o m) \o q = q \o (m \o q)
    BY Assoc, Zenon
  <2>4. Waiting(q \o (Marker("0") \o q), 1, q, "0", q)
    BY <2>1, PlainWaiting, Zenon
  <2>5. Len(q) =< 2
    BY <2>1
  <2> QED
    BY <1>1, <1>2, <2>2, <2>3, <2>4, <2>5, Zenon
<1>4. CASE ~j.row[n].text
  <2>1. Quoted(j.row[n], m) = m /\ Value(j.row, n) = s
    BY <1>2, <1>4, Zenon DEF Quoted, Value
  <2>2. PICK q \in Chars : q = <<>> /\ Len(q) = 0 /\ Plain(q)
    <3>1. \A i : i \notin 1..0
      OBVIOUS
    <3> QED
      BY <3>1, NoText, Zenon DEF Plain
  <2>3. \A t \in Chars : t \o q = t /\ q \o t = t
    BY <2>2, NoText, Zenon
  <2>4. Waiting(q \o (Marker("0") \o q), 1, q, "0", q)
    BY <2>2, PlainWaiting, Zenon
  <2>5. Len(q) =< 2
    BY <2>2
  <2>6. q \o (m \o q) = m /\ (q \o s) \o q = s
    BY <2>3, Zenon
  <2> QED
    BY <1>1, <1>2, <2>1, <2>4, <2>5, <2>6, Zenon
<1> QED
  BY <1>3, <1>4

\* A turn of the loop in a text that is not what it should be, or finds braces of a
\* value before the marker.
LEMMA LostTurn ==
    ASSUME TypeOK, Turn, job.op = "insert", stage = "splice", ~SafeRow,
           vec = <<Piece(job.row, k)>>,
           \/ Spoilt(str, Expected)
           \/ /\ val = -1
              /\ Found.begin =< Len(Expected)
              /\ \A i \in 1..Found.begin : str[i] = Expected[i]
    PROVE  /\ UNCHANGED <<job, k>>
           /\ \/ stage' = "thrown"
              \/ stage' = stage /\ vec' = vec /\ Spoilt(str', Expected)
<1>1. PICK v \in Chars : v = Piece(job.row, k) /\ 1 =< Len(v) /\ ~Opens(v, 1)
  BY PieceText, Zenon DEF TypeOK
<1>2. vec = <<v>>
  BY <1>1, Zenon
<1>3. vec[0 + 1] = v /\ \A n : InVec(n) => n = 0
  BY <1>2 DEF InVec
<1>4. Expected \in Chars
  <2>1. 1 \in 1..Len(job.row) /\ job \in Job
    BY JobRow DEF TypeOK
  <2>2. Begins(Before(job.row, 1), Expected) /\ Before(job.row, 1) \in Chars
    BY <2>1, BeforeExpected, BeforeText, Zenon
  <2> QED
    BY <2>2, BeginsAt, Zenon
<1>5. /\ str \in Chars /\ from \in Nat \ {0} /\ Found.ok
  BY TurnCases, Zenon DEF TypeOK
<1>6. PICK b \in Nat \ {0}, e \in Nat :
        /\ b = Found.begin /\ e = Found.end /\ b < e /\ e =< Len(str) /\ Opens(str, b)
  <2>1. PICK b \in Nat, e \in Nat :
          /\ b = Found.begin /\ e = Found.end /\ from =< b /\ b < e /\ e =< Len(str)
          /\ Opens(str, b)
    BY <1>5, MarkerFound, Zenon DEF Found, Opens
  <2>2. b # 0
    BY <1>5, <2>1
  <2> QED
    BY <2>1, <2>2, Zenon
<1>7. CASE Replace(Found, Num(Found))
  <2>1. str' = ReplaceString(str, v, b, e) /\ UNCHANGED <<job, k, sql, stage, vec>>
    BY <1>3, <1>6, <1>7, Zenon DEF Replace
  <2>2. Spoilt(str, Expected) \/ (b =< Len(Expected) /\ \A i \in 1..b : str[i] = Expected[i])
    BY <1>6, Zenon
  <2>3. Spoilt(ReplaceString(str, v, b, e), Expected)
    BY <1>1, <1>4, <1>5, <1>6, <2>2, SpoiltByReplace, Zenon
  <2> QED
    BY <2>1, <2>3, Zenon
<1>8. CASE PassOver(Found, Num(Found))
  <2>1. InVec(val) /\ UNCHANGED <<job, k, sql, stage, str, vec, val>>
    BY <1>8, Zenon DEF PassOver
  <2>2. val # -1
    BY <1>3, <2>1
  <2>3. Spoilt(str, Expected)
    BY <2>2, Zenon
  <2> QED
    BY <2>1, <2>3, Zenon
<1>9. CASE Throw(Num(Found))
  BY <1>9, Zenon DEF Throw
<1> QED
  BY <1>7, <1>8, <1>9, TurnCases, Zenon
\* If they have none, it finds the marker.
LEMMA ReadyWaiting ==
    ASSUME NEW j \in Job, NEW n \in 1..Len(j.row), ~Braced(Before(j.row, n))
    PROVE  Waiting(Ready(j.row, n), 1, Before(j.row, n), "0", Outro)
<1>1. PICK b \in Chars, m \in Nat : b = Before(j.row, n) /\ m = Len(b)
  BY BeforeText, CharsLen, Zenon
<1>2. 1 \in 1..(m + 1)
  OBVIOUS
<1>3. ASSUME NEW i \in 1..m, NEW h \in 1..m, Opens(b, i), Closes(b, h)
      PROVE  h < i
  <2>1. ~(i < h)
    BY <1>1, <1>3, BracedAt, Zenon
  <2>2. i # h
    BY <1>3 DEF Opens, Closes
  <2> QED
    BY <2>1, <2>2
<1> QED
  BY <1>1, <1>2, <1>3, Zenon DEF Waiting, Ready

\* The two turns that put the table and the marker of the first value in.
LEMMA TableTurn ==
    ASSUME TypeOK, Inserting, job.op = "insert", stage = "table", Turn
    PROVE  Inserting' /\ stage' \in Running
<1>1. 1 = Digit["0"] + 1 /\ 2 = Digit["1"] + 1
  BY DigitValue
<1>2. "0" \in Digits /\ "1" \in Digits
  BY DigitValue
<1>3. ~Over
  BY TurnCases, OverDone, Zenon
<1>4. Plain(<<"V", "(">>) /\ Len(<<"V", "(">>) >= 2 /\ Len(Outro) =< 2
  <2>1. 2 >= 2 /\ 2 =< 2
    OBVIOUS
  <2> QED
    BY <2>1, Words, InsertTexts, Zenon
<1>5. Outro \in Chars /\ Intro \in Chars /\ <<"I">> \in Chars
  BY Parts, InsertTexts, Zenon DEF Plain
<1>6. PICK t \in Chars, m \in Chars : t = <<"t">> /\ m = Marker("0") /\ vec = <<t, m>>
  BY Parts, Zenon DEF Inserting
<1>7. vec[1] = t /\ vec[2] = m /\ 1 =< Len(vec) /\ 2 =< Len(vec)
  BY <1>6
<1>8. CASE Waiting(str, from, <<"I">>, "0", <<"V", "(">> \o (Marker("1") \o Outro))
  <2>1. /\ Waiting(str', from', (<<"I">> \o vec[1]) \o <<"V", "(">>, "1", Outro)
        /\ UNCHANGED <<job, k, sql, stage, vec>>
    BY <1>1, <1>2, <1>4, <1>5, <1>7, <1>8, TurnToNext, Zenon
  <2>2. Waiting(str', from', Intro, "1", Outro)
    BY <1>6, <1>7, <2>1, Zenon DEF Intro
  <2>3. k = 1 /\ vec = << <<"t">>, Marker("0") >>
    BY Zenon DEF Inserting
  <2> QED
    BY <2>1, <2>2, <2>3 DEF Inserting, Running
<1>9. CASE Waiting(str, from, Intro, "1", Outro)
  <2>1. /\ str' = (Intro \o vec[2]) \o Outro
        /\ Over'
        /\ UNCHANGED <<job, k, sql, stage, vec>>
    BY <1>1, <1>2, <1>4, <1>5, <1>7, <1>9, TurnToEnd, Zenon
  <2>2. (Intro \o m) \o Outro = Intro \o (m \o Outro)
    BY <1>5, Assoc, Zenon
  <2>3. str' = Ready(job'.row, 1)
    BY <1>6, <1>7, <2>1, <2>2, Zenon DEF Ready, Before
  <2>4. k = 1 /\ vec = << <<"t">>, Marker("0") >>
    BY Zenon DEF Inserting
  <2> QED
    BY <2>1, <2>3, <2>4 DEF Inserting, Running
<1> QED
  BY <1>3, <1>8, <1>9, Zenon DEF Inserting

\* The turn that puts a value in its quotes.
LEMMA ValueTurn ==
    ASSUME TypeOK, Inserting, job.op = "insert", stage = "value", Turn
    PROVE  Inserting' /\ stage' \in Running
<1>1. 1 = Digit["0"] + 1 /\ "0" \in Digits
  BY DigitValue
<1>2. ~Over
  BY TurnCases, OverDone, Zenon
<1>3. /\ sql = Ready(job.row, k) \/ Lost(sql)
      /\ vec = <<job.row[k].chars>>
      /\ str = Quoted(job.row[k], Marker("0")) /\ from = 1
  BY <1>2, Zenon DEF Inserting
<1>4. job \in Job /\ k \in 1..Len(job.row)
  BY DEF TypeOK
<1>5. PICK c \in Chars : c = job.row[k].chars /\ vec = <<c>>
  BY <1>3, <1>4, RowValue, Zenon
<1>6. vec[1] = c /\ 1 =< Len(vec)
  BY <1>5
<1>7. PICK p \in Chars, q \in Chars :
        /\ Len(q) =< 2
        /\ Waiting(str, from, p, "0", q)
        /\ (p \o c) \o q = Value(job.row, k)
  BY <1>3, <1>4, <1>5, QuotedWaiting, Zenon
<1>8. /\ str' = (p \o vec[1]) \o q
      /\ Over'
      /\ UNCHANGED <<job, k, sql, stage, vec>>
  BY <1>1, <1>6, <1>7, TurnToEnd, Zenon
<1>9. str' = Value(job'.row, k')
  BY <1>6, <1>7, <1>8, Zenon
<1>10. sql' = Ready(job'.row, k') \/ Lost(sql)'
  BY <1>3, <1>8, SameJob, Zenon DEF Lost
<1>11. vec' = <<job'.row[k'].chars>>
  BY <1>3, <1>8, Zenon
<1> QED
  BY <1>8, <1>9, <1>10, <1>11 DEF Inserting, Running

\* The turns that put the value into the statement.
LEMMA SpliceTurn ==
    ASSUME TypeOK, Inserting, job.op = "insert", stage = "splice", Turn
    PROVE  Inserting' /\ InsertFaithful'
<1>1. 1 = Digit["0"] + 1 /\ "0" \in Digits
  BY DigitValue
<1>2. ~Over
  BY TurnCases, OverDone, Zenon
<1>3. vec = <<Piece(job.row, k)>> /\ job \in Job /\ k \in 1..Len(job.row)
  BY Zenon DEF Inserting, TypeOK
<1>4. PICK v \in Chars : v = Piece(job.row, k) /\ vec = <<v>>
  BY <1>3, PieceText, Zenon
<1>5. vec[1] = v /\ 1 =< Len(vec)
  BY <1>4
<1>6. PICK b \in Chars : b = Before(job.row, k)
  BY <1>3, BeforeText, Zenon
<1>7. ASSUME ~SafeRow,
             /\ UNCHANGED <<job, k>>
             /\ \/ stage' = "thrown"
                \/ stage' = stage /\ vec' = vec /\ Spoilt(str', Expected)
      PROVE  Inserting' /\ InsertFaithful'
  <2>1. Expected' = Expected /\ SafeRow' = SafeRow
    BY <1>7, SameJob, Zenon
  <2>2. CASE stage' = "thrown"
    <3>1. InsertFaithful'
      BY <1>7, <2>1, <2>2 DEF InsertFaithful
    <3> QED
      BY <2>2, <3>1 DEF Inserting
  <2>3. CASE stage' = stage /\ vec' = vec /\ Spoilt(str', Expected)
    <3>1. Lost(str)'
      BY <1>7, <2>1, <2>3, Zenon DEF Lost
    <3>2. vec' = <<Piece(job'.row, k')>>
      BY <1>3, <1>7, <2>3, Zenon
    <3>3. Inserting'
      BY <2>3, <3>1, <3>2 DEF Inserting
    <3> QED
      BY <2>3, <3>3, StillRunning DEF Running
  <2> QED
    BY <1>7, <2>2, <2>3
<1>8. CASE str = Ready(job.row, k) /\ from = 1 /\ val = -1 /\ ~Braced(b)
  <2>1. Waiting(str, from, b, "0", Outro)
    BY <1>3, <1>6, <1>8, ReadyWaiting, Zenon
  <2>2. Outro \in Chars /\ Len(Outro) =< 2
    <3>1. 2 =< 2
      OBVIOUS
    <3> QED
      BY <3>1, InsertTexts, Zenon
  <2>3. /\ str' = (b \o vec[1]) \o Outro
        /\ Over'
        /\ UNCHANGED <<job, k, sql, stage, vec>>
    BY <1>1, <1>5, <2>1, <2>2, TurnToEnd, Zenon
  <2>4. /\ str' = (Before(job'.row, k') \o Piece(job'.row, k')) \o Outro
        /\ ~Braced(Before(job'.row, k'))
        /\ vec' = <<Piece(job'.row, k')>>
    BY <1>4, <1>5, <1>6, <1>8, <2>3, Zenon
  <2>5. Inserting'
    BY <2>3, <2>4 DEF Inserting
  <2> QED
    BY <2>3, <2>5, StillRunning DEF Running
<1>9. CASE str = Ready(job.row, k) /\ from = 1 /\ val = -1 /\ Braced(b)
  <2>1. ~SafeRow
    BY <1>3, <1>6, <1>9, BracedBefore, InsertExpected, Zenon
  <2>2. PICK s \in Chars :
          /\ s = str
          /\ FindFlg(s, 1).begin =< Len(b)
          /\ FindFlg(s, 1).ok
          /\ \A i \in 1..Len(b) : s[i] = b[i]
    BY <1>3, <1>6, <1>9, BracesFirst, Zenon
  <2>3. Expected \in Chars /\ Len(b) =< Len(Expected) /\ \A i \in 1..Len(b) : Expected[i] = b[i]
    BY <1>3, <1>6, BeforeExpected, BeginsAt, Zenon
  <2>4. Found.begin = FindFlg(s, 1).begin
    BY <1>9, <2>2, Zenon DEF Found
  <2>5. PICK m \in Nat, n \in Nat, x \in Nat :
          m = Len(b) /\ n = Len(Expected) /\ x = FindFlg(s, 1).begin
    <3>1. 1 \in Nat \ {0}
      OBVIOUS
    <3>2. FindFlg(s, 1).begin \in Nat
      BY <2>2, <3>1, MarkerFound, Zenon
    <3> QED
      BY <2>3, <3>2, CharsLen, Zenon
  <2>6. x =< m /\ m =< n
    BY <2>2, <2>3, <2>5, Zenon
  <2>7. x =< n /\ \A i \in 1..x : i \in 1..m
    BY <2>6
  <2>8. Found.begin =< Len(Expected) /\ \A i \in 1..Found.begin : str[i] = Expected[i]
    BY <2>2, <2>3, <2>4, <2>5, <2>7, Zenon
  <2> QED
    BY <1>3, <1>7, <1>9, <2>1, <2>8, LostTurn, Zenon
<1>10. CASE Lost(str)
  <2>1. Spoilt(str, Expected) /\ ~SafeRow
    BY <1>10, Zenon DEF Lost
  <2> QED
    BY <1>3, <1>7, <2>1, LostTurn, Zenon
<1> QED
  BY <1>2, <1>6, <1>8, <1>9, <1>10, Zenon DEF Inserting
\* In either case it finds something.
LEMMA ReadyGoesOn ==
    ASSUME TypeOK, str = Ready(job.row, k), from = 1
    PROVE  Found.ok
<1>1. job \in Job /\ k \in 1..Len(job.row)
  BY Zenon DEF TypeOK
<1>2. CASE Braced(Before(job.row, k))
  <2>1. FindFlg(Ready(job.row, k), 1).ok
    BY <1>1, <1>2, BracesFirst, Zenon
  <2> QED
    BY <2>1, Zenon DEF Found
<1>3. CASE ~Braced(Before(job.row, k))
  <2>1. Waiting(str, from, Before(job.row, k), "0", Outro)
    BY <1>1, <1>3, ReadyWaiting, Zenon
  <2>2. "0" \in Digits
    BY DigitValue
  <2> QED
    BY <1>1, <2>1, <2>2, BeforeText, InsertTexts, WaitingGoesOn, Zenon
<1> QED
  BY <1>2, <1>3

\* insert_parse_sql formats the value it is called with.
LEMMA ValueCalled ==
    ASSUME TypeOK, stage' = "value", job' = job, k' \in 1..Len(job.row), FormatValue(k'),
           sql' = Ready(job.row, k') \/ (Spoilt(sql', Expected) /\ ~SafeRow)
    PROVE  Inserting' /\ InsertFaithful'
<1>1. /\ str' = Quoted(job'.row[k'], Marker("0")) /\ from' = 1
      /\ vec' = <<job'.row[k'].chars>>
  BY Zenon DEF FormatValue, Call
<1>2. sql' = Ready(job'.row, k') \/ Lost(sql)'
  BY SameJob, Zenon DEF Lost
<1>3. Inserting'
  BY <1>1, <1>2 DEF Inserting
<1> QED
  BY <1>3, StillRunning DEF Running

\* What one call returns goes into the next, and what the last one returns is
\* executed.
LEMMA InsertingCall ==
    ASSUME TypeOK, Inserting, job.op = "insert",
           InsertTable \/ Splice \/ NextValue \/ FillValues \/ Exec
    PROVE  Inserting' /\ InsertFaithful'
<1>1. stage # "shape" /\ stage # "fill"
  BY DEF Inserting
<1>2. job \in Job /\ k \in 1..Len(job.row) /\ "0" \in Digits /\ "1" \in Digits
  BY DigitValue DEF TypeOK
<1>3. /\ <<"I">> \in Chars /\ Intro \in Chars /\ Outro \in Chars
      /\ <<"V", "(">> \o (Marker("1") \o Outro) \in Chars
  BY Parts, InsertTexts, Joined, Zenon DEF Plain
<1>4. ASSUME Return("splice")
      PROVE  \/ /\ str = (Before(job.row, k) \o Piece(job.row, k)) \o Outro
                /\ ~Braced(Before(job.row, k))
             \/ Spoilt(str, Expected) /\ ~SafeRow
  BY <1>4, ReadyGoesOn, Zenon DEF Inserting, Return, Lost
<1>5. CASE InsertTable
  <2>1. /\ stage = "table" /\ ~Found.ok /\ sql' = str /\ FormatValue(1)
        /\ UNCHANGED <<job, k>>
    BY <1>5, Zenon DEF InsertTable, Return
  <2>2. k = 1 /\ str = Ready(job.row, 1)
    BY <1>2, <1>3, <2>1, WaitingGoesOn, Zenon DEF Inserting
  <2>3. stage' = "value" /\ k' = 1
    BY <2>1, <2>2, Zenon DEF FormatValue, Call
  <2> QED
    BY <1>2, <2>1, <2>2, <2>3, ValueCalled, Zenon
<1>6. CASE Splice
  <2>1. /\ stage = "value" /\ ~Found.ok
        /\ UNCHANGED <<job, k, sql>>
        /\ Call(sql, <<IF k < Len(job.row) THEN str \o <<",">> \o Marker("0") ELSE str>>, "splice")
    BY <1>6, Zenon DEF Splice, Return
  <2>2. str = Value(job.row, k)
    <3>1. ASSUME str = Quoted(job.row[k], Marker("0")), from = 1 PROVE FALSE
      <4>1. PICK p \in Chars, q \in Chars : Waiting(str, from, p, "0", q)
        BY <1>2, <3>1, QuotedWaiting, Zenon
      <4> QED
        BY <1>2, <2>1, <4>1, WaitingGoesOn, Zenon
    <3> QED
      BY <2>1, <3>1, Zenon DEF Inserting
  <2>3. (IF k < Len(job.row) THEN str \o <<",">> \o Marker("0") ELSE str) = Piece(job.row, k)
    BY <2>2, Zenon DEF Piece
  <2>4. /\ str' = sql /\ vec' = <<Piece(job'.row, k')>> /\ val' = -1 /\ from' = 1
        /\ stage' = "splice"
    BY <2>1, <2>3, Zenon DEF Call
  <2>5. str' = Ready(job'.row, k') \/ Lost(str)'
    BY <2>1, <2>4, SameJob, Zenon DEF Inserting, Lost
  <2>6. Inserting'
    BY <2>4, <2>5 DEF Inserting
  <2> QED
    BY <2>4, <2>6, StillRunning DEF Running
<1>7. CASE NextValue
  <2>1. /\ Return("splice") /\ k < Len(job.row) /\ k' = k + 1
        /\ sql' = str /\ FormatValue(k + 1) /\ job' = job
    BY <1>7, Zenon DEF NextValue
  <2>2. k' \in 1..Len(job.row) /\ stage' = "value"
    <3>1. Len(job.row) \in Nat
      BY <1>2, JobRow
    <3>2. k + 1 \in 1..Len(job.row)
      BY <1>2, <2>1, <3>1
    <3> QED
      BY <2>1, <3>2, Zenon DEF FormatValue, Call
  <2>3. (Before(job.row, k) \o Piece(job.row, k)) \o Outro = Ready(job.row, k + 1)
    BY <1>2, <2>1, NextReady, Zenon
  <2>4. sql' = Ready(job.row, k') \/ (Spoilt(sql', Expected) /\ ~SafeRow)
    BY <1>4, <2>1, <2>3, Zenon
  <2> QED
    BY <2>1, <2>2, <2>4, ValueCalled, Zenon
<1>8. CASE Exec
  <2>1. /\ Return("splice") /\ k = Len(job.row) /\ stage' = "exec"
        /\ UNCHANGED <<job, k, sql, str, vec, val, from>>
    BY <1>1, <1>8, Zenon DEF Exec, Return
  <2>2. Expected' = Expected /\ SafeRow' = SafeRow /\ str' = str
    BY <2>1, SameJob, Zenon
  <2>3. SafeRow <=> str = Expected
    <3>1. CASE /\ str = (Before(job.row, k) \o Piece(job.row, k)) \o Outro
               /\ ~Braced(Before(job.row, k))
      <4>1. ~(k < Len(job.row))
        BY <1>2, <2>1, JobRow
      <4>2. Piece(job.row, k) = Value(job.row, k)
        BY <4>1, Zenon DEF Piece
      <4>3. str = Expected
        BY <1>2, <2>1, <3>1, <4>2, BeforeText, InsertExpected, Zenon
      <4>4. SafeRow
        BY <1>2, <2>1, <3>1, BracedBefore, InsertExpected, Zenon
      <4> QED
        BY <4>3, <4>4
    <3>2. CASE Spoilt(str, Expected) /\ ~SafeRow
      BY <3>2, SpoiltIsOther, Zenon
    <3> QED
      BY <1>4, <2>1, <3>1, <3>2, Zenon
  <2>4. InsertFaithful'
    BY <2>1, <2>2, <2>3 DEF InsertFaithful
  <2> QED
    BY <2>1, <2>4 DEF Inserting
<1> QED
  BY <1>1, <1>5, <1>6, <1>7, <1>8, Zenon DEF FillValues, Return
-----------------------------------------------------------------------------
(***************************************************************************)
(* The invariant.                                                          *)
(***************************************************************************)
LEMMA InitTypeOK == Init => TypeOK
<1> SUFFICES ASSUME Init PROVE TypeOK
  OBVIOUS
<1>1. job \in Job /\ k = 1 /\ sql = <<>> /\ from = 1
  BY DEF Init
<1>2. k \in 1..Len(job.row)
  BY <1>1, JobRow
<1>3. sql \in Chars /\ from \in Nat \ {0}
  BY <1>1 DEF Chars
<1>4. stage \in Running \union {"exec", "thrown"}
  BY DEF Init, Running
<1>5. /\ <<"t">> \in Chars /\ <<"u">> \in Chars /\ <<"i">> \in Chars
      /\ Marker("0") \in Chars /\ Marker("1") \in Chars
  <2>1. /\ "t" \in Char /\ "u" \in Char /\ "i" \in Char
        /\ "0" \in Char /\ "1" \in Char
    BY KnownChars, Zenon
  <2> QED
    BY <2>1, Letter, Markers, Zenon
<1>6. /\ Quoted(job.row[1], Marker("0")) \in Chars
      /\ Quoted(job.row[2], Marker("1")) \in Chars
  BY <1>5, QuotedText
<1>7. str \in Chars
  BY Shapes DEF Init
<1>8. vec \in Seq(Chars)
  <2>1. PICK t \in Chars, u \in Chars, i \in Chars, m \in Chars, p \in Chars, q \in Chars :
          /\ t = <<"t">> /\ u = <<"u">> /\ i = <<"i">> /\ m = Marker("0")
          /\ p = Quoted(job.row[1], Marker("0")) /\ q = Quoted(job.row[2], Marker("1"))
    BY <1>5, <1>6, Zenon
  <2>2. /\ <<t, m>> \in Seq(Chars)
        /\ <<t, u, p, i, q>> \in Seq(Chars)
        /\ <<t, i, p>> \in Seq(Chars)
    OBVIOUS
  <2>3. vec \in {<<t, m>>, <<t, u, p, i, q>>, <<t, i, p>>}
    BY <2>1, Zenon DEF Init
  <2> QED
    BY <2>2, <2>3, Zenon
<1> QED
  BY <1>1, <1>2, <1>3, <1>4, <1>7, <1>8 DEF TypeOK

LEMMA TurnTypeOK ==
    ASSUME TypeOK, Turn
    PROVE  TypeOK'
<1>1. str \in Chars /\ from \in Nat \ {0} /\ vec \in Seq(Chars) /\ Found.ok
  BY TurnCases DEF TypeOK
<1>2. /\ Found.begin \in Nat \ {0} /\ Found.end \in Nat
      /\ Found.begin < Found.end /\ Found.end =< Len(str)
  <2>1. PICK b \in Nat, e \in Nat :
          b = Found.begin /\ e = Found.end /\ from =< b /\ b < e /\ e =< Len(str)
    BY <1>1, MarkerFound, Zenon DEF Found
  <2>2. b # 0
    BY <1>1, <2>1
  <2> QED
    BY <2>1, <2>2, Zenon
<1>3. \A n : InVec(n) => vec[n + 1] \in Chars /\ Len(vec[n + 1]) \in Nat
  BY <1>1 DEF InVec, Chars
<1>4. CASE Replace(Found, Num(Found))
  <2>1. str' \in Chars
    BY <1>1, <1>2, <1>3, <1>4, Replaced DEF Replace
  <2>2. from' \in Nat \ {0}
    BY <1>2, <1>3, <1>4 DEF Replace, NextFrom
  <2> QED
    BY <2>1, <2>2, <1>4 DEF TypeOK, Replace
<1>5. CASE PassOver(Found, Num(Found))
  <2>1. from' \in Nat \ {0}
    BY <1>2, <1>3, <1>5 DEF PassOver, NextFrom
  <2> QED
    BY <2>1, <1>5 DEF TypeOK, PassOver
<1>6. CASE Throw(Num(Found))
  BY <1>6 DEF TypeOK, Throw
<1> QED
  BY <1>4, <1>5, <1>6, TurnCases

\* A call of sformat begins or the statement is executed.
LEMMA CallTypeOK ==
    ASSUME TypeOK, InsertTable \/ Splice \/ NextValue \/ FillValues \/ Exec
    PROVE  TypeOK'
<1>1. /\ job \in Job /\ k \in 1..Len(job.row) /\ sql \in Chars
      /\ str \in Chars /\ Len(job.row) \in Nat \ {0}
  BY JobRow DEF TypeOK
<1>2. ASSUME NEW n \in 1..Len(job.row), FormatValue(n)
      PROVE  /\ str' \in Chars /\ vec' \in Seq(Chars) /\ from' \in Nat \ {0}
             /\ stage' \in Running
  <2>1. PICK c \in Chars : c = job.row[n].chars
    BY <1>1, RowValue
  <2>2. <<c>> \in Seq(Chars)
    OBVIOUS
  <2>3. vec' = <<c>>
    BY <1>2, <2>1, Zenon DEF FormatValue, Call
  <2>4. vec' \in Seq(Chars)
    BY <2>2, <2>3, Zenon
  <2>5. "0" \in Char
    BY KnownChars, Zenon
  <2>6. str' \in Chars
    BY <1>2, <2>5, Markers, QuotedText, Zenon DEF FormatValue, Call
  <2>7. from' = 1 /\ stage' = "value"
    BY <1>2 DEF FormatValue, Call
  <2> QED
    BY <2>4, <2>6, <2>7 DEF Running
<1>3. CASE InsertTable
  <2>1. 1 \in 1..Len(job.row)
    BY <1>1
  <2> QED
    BY <1>1, <1>2, <1>3, <2>1 DEF InsertTable, TypeOK
<1>4. CASE Splice
  <2>1. "0" \in Char /\ "," \in Char
    BY KnownChars, Zenon
  <2>2. <<",">> \in Chars
    BY <2>1, Letter, Zenon
  <2>3. str \o <<",">> \o Marker("0") \in Chars
    BY <1>1, <2>1, <2>2, Markers, Joined, Zenon
  <2>4. PICK flg \in Chars : Call(sql, <<flg>>, "splice")
    BY <1>1, <1>4, <2>3, Zenon DEF Splice
  <2>5. <<flg>> \in Seq(Chars)
    OBVIOUS
  <2>6. vec' \in Seq(Chars) /\ str' \in Chars
    BY <1>1, <2>4, <2>5, Zenon DEF Call
  <2>7. from' = 1 /\ stage' = "splice"
    BY <2>4 DEF Call
  <2>8. UNCHANGED <<job, k, sql>>
    BY <1>4, Zenon DEF Splice
  <2> QED
    BY <1>1, <2>6, <2>7, <2>8 DEF TypeOK, Running
<1>5. CASE NextValue
  <2>1. k + 1 \in 1..Len(job.row)
    BY <1>1, <1>5 DEF NextValue
  <2> QED
    BY <1>1, <1>2, <1>5, <2>1 DEF NextValue, TypeOK
<1>6. CASE FillValues
  <2>1. job.row \in Seq(Values)
    BY <1>1, JobRow
  <2>2. DOMAIN job.row = 1..Len(job.row)
    BY <2>1
  <2>3. \A n \in 1..Len(job.row) : job.row[n].chars \in Chars
    BY <1>1, RowValue
  <2>4. [n \in 1..Len(job.row) |-> job.row[n].chars] \in Seq(Chars)
    BY <1>1, <2>3
  <2>5. vec' \in Seq(Chars)
    BY <1>6, <2>2, <2>4 DEF FillValues, Call
  <2>6. str' = str /\ from' = 1 /\ stage' = "fill"
    BY <1>6 DEF FillValues, Call
  <2> QED
    BY <1>1, <1>6, <2>5, <2>6 DEF FillValues, TypeOK, Running
<1>7. CASE Exec
  BY <1>7 DEF TypeOK, Exec
<1> QED
  BY <1>3, <1>4, <1>5, <1>6, <1>7

\* Texts and arguments stay texts, the place of the search a place, and the value
\* being put in one of the row, in every step of insert_db, update_db, delete_db.
THEOREM TypeCorrect == Spec => []TypeOK
<1>1. ASSUME TypeOK, [Next]_vars PROVE TypeOK'
  <2>1. CASE Next
    BY <1>1, <2>1, TurnTypeOK, CallTypeOK DEF Next
  <2>2. CASE UNCHANGED vars
    BY <1>1, <2>2 DEF TypeOK, vars
  <2> QED
    BY <1>1, <2>1, <2>2
<1> QED
  BY <1>1, InitTypeOK, PTL DEF Spec
-----------------------------------------------------------------------------
(***************************************************************************)
(* The loop of sformat_t.                                                  *)
(***************************************************************************)
\* A turn of the loop of sformat_t that neither returns nor throws leaves less
\* text to search than it found: a marker that is replaced takes its own length
\* out of what is left, whatever is put in, and braces without a number are
\* passed over.  So no text, however it grows, keeps the loop going for ever.
THEOREM SearchShrinksHolds == Spec => SearchShrinks
<1>1. ASSUME TypeOK, [Next]_vars
      PROVE  [Found.ok /\ stage' \in Running => Len(str') - from' < Len(str) - from]_vars
  <2>1. SUFFICES ASSUME Next, Found.ok, stage' \in Running
                 PROVE  Len(str') - from' < Len(str) - from
    BY <1>1
  <2>2. Replace(Found, Num(Found)) \/ PassOver(Found, Num(Found))
    BY <2>1, TurnCases DEF Next, Throw, InsertTable, Splice, NextValue, FillValues, Exec,
                           Return, Running
  <2>3. /\ str \in Chars /\ from \in Nat \ {0} /\ vec \in Seq(Chars)
        /\ Len(str) \in Nat
    BY <1>1 DEF TypeOK, Chars
  <2>4. /\ Found.begin \in Nat \ {0} /\ Found.end \in Nat /\ from =< Found.begin
        /\ Found.begin < Found.end /\ Found.end =< Len(str)
    <3>1. PICK b \in Nat, e \in Nat :
            b = Found.begin /\ e = Found.end /\ from =< b /\ b < e /\ e =< Len(str)
      BY <2>1, <2>3, MarkerFound, Zenon DEF Found
    <3>2. b # 0
      BY <2>3, <3>1
    <3> QED
      BY <3>1, <3>2, Zenon
  <2>5. \A n : InVec(n) => vec[n + 1] \in Chars /\ Len(vec[n + 1]) \in Nat
    BY <2>3 DEF InVec, Chars
  <2>6. CASE Replace(Found, Num(Found))
    <3>1. PICK flg \in Chars :
            /\ str' = ReplaceString(str, flg, Found.begin, Found.end)
            /\ from' = Found.end + Len(flg)
            /\ Len(flg) \in Nat
      BY <2>5, <2>6 DEF Replace, NextFrom
    <3>2. Len(str') = Found.begin - 1 + Len(flg) + Len(str) - Found.end
      BY <2>3, <2>4, <3>1, Replaced
    <3>3. PICK b \in Nat, e \in Nat, f \in Nat, m \in Nat, n \in Nat :
            /\ b = Found.begin /\ e = Found.end /\ f = from
            /\ m = Len(str) /\ n = Len(flg)
      BY <2>3, <2>4, <3>1, Zenon
    <3>4. f =< b /\ b < e
      BY <2>4, <3>3, Zenon
    <3>5. Len(str') = b - 1 + n + m - e /\ from' = e + n
      BY <3>1, <3>2, <3>3, Zenon
    <3>6. (b - 1 + n + m - e) - (e + n) < m - f
      BY <3>4
    <3> QED
      BY <3>3, <3>5, <3>6, Zenon
  <2>7. CASE PassOver(Found, Num(Found))
    <3>1. PICK size \in Nat : from' = Found.end + size /\ str' = str
      BY <2>5, <2>7 DEF PassOver, NextFrom
    <3> QED
      BY <2>3, <2>4, <3>1
  <2> QED
    BY <2>2, <2>6, <2>7
<1> QED
  BY <1>1, TypeCorrect, PTL DEF Spec, SearchShrinks
-----------------------------------------------------------------------------
(***************************************************************************)
(* What is executed.                                                       *)
(***************************************************************************)
\* What the loop has made of the text, at every turn of it, for each of the three
\* operations.
THEOREM Invariance == Spec => []IInv
<1>1. Init => IInv
  <2> SUFFICES ASSUME Init PROVE IInv
    OBVIOUS
  <2>1. stage # "exec" /\ stage # "thrown"
    BY DEF Init
  <2>2. InsertFaithful
    BY <2>1, Zenon DEF InsertFaithful
  <2> QED
    BY <2>2, InitTypeOK, InsertingInit, UpdatingInit, DeletingInit, Zenon DEF IInv
<1>2. IInv /\ [Next]_vars => IInv'
  <2> SUFFICES ASSUME IInv, [Next]_vars PROVE IInv'
    OBVIOUS
  <2>1. /\ TypeOK /\ InsertFaithful
        /\ job.op = "insert" => Inserting
        /\ job.op = "update" => Updating
        /\ job.op = "delete" => Deleting
    BY Zenon DEF IInv
  <2>2. job.op \in {"insert", "update", "delete"}
    BY <2>1, JobRow DEF TypeOK
  <2>3. CASE Turn
    <3>1. TypeOK' /\ job' = job
      BY <2>1, <2>3, TurnTypeOK, TurnCases, Zenon DEF Replace, PassOver, Throw
    <3>2. CASE job.op = "insert"
      <4>1. stage \in {"table", "value", "splice"}
        BY <2>1, <2>3, <3>2, TurnCases DEF Inserting, Running
      <4>2. Inserting' /\ InsertFaithful'
        BY <2>1, <2>3, <3>2, <4>1, TableTurn, ValueTurn, SpliceTurn, StillRunning
      <4> QED
        BY <3>1, <3>2, <4>2 DEF IInv
    <3>3. CASE job.op = "update"
      BY <2>1, <2>3, <3>1, <3>3, UpdatingTurn, StillRunning DEF IInv
    <3>4. CASE job.op = "delete"
      BY <2>1, <2>3, <3>1, <3>4, DeletingTurn, StillRunning DEF IInv
    <3> QED
      BY <2>2, <3>2, <3>3, <3>4
  <2>4. CASE InsertTable \/ Splice \/ NextValue \/ FillValues \/ Exec
    <3>1. TypeOK'
      BY <2>1, <2>4, CallTypeOK
    <3>2. job' = job
      BY <2>4, Zenon DEF InsertTable, Splice, NextValue, FillValues, Exec
    <3>3. CASE job.op = "insert"
      BY <2>1, <2>4, <3>1, <3>2, <3>3, InsertingCall DEF IInv
    <3>4. CASE job.op = "update"
      BY <2>1, <2>4, <3>1, <3>2, <3>4, UpdatingCall DEF IInv
    <3>5. CASE job.op = "delete"
      BY <2>1, <2>4, <3>1, <3>2, <3>5, DeletingCall DEF IInv
    <3> QED
      BY <2>2, <3>3, <3>4, <3>5
  <2>5. CASE UNCHANGED vars
    <3>1. UNCHANGED <<job, k, sql, stage, str, vec, val, from>>
      BY <2>5, Zenon DEF vars
    <3>2. TypeOK' /\ InsertFaithful'
      BY <2>1, <3>1, SameJob DEF TypeOK, InsertFaithful
    <3>3. job.op = "insert" => Inserting'
      <4>1. Over' = Over /\ Lost(str)' = Lost(str) /\ Lost(sql)' = Lost(sql)
        BY <3>1, SameJob DEF Over, Lost
      <4> QED
        BY <2>1, <3>1, <4>1 DEF Inserting
    <3>4. job.op = "update" => Updating'
      BY <2>1, <3>1, SameJob DEF Updating, Over
    <3>5. job.op = "delete" => Deleting'
      BY <2>1, <3>1, SameJob DEF Deleting, Over
    <3> QED
      BY <3>1, <3>2, <3>3, <3>4, <3>5, Zenon DEF IInv
  <2> QED
    BY <2>3, <2>4, <2>5, Zenon DEF Next
<1> QED
  BY <1>1, <1>2, PTL DEF Spec

\* insert_db, update_db and delete_db: an update and a delete execute the statement
\* they should; a row is inserted as it is exactly if its values but for the last
\* have, taken together, no "{" with a "}" further on; and only a row that has such
\* braces makes the program throw.
THEOREM InsertFaithfulHolds == Spec => []InsertFaithful
<1>1. IInv => InsertFaithful
  BY DEF IInv
<1> QED
  BY <1>1, Invariance, PTL
=============================================================================
