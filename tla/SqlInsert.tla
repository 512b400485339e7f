------------------------------ MODULE SqlInsert ------------------------------
(***************************************************************************)
(* How a row becomes an SQL statement: insert_db, update_db and delete_db  *)
(* put it together with sformat, which replaces markers {n} in a text that *)
(* already contains the values replaced before.                            *)
(*                                                                         *)
(* A text is a sequence of characters, of which only braces, digits and    *)
(* the rest are told apart; the words of a statement are shortened, with   *)
(* at least two characters between markers, as in the code.  One step is   *)
(* one turn of the loop of sformat_t.                                      *)
(***************************************************************************)
EXTENDS Integers, Sequences, FiniteSetsExt

CONSTANTS
    Rows,       \* rows to insert: sequences of values
    Numbers,    \* the values among them that are numbers, as to_string writes them
    Other       \* the characters of the values that mean nothing to sformat

\* The characters of a text: marks and words of the templates, those that
\* std::stoi looks at, others.
Digits == {"0", "1", "2", "3", "4", "5", "6", "7", "8", "9"}
Char == {"{", "}", "'", ",", "(", ")", ";", "=", " ", "+", "-"}
        \union {"I", "V", "U", "S", "E", "W", "H", "D", "t", "i", "u"}
        \union Digits \union Other

\* insert_db takes at least one value, and no number is written with braces.
ASSUME SqlInsertAssumption ==
    /\ Numbers \subseteq [text : {FALSE}, chars : Seq(Char \ {"{", "}"}) \ {<<>>}]
    /\ Rows \subseteq Seq(Numbers \union [text : {TRUE}, chars : Seq(Char)])
    /\ \A row \in Rows : Len(row) > 0

VARIABLES
    job,        \* the operation, and the row or the values it is called with
    k,          \* insert: the value being put in
    sql,        \* insert: the statement so far
    stage,      \* which call of sformat runs, or how the operation ended
    str,        \* sformat: _str
    vec,        \* sformat: _vec, the arguments
    val,        \* sformat_t: number of the marker found last
    from        \* sformat_t: where the search goes on (end)

vars == <<job, k, sql, stage, str, vec, val, from>>

\* A value: its C++ type decides whether it is quoted.
Number(c) == [text |-> FALSE, chars |-> <<c>>]
Text(s) == [text |-> TRUE, chars |-> s]

Digit == [c \in Digits |->
            CASE c = "0" -> 0 [] c = "1" -> 1 [] c = "2" -> 2 [] c = "3" -> 3
              [] c = "4" -> 4 [] c = "5" -> 5 [] c = "6" -> 6 [] c = "7" -> 7
              [] c = "8" -> 8 [] c = "9" -> 9]
Marker(d) == <<"{", d, "}">>
Quoted(v, s) == IF v.text THEN <<"'">> \o s \o <<"'">> ELSE s

\* The templates; "t" is the table, "i" and "u" are fields.
InsertShape == <<"I">> \o Marker("0") \o <<"V", "(">> \o Marker("1") \o <<")", ";">>
UpdateShape == <<"U">> \o Marker("0") \o <<"S", "E">> \o Marker("1") \o <<"=", " ">>
               \o Marker("2") \o <<"W", "H">> \o Marker("3") \o <<"=", " ">>
               \o Marker("4") \o <<";", " ">>
DeleteShape == <<"D">> \o Marker("0") \o <<"W", "H">> \o Marker("1") \o <<"=", " ">>
               \o Marker("2") \o <<";", " ">>
-----------------------------------------------------------------------------
(***************************************************************************)
(* sformat.                                                                *)
(***************************************************************************)
\* Mutant: the marker begins at the first "{".
FindFlg_First(s, b) ==
    LET Open == {i \in b..Len(s) : s[i] = "{"}
        Close == {i \in b..Len(s) : s[i] = "}" /\ \E j \in Open : j < i}
    IN IF Close = {} THEN [ok |-> FALSE, begin |-> 0, end |-> 0]
       ELSE [ok |-> TRUE, end |-> Min(Close), begin |-> Min(Open)]

\* find_flg: the first "}" that has a "{" before it, and the last such "{".
FindFlg(s, b) ==
    LET Open == {i \in b..Len(s) : s[i] = "{"}
        Close == {i \in b..Len(s) : s[i] = "}" /\ \E j \in Open : j < i}
    IN IF Close = {} THEN [ok |-> FALSE, begin |-> 0, end |-> 0]
       ELSE [ok |-> TRUE, end |-> Min(Close),
             begin |-> Max({j \in Open : j < Min(Close)})]

\* to_num: std::stoi passes over spaces and a sign, takes the digits that follow,
\* and throws if there are none or the number is too large for an int.
MaxInt == 2147483647

\* The number written by the digits behind first, up to last.
Natural(s, first, last) ==
    LET natural[i \in first..last] ==
            IF i = first THEN 0 ELSE 10 * natural[i - 1] + Digit[s[i]]
    IN natural[last]

ToNum(s) ==
    LET space == Max({i \in 0..Len(s) : \A j \in 1..i : s[j] = " "})
        first == IF space < Len(s) /\ s[space + 1] \in {"+", "-"} THEN space + 1 ELSE space
        last == Max({i \in first..Len(s) : \A j \in (first + 1)..i : s[j] \in Digits})
        abs == Natural(s, first, last)
        num == IF first > space /\ s[first] = "-" THEN -abs ELSE abs
    IN [ok |-> last > first /\ -MaxInt - 1 <= num /\ num <= MaxInt, val |-> num]

\* replace_string
ReplaceString(s, flg, begin, end) ==
    SubSeq(s, 1, begin - 1) \o flg \o SubSeq(s, end + 1, Len(s))

\* sformat(s)(args...) is called.
Call(s, args, next) ==
    /\ str' = s
    /\ vec' = args
    /\ val' = -1
    /\ from' = 1
    /\ stage' = next

Running == {"table", "value", "splice", "shape", "fill"}
Found == FindFlg(str, from)
Num(f) == ToNum(SubSeq(str, f.begin + 1, f.end - 1))
InVec(n) == n \in 0..(Len(vec) - 1)

\* Mutant: the text put in is searched for markers again.
NextFrom_Rescan(f, size) == f.begin

\* The search goes on behind the text put in, and two or more characters
\* further: "end" is where the marker ended before it was replaced.
NextFrom(f, size) == f.end + size

\* A marker with a number: its argument takes its place.
Replace(f, num) ==
    /\ num.ok /\ InVec(num.val)
    /\ val' = num.val
    /\ str' = ReplaceString(str, vec[num.val + 1], f.begin, f.end)
    /\ from' = NextFrom(f, Len(vec[num.val + 1]))
    /\ UNCHANGED <<job, k, sql, stage, vec>>

\* Mutant: a marker without a number is not passed over, and not an error.
PassOver_Stay(f, num) == ~num.ok /\ UNCHANGED vars

\* Braces without a number are passed over, by the size of the argument used
\* before.
PassOver(f, num) ==
    /\ ~num.ok /\ InVec(val)
    /\ from' = NextFrom(f, Len(vec[val + 1]))
    /\ UNCHANGED <<job, k, sql, stage, str, vec, val>>

\* There is no such argument: _vec.at throws, and nobody catches.
Throw(num) ==
    LET v == IF num.ok THEN num.val ELSE val
    IN /\ ~InVec(v)
       /\ stage' = "thrown"
       /\ val' = v
       /\ UNCHANGED <<job, k, sql, str, vec, from>>

\* One turn of the loop: find_flg has found a marker, to_num reads its number.
Turn ==
    /\ stage \in Running
    /\ \E f \in {Found} :
        /\ f.ok
        /\ \E num \in {Num(f)} : Replace(f, num) \/ PassOver(f, num) \/ Throw(num)

\* No marker is left: the call returns _str.
Return(s) == stage = s /\ ~Found.ok
-----------------------------------------------------------------------------
(***************************************************************************)
(* insert_db(t, values...), update_db(t, i, id, u, update) and             *)
(* delete_db(t, i, id); the callers of the last two pass numbers.          *)
(***************************************************************************)
Job == [op : {"insert"}, row : Rows]
       \union [op : {"update"}, row : {<<update, id>> : update \in Numbers, id \in Numbers}]
       \union [op : {"delete"}, row : {<<id>> : id \in Numbers}]

Init ==
    /\ job \in Job
    /\ k = 1
    /\ sql = <<>>
    /\ val = -1
    /\ from = 1
    /\ stage = IF job.op = "insert" THEN "table" ELSE "shape"
    /\ \/ job.op = "insert" /\ str = InsertShape
          /\ vec = << <<"t">>, Marker("0") >>
       \/ job.op = "update" /\ str = UpdateShape
          /\ vec = << <<"t">>, <<"u">>, Quoted(job.row[1], Marker("0")),
                      <<"i">>, Quoted(job.row[2], Marker("1")) >>
       \/ job.op = "delete" /\ str = DeleteShape
          /\ vec = << <<"t">>, <<"i">>, Quoted(job.row[1], Marker("0")) >>

\* insert_parse_sql formats the value,
FormatValue(n) == Call(Quoted(job.row[n], Marker("0")), <<job.row[n].chars>>, "value")

InsertTable ==
    /\ Return("table")
    /\ sql' = str
    /\ FormatValue(1)
    /\ UNCHANGED <<job, k>>

\* ... puts it into the statement, with a marker for the next one,
Splice ==
    /\ Return("value")
    /\ LET flg == IF k < Len(job.row) THEN str \o <<",">> \o Marker("0") ELSE str
       IN Call(sql, <<flg>>, "splice")
    /\ UNCHANGED <<job, k, sql>>

\* ... and insert_mpl goes on to the next, or executes the statement.
NextValue ==
    /\ Return("splice")
    /\ k < Len(job.row)
    /\ k' = k + 1
    /\ sql' = str
    /\ FormatValue(k + 1)
    /\ UNCHANGED job

\* update_db and delete_db: the second call puts the values in.
FillValues ==
    /\ Return("shape")
    /\ Call(str, [n \in DOMAIN job.row |-> job.row[n].chars], "fill")
    /\ UNCHANGED <<job, k, sql>>

Exec ==
    /\ \/ Return("splice") /\ k = Len(job.row)
       \/ Return("fill")
    /\ stage' = "exec"
    /\ UNCHANGED <<job, k, sql, str, vec, val, from>>

Next ==
    \/ Turn
    \/ InsertTable \/ Splice \/ NextValue \/ FillValues \/ Exec

Spec == Init /\ [][Next]_vars

\* The thread that inserts goes on.
FairSpec == Spec /\ WF_vars(Next)
-----------------------------------------------------------------------------
(***************************************************************************)
(* Properties.                                                             *)
(***************************************************************************)
\* The first n values of a row, as a statement lists them.
Listing(row) ==
    LET Value(n) == Quoted(row[n], row[n].chars)
        list[n \in 0..Len(row)] ==
            IF n = 0 THEN <<>>
            ELSE (IF n = 1 THEN <<>> ELSE list[n - 1] \o <<",">>) \o Value(n)
    IN list

\* What the statement should be: the template with its arguments in place.
Expected ==
    LET row == job.row
    IN CASE job.op = "insert" ->
              <<"I">> \o <<"t">> \o <<"V", "(">> \o Listing(row)[Len(row)] \o <<")", ";">>
         [] job.op = "update" ->
              <<"U">> \o <<"t">> \o <<"S", "E">> \o <<"u">> \o <<"=", " ">> \o row[1].chars
              \o <<"W", "H">> \o <<"i">> \o <<"=", " ">> \o row[2].chars \o <<";", " ">>
         [] job.op = "delete" ->
              <<"D">> \o <<"t">> \o <<"W", "H">> \o <<"i">> \o <<"=", " ">> \o row[1].chars
              \o <<";", " ">>

\* What looks like a marker: "{" and, further on, "}".
Braced(s) == \E i, j \in DOMAIN s : i < j /\ s[i] = "{" /\ s[j] = "}"
SafeRow == job.op = "insert" => ~Braced(Listing(job.row)[Len(job.row) - 1])

\* Updates and deletes get the statement they should.  A row is inserted exactly
\* if its values but for the last, taken together, have no "{" with a "}" further
\* on, whatever the last value holds: so it is for the history, where the content
\* comes last.  Any other row is not inserted as it is, or not at all: a friend
\* request whose notes have such braces, or two texts that have one each.
InsertFaithful ==
    /\ stage = "exec" => (SafeRow <=> str = Expected)
    /\ stage = "thrown" => ~SafeRow

\* Within one call every turn of the loop leaves less text to search, although
\* the text may grow.
SearchShrinks ==
    [][Found.ok /\ stage' \in Running => Len(str') - from' < Len(str) - from]_vars

\* Every operation reaches sqlite3_exec or throws: no text makes sformat go on
\* for ever.
Terminates == <>(stage \in {"exec", "thrown"})
=============================================================================
