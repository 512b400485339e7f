----------------------------- MODULE MCSqlInsert -----------------------------
(***************************************************************************)
(* Instance of SqlInsert for TLC: rows of a number and two texts, and of a *)
(* number and three.                                                       *)
(***************************************************************************)
EXTENDS SqlInsert

Letters == {"x"}
Figures == {Number("0"), Number("4")}

\* Every text of at most two characters, every marker-like text of three, and
\* some with a sign, a space or a marker before braces without a number.
SmallTexts ==
    (UNION {[1..n -> {"{", "}", "0", "x"}] : n \in 0..2})
    \union {Marker(c) : c \in {"{", "}", "0", "1", "x"}}
    \union {Marker("0") \o <<"x", "x">> \o Marker("x"),
            Marker("0") \o Marker("0"), <<"{", "0", "x", "}">>,
            <<"{", " ", "0", "}">>, <<"{", "-", "0", "}">>}

\* Texts that make a marker, or nearly one, only together.
PartTexts == {<<"x">>, <<"{">>, <<"}">>, <<"{", "0">>, <<"}", "x", "{">>}

SmallRows ==
    {<<Number("4"), Text(a), Text(b)>> : a \in SmallTexts, b \in SmallTexts}
    \union {<<Number("4"), Text(a), Text(b), Text(c)>> :
               a \in PartTexts, b \in PartTexts, c \in {<<"x">>, Marker("0")}}
=============================================================================
