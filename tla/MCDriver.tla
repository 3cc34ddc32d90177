------------------------------ MODULE MCDriver ------------------------------
(***************************************************************************)
(* Small source texts for Driver: one to three lines out of a set that     *)
(* holds each thing the preprocessor or the lexer treats in a way of its   *)
(* own, with and without a newline at the end.                             *)
(***************************************************************************)
EXTENDS SourceTokens

MCLetters == {"A", "B", "x", "define"}
MCDigits == {"1"}
MCEscapes == [c \in {"x", "\\", "\"", "'"} |-> IF c = "x" THEN "hex" ELSE c]

Def(name, body) == <<"#", "define", "sp", name>> \o body
Lines == {
    Def("A", <<"sp", "1">>), <<"sp">> \o Def("B", <<"sp", "A", "+", "x">>), Def("A", << >>),
    Def("A", <<"sp", "A", "/", "*", "*", "/">>),
    Def("A", <<"sp", "1", "/", "/">>), Def("1", << >>), <<"#", "A">>,
    <<"A", ";">>, <<"sp", "B", "+", "A">>, << >>, <<"@", "sp", "A">>,
    <<"x", "/", "/", "A">>, <<"/", "/", "x">>, <<"/", "*", "A", "*", "/", "B">>,
    <<"sp", "/", "*", "A">>, <<"*", "/", "sp">> \o Def("A", <<"sp", "1">>),
    <<"\"", "/", "/", "x", "\"", "A">>, <<"\"", "A", "\\", "x", "\"", "A">>, <<"sp", "\"">>,
    <<"'", "A", "'", "+", "'", "\\", "'", "'">>, <<"sp", "'", "x">>,
    <<"sp", "A", "=", "=", ".", ".", ".", "1">> }

Lf == <<"nl">>
\* A use of A at the position that x has in the replacement of B.
Stray == Def("A", <<"sp", "1">>) \o Lf \o <<"sp", "A", ";">> \o Lf
           \o <<"sp">> \o Def("B", <<"sp", "1", "1", "1", "1", "1", "1", "+", "x">>) \o Lf \o <<"sp", "B", "+", "A">> \o Lf
MCSources ==
    {Stray} \cup
    {l : l \in Lines} \cup {l \o Lf : l \in Lines}
      \cup {k \o Lf \o l : k \in Lines, l \in Lines}
      \cup {k \o Lf \o l \o Lf : k \in Lines, l \in Lines}
      \cup {k \o Lf \o l \o Lf \o m \o Lf : k \in Lines, l \in Lines, m \in Lines}

MCArgVectors == {
    <<"a.c", "-o", "a.s">>, <<"a.c", "-O", "-o", "a.s">>, <<"a.c">>, <<"a.c", "-o">>,
    <<"-?", "a.c", "-o", "a.s">>, <<"-o", "a.s">> }

\* The arguments and the disk matter to one source as to another.
MCInit ==
    /\ Init
    /\ Len(src) > 3 => disk = <<TRUE, TRUE>> /\ argv = <<"a.c", "-o", "a.s">>
MCSpec == MCInit /\ [][Next]_vars /\ WF_vars(Next)
=============================================================================
