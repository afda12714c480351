----------------------------- MODULE MCParseBat -----------------------------
(***************************************************************************)
(* Outputs of batctl for the parser: tables of none, one and three         *)
(* neighbours, cut short at every character, and outputs that are none.    *)
(***************************************************************************)
EXTENDS ParseBat

MCChar == {"a", "b", "_", "/"}   \* a blank is _, the newline /

Header == <<"a", "/", "_", "/">>
Rows == {<<"_", "a", "_", "a", "b", "/">>, <<"_", "_", "b", "_", "_", "b", "a", "_", "a", "/">>}
Short == <<"_", "b", "_", "b", "b", "/">>
Tables == {Header} \cup {Header \o r : r \in Rows} \cup {Header \o r \o Short \o s : r, s \in Rows}
Odd == {<<"/", "/", "a", "/", "b", "a", "/">>, <<"/", "/", "/", "_", "a", "/">>}

\* All but Odd are Tabular.
MCTexts == UNION {{SubSeq(t, 1, i) : i \in 0 .. Len(t)} : t \in Tables} \cup Odd
=============================================================================
