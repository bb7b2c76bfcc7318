---------------------------- MODULE MCSqliDetect ----------------------------
(***************************************************************************)
(* The SQL detector on every text over three alphabets: marks, operators   *)
(* and keywords; escapes and NUL; and what the tautologies are made of.    *)
(***************************************************************************)
EXTENDS SqliDetect

(* Letters: u, s, o, a, w are keywords, the digits are the hexadecimal     *)
(* ones, in the order in which their pairs name the characters.            *)
Digits == <<"0", "1", "2", "3">>
Chars == <<" ", "TAB", "-", "/", "*", "'", "=", ";", "u", "s", "o", "0", "1", Nul, "+", "%">>

Texts(alphabet, n) == UNION {[1..k -> alphabet] : k \in 0..n}

MCPayloads ==
    Texts({" ", "-", "/", "*", "u", "s"}, 5)
    \cup Texts({" ", "-", "/", "'", "u", "s"}, 4)
    \cup Texts({"%", "+", "0", "1", "3", Nul, "u"}, 4)
    \cup Texts({"a", "'", "#", "-", ";", "w", " "}, 4)
    \cup {<<"o", "TAB">> \o t : t \in Texts({"o", "0", "=", "'"}, 4)}
    \cup {<<"o">> \o t : t \in Texts({"0", "=", "'"}, 5)}

Place(d) == CHOOSE i \in 1..4 : Digits[i] = d

MCByte ==
    [h \in {<<x, y>> : x, y \in {"0", "1", "2", "3"}} |->
        Chars[4 * (Place(h[1]) - 1) + Place(h[2])]]

MCKeyword ==
    [union |-> {Word("u")}, select |-> {Word("s")}, or |-> {Word("o")},
     admin |-> {Word("a")}, stacked |-> {Word("w"), Word("s")},
     error |-> {<<"u", "s">>}, time |-> {<<"u", "u">>}, write |-> {<<"s", "u">>}]

MCSpaces == {" ", "TAB"}
MCOperators == {"=", "'", ";", "#"}
MCRawUnion == {<<"u", " ", "s">>}
MCRawOr == {<<"o", " ", "0", "=", "0">>}
=============================================================================
