----------------------------- MODULE SqliDetect -----------------------------
(***************************************************************************)
(* The SQL detector (kernel/sqli_detect.c): detect_sqli decodes a payload, *)
(* cuts it into tokens, looks for patterns in them and adds up a score.    *)
(* One step is one decoding or one turn of the tokenizer's loop.           *)
(*                                                                         *)
(* A letter stands for a run of letters, so a keyword is a word of one     *)
(* letter and strcase_equals is equality.  inspect_http_payload passes at  *)
(* most 2048 bytes and decoding never lengthens a text, so the 4096 byte   *)
(* buffers never cut one short.                                            *)
(***************************************************************************)
EXTENDS Integers, Sequences, SequencesExt, FiniteSetsExt

CONSTANTS
    Payloads,            \* the texts detect_sqli may be called with
    Byte,                \* the byte that two hexadecimal digits stand for
    Spaces,              \* what isspace accepts, " " among them
    Operators,           \* the characters that are tokens by themselves
    MAX_TOKENS,          \* 128 in the code
    WordMax,             \* 63 in the code
    Keyword,             \* the words of each family the patterns name
    RawUnion, RawOr      \* the texts of the raw patterns

VARIABLES payload, decoded, idx, tokens, score, pc

vars == <<payload, decoded, idx, tokens, score, pc>>

Nul == "NUL"
Word(c) == <<c>>

Init ==
    /\ payload \in Payloads
    /\ decoded = payload
    /\ idx = 1
    /\ tokens = <<>>
    /\ score = 0
    /\ pc = "decode"

-----------------------------------------------------------------------------
(***************************************************************************)
(* Decoding                                                                *)
(***************************************************************************)
(* Mutant: an escape that ends the text is left as it is. *)
url_decodeShort(src) ==
    LET D[i \in 1..Len(src) + 1] ==
            IF i > Len(src) THEN <<>>
            ELSE IF /\ src[i] = "%" /\ i + 2 < Len(src)
                    /\ <<src[i + 1], src[i + 2]>> \in DOMAIN Byte
                 THEN <<Byte[src[i + 1], src[i + 2]]>> \o D[i + 3]
            ELSE <<IF src[i] = "+" THEN " " ELSE src[i]>> \o D[i + 1]
    IN  D[1]

(* An escape gives its byte, a plus a blank, everything else itself. *)
url_decode(src) ==
    LET D[i \in 1..Len(src) + 1] ==
            IF i > Len(src) THEN <<>>
            ELSE IF /\ src[i] = "%" /\ i + 2 <= Len(src)
                    /\ <<src[i + 1], src[i + 2]>> \in DOMAIN Byte
                 THEN <<Byte[src[i + 1], src[i + 2]]>> \o D[i + 3]
            ELSE <<IF src[i] = "+" THEN " " ELSE src[i]>> \o D[i + 1]
    IN  D[1]

(* The text that the string functions see: it ends at the first NUL. *)
CString(s) ==
    LET ends == {i \in DOMAIN s : s[i] = Nul}
    IN  IF ends = {} THEN s ELSE SubSeq(s, 1, Min(ends) - 1)

(* A percent sign that is left asks for another decoding. *)
Twice(s) == \E i \in DOMAIN CString(s) : s[i] = "%"

Decode ==
    /\ pc = "decode"
    /\ decoded' = url_decode(payload)
    /\ pc' = IF Twice(decoded') THEN "again" ELSE "tokenize"
    /\ UNCHANGED <<payload, idx, tokens, score>>

DecodeAgain ==
    /\ pc = "again"
    /\ decoded' = url_decode(decoded)
    /\ pc' = "tokenize"
    /\ UNCHANGED <<payload, idx, tokens, score>>

-----------------------------------------------------------------------------
(***************************************************************************)
(* The tokenizer                                                           *)
(***************************************************************************)
CommentMarks == {<<"-", "-">>, <<"/", "*">>, <<"*", "/">>}

StartsMark(i) ==
    i < Len(decoded) /\ <<decoded[i], decoded[i + 1]>> \in CommentMarks

(* The first position from i on that is not white space. *)
Skipped(i) ==
    Min({Len(decoded) + 1} \cup {j \in i..Len(decoded) : decoded[j] \notin Spaces})

(* What ends a word: a slash and a star do, also outside a comment mark. *)
EndsWord(i) ==
    \/ decoded[i] \in Spaces \cup Operators \cup {Nul, "/", "*"}
    \/ i < Len(decoded) /\ decoded[i] = "-" /\ decoded[i + 1] = "-"

WordEnd(i) ==
    Min({Len(decoded) + 1, i + WordMax} \cup {j \in i..Len(decoded) : EndsWord(j)})

(* The loop's test, and the position where the next token starts. *)
Looping == pc = "tokenize" /\ idx <= Len(decoded) /\ Len(tokens) < MAX_TOKENS
Start == Skipped(idx)

(* The loop ends, at its test or after trailing white space. *)
TokensEnd ==
    /\ pc = "tokenize"
    /\ Looping => Start > Len(decoded)
    /\ idx' = IF Looping THEN Start ELSE idx
    /\ pc' = "match"
    /\ UNCHANGED <<payload, decoded, tokens, score>>

Token(text, next) ==
    /\ tokens' = Append(tokens, text)
    /\ idx' = next
    /\ UNCHANGED <<payload, decoded, score, pc>>

(* Mutant: only the first character of the mark is passed over. *)
CommentTokenHalf ==
    /\ Looping /\ Start <= Len(decoded)
    /\ StartsMark(Start)
    /\ Token(SubSeq(decoded, Start, Start + 1), Start + 1)

CommentToken ==
    /\ Looping /\ Start <= Len(decoded)
    /\ StartsMark(Start)
    /\ Token(SubSeq(decoded, Start, Start + 1), Start + 2)

(* strchr finds the NUL at the end of its list too: that token is empty. *)
OperatorToken ==
    /\ Looping /\ Start <= Len(decoded)
    /\ ~StartsMark(Start) /\ decoded[Start] \in Operators \cup {Nul}
    /\ Token(CString(Word(decoded[Start])), Start + 1)

InWord ==
    /\ Looping /\ Start <= Len(decoded)
    /\ ~StartsMark(Start) /\ decoded[Start] \notin Operators \cup {Nul}

(* Mutant: a word without characters is not stored. *)
WordTokenIfAny ==
    /\ InWord
    /\ IF WordEnd(Start) > Start
       THEN Token(SubSeq(decoded, Start, WordEnd(Start) - 1), WordEnd(Start))
       ELSE idx' = Start /\ UNCHANGED <<payload, decoded, tokens, score, pc>>

(* A slash or star outside a comment mark gives an empty word, and is not  *)
(* passed over.                                                            *)
WordToken ==
    /\ InWord
    /\ Token(SubSeq(decoded, Start, WordEnd(Start) - 1), WordEnd(Start))

-----------------------------------------------------------------------------
(***************************************************************************)
(* The patterns and the score                                              *)
(***************************************************************************)
Is(i, family) == i \in DOMAIN tokens /\ tokens[i] \in Keyword[family]
At(i, c) == i \in DOMAIN tokens /\ tokens[i] = Word(c)
IsComment(i) ==
    i \in DOMAIN tokens /\ tokens[i] \in {<<"-", "-">>, <<"#">>, <<"/", "*">>}

Found(family) == \E i \in DOMAIN tokens : Is(i, family)

(* Mutant: select has to be the next token. *)
UnionSelectNext == \E i \in DOMAIN tokens : Is(i, "union") /\ Is(i + 1, "select")

UnionSelect ==
    \E i, j \in DOMAIN tokens : i <= j /\ Is(i, "union") /\ Is(j, "select")

AdminBypass ==
    \E i \in DOMAIN tokens :
        Is(i, "admin") /\ At(i + 1, "'") /\ IsComment(i + 2)

(* The second form also reads the token after the last one when the form   *)
(* ends there: stale is what the array happens to hold in that place.      *)
Tautology(stale) ==
    \E i \in DOMAIN tokens :
        /\ Is(i, "or") /\ i + 4 <= Len(tokens)
        /\ \/ At(i + 2, "=") /\ tokens[i + 1] = tokens[i + 3]
           \/ /\ At(i + 1, "'") /\ At(i + 3, "'")
              /\ (IF i + 5 <= Len(tokens) THEN tokens[i + 5] ELSE stale) = Word("'")
              /\ tokens[i + 2] = tokens[i + 4]

Stacked == \E i \in DOMAIN tokens : At(i, ";") /\ Is(i + 1, "stacked")

(* strcase_contains of one of the texts. *)
HasRaw(texts) ==
    \E t \in texts, i \in DOMAIN decoded :
        i + Len(t) - 1 <= Len(CString(decoded)) /\ SubSeq(decoded, i, i + Len(t) - 1) = t

Points(condition, points) == IF condition THEN points ELSE 0

TokenScore(stale) ==
    Points(UnionSelect, 45) + Points(Tautology(stale), 45) + Points(AdminBypass, 45)
    + Points(Stacked, 40) + Points(Found("error"), 25) + Points(Found("time"), 35)
    + Points(Found("write"), 35) + Points(\E i \in DOMAIN tokens : IsComment(i), 10)

(* The raw patterns count only when the tokens leave the score below 40. *)
Match ==
    /\ pc = "match"
    /\ \E stale \in {Word("'"), <<>>} :
          LET s == TokenScore(stale)
          IN  score' = IF s >= 40 THEN s
                       ELSE s + Points(HasRaw(RawUnion), 40) + Points(HasRaw(RawOr), 40)
    /\ pc' = "done"
    /\ UNCHANGED <<payload, decoded, idx, tokens>>

Tokenize == CommentToken \/ OperatorToken \/ WordToken \/ TokensEnd

Next == Decode \/ DecodeAgain \/ Tokenize \/ Match

(* detect_sqli runs in the packet's callback to its end. *)
Spec == Init /\ [][Next]_vars /\ WF_vars(Next)

-----------------------------------------------------------------------------
(* The state stays in its types: never more than MAX_TOKENS tokens, none   *)
(* longer than the array's row, and no decoding that lengthens a text.     *)
TypeOK ==
    /\ pc \in {"decode", "again", "tokenize", "match", "done"}
    /\ Len(decoded) <= Len(payload)
    /\ idx \in 1..Len(decoded) + 1
    /\ Len(tokens) <= MAX_TOKENS
    /\ \A i \in DOMAIN tokens : Len(tokens[i]) <= Max({WordMax, 2})
    /\ score \in 0..280

(* The characters of a text that a token can hold. *)
Visible(s) == SelectSeq(s, LAMBDA c : c \notin Spaces \cup {Nul})

(* What has been passed over is in the tokens, in order, once, and nothing *)
(* else is: no character is lost or counted twice between two tokens,      *)
(* whatever comment marks, operators and long words meet.                  *)
TokensAreTheText ==
    FlattenSeq(tokens) = Visible(SubSeq(decoded, 1, idx - 1))

(* Every turn of the loop uses up text or one of the MAX_TOKENS places, so *)
(* the packet's callback gets its score, also for the texts on which the   *)
(* tokenizer stands still.                                                 *)
TokenizerEnds == <>(pc = "done")

(* The word at i is not part of a longer one. *)
Alone(i) ==
    /\ i = 1 \/ decoded[i - 1] \in Spaces \cup Operators
    /\ i = Len(decoded) \/ decoded[i + 1] \in Spaces \cup Operators

(* The union and the select of a text that is tokenized to its end are     *)
(* seen whatever stands between them: when both are words of their own,    *)
(* with white space or an operator on either side, the score reaches the   *)
(* 40 at which inspect_http_payload drops the packet.                      *)
UnionSelectIsSeen ==
    (pc = "done" /\ idx > Len(decoded))
        => \A i, j \in DOMAIN decoded :
              (/\ i < j /\ Alone(i) /\ Alone(j)
               /\ Word(decoded[i]) \in Keyword["union"]
               /\ Word(decoded[j]) \in Keyword["select"])
                    => score >= 40

Escapes(c) == {h \in DOMAIN Byte : Byte[h] = c}

(* The text s with the characters at the positions in es escaped. *)
Escaped(s, es) ==
    LET E[i \in 0..Len(s)] ==
            IF i = 0 THEN <<>>
            ELSE E[i - 1] \o IF i \in es THEN LET h == CHOOSE h \in Escapes(s[i]) : TRUE
                                             IN  <<"%", h[1], h[2]>>
                             ELSE <<s[i]>>
    IN  E[Len(s)]

(* Escaping is transparent: a text without plus and percent signs, with a  *)
(* stretch of it escaped, is decoded to itself, and with the percent signs *)
(* of that escaped again it is decoded to itself in two decodings.         *)
EscapingIsTransparent ==
    (pc = "done" /\ \A i \in DOMAIN payload :
                         payload[i] \notin {"+", "%"} /\ Escapes(payload[i]) # {})
        => \A a, b \in DOMAIN payload :
              LET once == Escaped(payload, a..b)
                  twice == Escaped(once, {i \in DOMAIN once : once[i] = "%"})
              IN  a <= b => /\ url_decode(once) = payload
                            /\ url_decode(twice) = once
=============================================================================
