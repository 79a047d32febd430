------------------------------ MODULE JsonText ------------------------------
(***************************************************************************)
(* How signaling.c puts a description into a JSON string and takes it out  *)
(* again.  A text is a sequence of characters; the five kinds below are    *)
(* those the two functions tell apart ("newline" stands for \n, \r and \t, *)
(* "n" for the letters that follow a backslash in their escapes).          *)
(***************************************************************************)
EXTENDS Naturals, Sequences, FiniteSets

Char == {"letter", "n", "quote", "backslash", "newline"}

\* What a character is escaped to.
EscapeOf(c) ==
  CASE c = "quote"     -> <<"backslash", "quote">>
    [] c = "backslash" -> <<"backslash", "backslash">>
    [] c = "newline"   -> <<"backslash", "n">>
    [] OTHER           -> <<c>>

\* Wrong variant (the room for the second character is not looked at), for
\* the sensitivity of ReadBack.
FitsOne(out, c, size) == Len(out) + 1 < size

\* There is room for a character and the terminating zero.
FitsEscaped(out, c, size) == Len(out) + Len(EscapeOf(c)) < size

\* sig_json_escape: a character that does not fit is left out, and the loop
\* goes on with the next one, which may fit.
Escape(text, size) ==
  LET out[i \in 0..Len(text)] ==
        IF i = 0 THEN << >>
        ELSE IF FitsEscaped(out[i - 1], text[i], size)
             THEN out[i - 1] \o EscapeOf(text[i])
             ELSE out[i - 1]
  IN  out[Len(text)]

\* Wrong variant (every quote ends the string), for the sensitivity of ReadBack.
EndsAtQuote(json, i) == json[i] = "quote"

\* The closing quote is the first that no backslash precedes.
EndsString(json, i) ==
  json[i] = "quote" /\ (i = 1 \/ json[i - 1] # "backslash")

\* The characters of a JSON string, from left to right.
Unescape(raw) ==
  LET IsPair(i) == /\ raw[i] = "backslash" /\ i < Len(raw)
                   /\ raw[i + 1] \in {"n", "quote", "backslash"}
      from[i \in 1..(Len(raw) + 2)] ==
        IF i > Len(raw) THEN << >>
        ELSE IF IsPair(i)
             THEN <<IF raw[i + 1] = "n" THEN "newline" ELSE raw[i + 1]>> \o from[i + 2]
             ELSE <<raw[i]>> \o from[i + 1]
  IN  from[1]

\* sig_extract_json_string_field from the opening quote on: the set of its
\* result, empty for NULL.
Extract(json) ==
  LET ends == {i \in DOMAIN json : EndsString(json, i)}
  IN  IF ends = {} THEN {}
      ELSE LET end == CHOOSE i \in ends : \A j \in ends : i <= j
           IN  {Unescape(SubSeq(json, 1, end - 1))}

\* The rest of a message after an escaped text: the closing quote and "}}".
Closed(escaped) == escaped \o <<"quote", "letter", "letter">>

\* How many characters the text is escaped to, without a limit.
EscapedLength(text) == Len(text) + Cardinality({i \in DOMAIN text : Len(EscapeOf(text[i])) = 2})
=============================================================================
