----------------------------- MODULE PathSyntax -----------------------------
(***************************************************************************)
(* ParsePath (internal/filesystem/path.go): from the path of a request to  *)
(* its normal form.  A text is a sequence of tokens: a character that      *)
(* matters, the two hexadecimal digits of such a character, or "z" for any *)
(* other text.                                                             *)
(***************************************************************************)
EXTENDS Integers, Sequences, SequencesExt

\* Two digits, and the character they encode.
Encoded ==
  [digits \in {"2e", "25", "2f", "3f", "5c", "00"} |->
     CASE digits = "2e" -> "."
       [] digits = "25" -> "%"
       [] digits = "2f" -> "/"
       [] digits = "3f" -> "?"
       [] digits = "5c" -> "\\"
       [] digits = "00" -> "NUL"]
Digits == DOMAIN Encoded
Tokens == Digits \cup {"/", ".", "%", "?", "\\", "NUL", "z"}

Control == {"NUL"}

\* What ParsePath answers for a path it rejects.
Bad == <<"rejected">>

Has(text, part) == \E i \in 1..(Len(text) + 1 - Len(part)) : SubSeq(text, i, i + Len(part) - 1) = part

\* The request target up to its query.
RawPath(raw) ==
  LET end == CHOOSE n \in 0..Len(raw) : (n = Len(raw) \/ raw[n + 1] = "?") /\ \A i \in 1..n : raw[i] # "?"
  IN  SubSeq(raw, 1, end)

\* What is refused before anything is decoded.
Refused(text) ==
  \/ ToSet(text) \cap (Control \cup {"\\"}) # {}
  \/ \E digits \in {"2f", "3f", "5c"} : Has(text, <<"%", digits>>)

\* Every % is followed by its two digits.
WellEncoded(text) == \A i \in 1..Len(text) : text[i] = "%" => i < Len(text) /\ text[i + 1] \in Digits

\* Variant: an encoded % is decoded like any other character.
PercentDecodeAll(text) ==
  LET Upto[i \in 0..Len(text)] ==
        IF i = 0 THEN <<>>
        ELSE IF text[i] = "%" THEN Upto[i - 1]
        ELSE IF i > 1 /\ text[i - 1] = "%" THEN Append(Upto[i - 1], Encoded[text[i]])
        ELSE Append(Upto[i - 1], text[i])
  IN  Upto[Len(text)]

\* One pass over a well encoded path.  An encoded % stays as it was.
PercentDecode(text) ==
  LET Upto[i \in 0..Len(text)] ==
        IF i = 0 THEN <<>>
        ELSE IF text[i] = "%" THEN Upto[i - 1]
        ELSE IF i = 1 \/ text[i - 1] # "%" THEN Append(Upto[i - 1], text[i])
        ELSE IF text[i] = "25" THEN Append(Append(Upto[i - 1], "%"), "25")
        ELSE Append(Upto[i - 1], Encoded[text[i]])
  IN  Upto[Len(text)]

ContainsPercentEncoding(text) == \E i \in 1..Len(text) - 1 : text[i] = "%" /\ text[i + 1] \in Digits

\* The texts between the slashes.
Split(text) ==
  LET Upto[i \in 0..Len(text)] ==
        IF i = 0 THEN << <<>> >>
        ELSE IF text[i] = "/" THEN Append(Upto[i - 1], <<>>)
        ELSE LET parts == Upto[i - 1] IN [parts EXCEPT ![Len(parts)] = Append(@, text[i])]
  IN  Upto[Len(text)]

\* The segments that are left when those before ".." are dropped.
Collapse(segments) ==
  LET Upto[i \in 0..Len(segments)] ==
        IF i = 0 THEN <<>>
        ELSE IF segments[i] \in {<<>>, <<".">>} THEN Upto[i - 1]
        ELSE IF segments[i] # <<".", ".">> THEN Append(Upto[i - 1], segments[i])
        ELSE IF Upto[i - 1] = <<>> THEN <<>> ELSE Front(Upto[i - 1])
  IN  Upto[Len(segments)]

Join(segments) ==
  LET Upto[i \in 0..Len(segments)] == IF i = 0 THEN <<>> ELSE Upto[i - 1] \o <<"/">> \o segments[i]
  IN  IF segments = <<>> THEN <<"/">> ELSE Upto[Len(segments)]

ParsePath(raw) ==
  LET text    == RawPath(raw)
      decoded == PercentDecode(text)
  IN  IF Refused(text) \/ ~WellEncoded(text) THEN Bad
      ELSE IF ContainsPercentEncoding(decoded) \/ ToSet(decoded) \cap Control # {} THEN Bad
      ELSE Join(Collapse(Split(decoded)))
-----------------------------------------------------------------------------
\* A path in normal form: absolute, nothing in it encoded or to be collapsed.
Normal(text) ==
  /\ text # <<>> /\ text[1] = "/"
  /\ ToSet(text) \cap {"%", "?", "\\", "NUL"} = {}
  /\ text = <<"/">> \/ \A i \in 2..Len(Split(text)) : Split(text)[i] \notin {<<>>, <<".">>, <<".", ".">>}
=============================================================================
