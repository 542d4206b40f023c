------------------------------ MODULE EprText ------------------------------
(***************************************************************************)
(* The scanner of epr_string.c.  A text is a sequence of characters, which *)
(* are strings of length one; a letter stands for both of its cases, since *)
(* names are compared by stricmp.  Positions count from 0 as in the code,  *)
(* so that position p is element p + 1.                                    *)
(***************************************************************************)
EXTENDS Integers, Sequences, FiniteSetsExt

Newline == "\n"
Quote   == "\""
Blank   == " "
Digits  == {"0", "1", "2", "3", "4", "5", "6", "7", "8", "9"}
Signs   == {"+", "-"}

HasChar(text, chars) == \E i \in DOMAIN text : text[i] \in chars

\* The token that ends at the first of the separators at or after pos, or at
\* the end of the text, and the position to go on from.  A text that is one
\* single token is left behind by one more than its length.
Token(text, pos, separators) ==
  LET hits == {p \in pos .. Len(text) - 1 : p \in separators}
  IN  CASE pos >= Len(text) -> [found |-> FALSE, text |-> << >>, pos |-> pos]
        [] hits # {} ->
             [found |-> TRUE, text |-> SubSeq(text, pos + 1, Min(hits)), pos |-> Min(hits) + 1]
        [] OTHER ->
             [found |-> TRUE, text |-> SubSeq(text, pos + 1, Len(text)),
              pos |-> IF pos = 0 THEN Len(text) + 1 ELSE Len(text)]

\* The positions of the characters in seps.
Places(text, seps) == {p \in 0 .. Len(text) - 1 : text[p + 1] \in seps}

\* epr_str_tok.
StrTok(text, seps, pos) == Token(text, pos, Places(text, seps))

\* epr_str_tok_tok: no separator directly after one of the exceptions.
StrTokTok(text, seps, exceptions, pos) ==
  Token(text, pos,
        {p \in Places(text, seps) : p = 0 \/ text[p] \notin exceptions})

\* epr_strip_string_r: nothing but blanks stands for what is not printable.
StripR(text) ==
  LET printed == {i \in DOMAIN text : text[i] # Blank}
  IN  SubSeq(text, 1, IF printed = {} THEN 0 ELSE Max(printed))

\* epr_if_no_letters.
NoLetters(text) == \A i \in DOMAIN text : text[i] \in Digits \cup Signs \cup {Blank}
=============================================================================
