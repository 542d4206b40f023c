--------------------------- MODULE MCEprBmParser ---------------------------
(***************************************************************************)
(* Short expressions of any tokens, and sentences of three flags, in which *)
(* NOT and parentheses stand in every place, damaged in one place.         *)
(***************************************************************************)
EXTENDS EprBmParser, SequencesExt

Tokens == {"a", "or", "&", "not", "(", ")", ".", Unknown}

Short == UNION {[1 .. n -> Tokens] : n \in 0 .. 4}

Flag(d) == <<d, ".", "f">>
In(s)   == <<"(">> \o s \o <<")">>

Operands(s) == {s, <<"!">> \o s}
Joined(l, operators, r) == {s \o <<o>> \o t : s \in l, o \in operators, t \in r}

Pairs(d, e) == Joined(Operands(Flag(d)), {"AND", "or"}, {Flag(e)})

Nested(pairs) == pairs \cup UNION {Operands(In(s)) : s \in pairs}

Long ==
  Joined(Nested(Pairs("a", "b")), {"and", "|"}, Operands(Flag("c"))) \cup
  Joined(Operands(Flag("a")), {"&", "OR"}, Nested(Pairs("b", "or")))

Damaged(s) ==
  {RemoveAt(s, i) : i \in DOMAIN s} \cup
  UNION {{InsertAt(s, i, t) : t \in {"or", ")", "not", Unknown}} : i \in 1 .. Len(s) + 1}

MCExpressions == Short \cup Long \cup UNION {Damaged(s) : s \in Long}
=============================================================================
