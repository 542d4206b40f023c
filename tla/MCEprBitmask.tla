--------------------------- MODULE MCEprBitmask ---------------------------
(***************************************************************************)
(* EprBitmask on four pixels, which give two flags every pair of values,   *)
(* and on terms of two operators and three leaves of every shape, missing  *)
(* bands, flags and arguments included.                                    *)
(***************************************************************************)
EXTENDS EprBitmask

Op(o, x, y) == [op |-> o, band |-> "", flag |-> "", arg1 |-> x, arg2 |-> y]

F == REF("a", "F")
G == REF("b", "G")

\* a has no flag H, and there is no band c.
Leaves == {F, G, REF("a", "H"), REF("c", "F")}

\* One operator on leaves, or NULL arguments: "a.F OR", "NOT".
Simple ==
  {<<l>> : l \in Leaves}
  \cup {<<l, Op("NOT", 1, 0)>> : l \in Leaves}
  \cup {<<l, Op(o, 1, 0)>> : o \in {"AND", "OR"}, l \in Leaves}
  \cup {<<Op(o, 0, 0)>> : o \in {"NOT", "AND", "OR"}}
  \cup {<<l, m, Op(o, 1, 2)>> : o \in {"AND", "OR"}, l, m \in Leaves}

\* One more operator, with the leaf G of a or nothing.
MCTerms ==
  LET More(t) == Append(t, REF("a", "G"))
  IN  Simple
      \cup {Append(t, Op("NOT", Len(t), 0)) : t \in Simple}
      \cup {Append(More(t), Op(o, Len(t), Len(t) + 1)) : o \in {"AND", "OR"}, t \in Simple}
      \cup {Append(More(t), Op(o, Len(t) + 1, Len(t))) : o \in {"AND", "OR"}, t \in Simple}

MCBands  == {"a", "b"}
MCFlags  == {"F", "G"}
MCCoding == [b \in MCBands |-> IF b = "a" THEN {"F", "G"} ELSE {"G"}]

\* F is set at pixels 2 and 3, G of b at 1 and 3, G of a at 0 and 3.
MCIsSet(b, f, i) ==
  CASE f = "F" -> i \in {2, 3}
    [] f = "G" /\ b = "a" -> i \in {0, 3}
    [] f = "G" /\ b = "b" -> i \in {1, 3}
=============================================================================
