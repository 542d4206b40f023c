---------------------------- MODULE EprBmTerm ----------------------------
(***************************************************************************)
(* The tokens of bitmask expressions and their terms (epr_bitmask.c).      *)
(*                                                                         *)
(* A term (EPR_SBmTerm) is the sequence of its nodes in the order in which *)
(* they are made, each after its arguments; the last node is the root.  An *)
(* argument is the place of its node, or 0 for NULL: the parser leaves it  *)
(* so in "a.f OR".                                                         *)
(***************************************************************************)
EXTENDS Integers, Sequences

Special  == {"(", ")", ".", "&", "|", "!"}
Unknown  == "?"

\* Keywords are known by stricmp.
OrToken  == {"or", "Or", "oR", "OR", "|"}
AndToken == {"and", "And", "aNd", "anD", "ANd", "AnD", "aND", "AND", "&"}
NotToken == {"not", "Not", "nOt", "noT", "NOt", "NoT", "nOT", "NOT", "!"}

\* Any names, keywords among them, and "" for no token.
Token == STRING \cup Special \cup OrToken \cup AndToken \cup NotToken \cup {Unknown, ""}

NodeType == [ op : {"REF", "AND", "OR", "NOT"}, band : Token, flag : Token,
              arg1 : Nat, arg2 : Nat ]

REF(band, flag) == [op |-> "REF", band |-> band, flag |-> flag, arg1 |-> 0, arg2 |-> 0]
NOT(arg)        == [op |-> "NOT", band |-> "", flag |-> "", arg1 |-> arg, arg2 |-> 0]
AND(arg1, arg2) == [op |-> "AND", band |-> "", flag |-> "", arg1 |-> arg1, arg2 |-> arg2]
OR(arg1, arg2)  == [op |-> "OR",  band |-> "", flag |-> "", arg1 |-> arg1, arg2 |-> arg2]
=============================================================================
