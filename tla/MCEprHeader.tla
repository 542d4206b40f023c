---------------------------- MODULE MCEprHeader ----------------------------
(***************************************************************************)
(* EprHeader on all headers of up to three of the lines below: fields of   *)
(* every type and number of elements, lines that are skipped, in error, or *)
(* not to be survived.  The arrays have room for two elements at first, so *)
(* that they grow, or fail to, once or twice.                              *)
(***************************************************************************)
EXTENDS EprHeader

\* A field with the keyword k.
Field(kind, k, vs, unit) == [kind |-> kind, name |-> <<k>>, values |-> vs, unit |-> unit]
Other(kind, t)               == [kind |-> kind, name |-> t, values |-> << >>, unit |-> << >>]

Lines ==
  { Field("string", "K", <<<<"A", " ", "=", " ">>>>, << >>),           \* K="A = "
    Field("list", "L", <<<<"1", "2">>, <<"+", "3">>>>, <<"M">>),        \* L=12+3<M>
    Field("list", "K", <<<<"-", "1">>, <<"+", "2">>, <<"-", "3">>>>, << >>),
    Field("list", "N", <<<<"+", "1", ".", "E", "-", "2">>, <<"-", "3">>>>, <<"S">>),
    Field("list", "P", <<<<"+", "1", "2">>, <<"+", "A", "3">>>>, << >>),
    Field("list", "L", <<<<"4", "2">>>>, << >>),
    Field("list", "M", <<<<"+", "5">>>>, << >>),
    Field("list", "K", <<<<"1">>, <<"-", "2">>, <<"+", "3">>>>, << >>),
    Field("char", "L", <<<<"7">>>>, <<"M">>),
    Field("char", "P", <<<< >>>>, << >>),                              \* P=
    Field("char", "P", <<<<"A">>>>, << >>),
    Field("char", "K", <<<< >>>>, << >>),
    Field("string", "P", <<<<"P", "A">>>>, << >>),
    Field("list", "L", <<<<"1", ".">>>>, << >>),
    Field("list", "L", <<<<"-", "4">>>>, << >>),
    Other("blank", <<" ", "=", "1">>),
    Other("odd", <<"=", "1", "2">>),
    Other("odd", <<"K", "1">>),
    Other("fatal", << >>),
    Other("fatal", <<"K", "=", "E">>),
    Other("fatal", <<"K", "=", "\"">>) }

MCChars ==
  Digits \cup Signs \cup Seps \cup Exponents
    \cup {Newline, Quote, Blank, ".", "A", "K", "L", "M", "N", "P", "S"}

MCHeaders == UNION {[1 .. n -> Lines] : n \in 0 .. 3}

MCMembers == (<<"K">> :> "text") @@ (<<"L">> :> "number") @@ (<<"P">> :> "letter")
=============================================================================
