---------------------------- MODULE EprBmParser ----------------------------
(***************************************************************************)
(* Bitmask expressions (epr_bitmask.c): the recursive descent of           *)
(* epr_parse_bm_expr_str over tokens of which one can be pushed back, the  *)
(* use that epr_read_bitmask_raster makes of the term and of the error,    *)
(* and epr_create_bm_expr, which writes a term down again.                 *)
(*                                                                         *)
(* An expression is a sequence of tokens: how characters make them up is   *)
(* left out.  "?" is a character that begins none.                         *)
(***************************************************************************)
EXTENDS EprBmTerm

CONSTANT Expressions  \* the expressions to parse

ASSUME ExpressionsAssumption == \A e \in Expressions : e \in Seq(Token)

\* The names differ from those of EprBitmask, so that a module can extend both.
VARIABLES
  bm_expr,   \* the expression
  parsed,    \* its term
  err,       \* the parser set an error
  mask,      \* the pixels that are set
  returned,  \* whether epr_read_bitmask_raster returned an error
  text,      \* what epr_create_bm_expr makes of the term
  phase      \* "parse", "read", "create" or "done"

parserVars == <<bm_expr, parsed, err, mask, returned, text, phase>>

-----------------------------------------------------------------------------
(***************************************************************************)
(* The value of a term.  A pixel is the set of the flags that are set: all *)
(* flags are found.                                                        *)
(***************************************************************************)

\* The value of a node from those of the nodes before it.
NodeValue(node, before, pixel) ==
  LET Arg(k) == k # 0 /\ before[k]
  IN  CASE node.op = "REF" -> <<node.band, node.flag>> \in pixel
        [] node.op = "NOT" -> ~Arg(node.arg1)
        [] node.op = "AND" -> Arg(node.arg1) /\ Arg(node.arg2)
        [] node.op = "OR"  -> Arg(node.arg1) \/ Arg(node.arg2)

\* The values of the nodes of t.
Values(t, pixel) ==
  LET values[n \in 0 .. Len(t)] ==
        IF n = 0 THEN << >>
        ELSE LET before == values[n - 1] IN Append(before, NodeValue(t[n], before, pixel))
  IN  values[Len(t)]

\* epr_eval_bm_term at a pixel.
Holds(t, pixel) == Values(t, pixel)[Len(t)]

\* The flags that an expression can refer to.
FlagsOf(e) == {<<e[i], e[i + 2]>> : i \in {j \in 1 .. Len(e) - 2 : e[j + 1] = "."}}

Mask(t, e) == {pixel \in SUBSET FlagsOf(e) : Holds(t, pixel)}

-----------------------------------------------------------------------------
(***************************************************************************)
(* EPR_SParseInfo: the tokens that are left, the last token with its type, *)
(* whether it is pushed back, whether there is an error message, and the   *)
(* nodes that were made.                                                   *)
(***************************************************************************)

ParseInfo ==
  [ rest : Seq(Token), token : Token, type : {"name", "special", "eos", "unknown"},
    pushed_back : BOOLEAN, error : BOOLEAN, nodes : Seq(NodeType) ]

Start(e) == [ rest |-> e, token |-> "", type |-> "unknown",
              pushed_back |-> FALSE, error |-> FALSE, nodes |-> << >> ]

\* epr_next_bm_expr_token: an unknown character is met again and again.
NextToken(p) ==
  IF p.pushed_back THEN [p EXCEPT !.pushed_back = FALSE]
  ELSE IF p.rest = << >> THEN [p EXCEPT !.token = "", !.type = "eos"]
  ELSE IF p.rest[1] = Unknown THEN [p EXCEPT !.token = "", !.type = "unknown"]
  ELSE [p EXCEPT !.token = p.rest[1], !.rest = Tail(p.rest),
                 !.type = IF p.rest[1] \in Special THEN "special" ELSE "name"]

PushBack(p) == [p EXCEPT !.pushed_back = TRUE]
Consume(p)  == [p EXCEPT !.token = "", !.type = "unknown", !.pushed_back = FALSE]

\* epr_set_bm_expr_error.
SetError(p) == [PushBack(p) EXCEPT !.error = TRUE]

IsName(p)       == p.type = "name"
IsChar(p, c)    == p.type = "special" /\ p.token = c
IsOneOf(p, set) == p.type \in {"name", "special"} /\ p.token \in set

-----------------------------------------------------------------------------
(***************************************************************************)
(* The recursive descent.  Each function returns a node, or NULL, and what *)
(* is left.  The functions that it calls again, one level deeper, are      *)
(* those of deeper; there a term is always required.                       *)
(***************************************************************************)

NULL == 0

\* epr_create_bm_REF_term and the like.
NewTerm(p, node) == <<Len(p.nodes) + 1, [p EXCEPT !.nodes = Append(@, node)]>>

\* epr_parse_bm_primary_expr, the part that begins with a name.
FlagReference(p) ==
  LET point == NextToken(Consume(p))
      flag  == NextToken(point)
  IN  IF ~IsChar(point, ".") THEN <<NULL, SetError(point)>>
      ELSE IF ~IsName(flag) THEN <<NULL, SetError(flag)>>
      ELSE NewTerm(Consume(flag), REF(p.token, flag.token))

parse_primary(deeper, q, required) ==
  LET p == NextToken(q)
  IN  CASE IsChar(p, "(") ->
             LET inner == deeper.OR[p]
                 close == NextToken(inner[2])
             IN  <<inner[1], IF IsChar(close, ")") THEN close ELSE SetError(close)>>
        [] IsName(p) -> FlagReference(p)
        [] p.type = "eos" /\ ~required -> <<NULL, p>>
        [] OTHER -> <<NULL, SetError(p)>>

parse_unary(deeper, q, required) ==
  LET p == NextToken(q)
  IN  IF IsOneOf(p, NotToken)
        THEN LET arg == deeper.unary[p] IN NewTerm(arg[2], NOT(arg[1]))
        ELSE parse_primary(deeper, PushBack(p), required)

\* Mutant of parse_AND: the operands may be any expression.
MutParseAND(deeper, q, required) ==
  LET first == parse_unary(deeper, q, required)
      p     == NextToken(first[2])
  IN  IF first[1] = NULL \/ first[2].error THEN first
      ELSE IF IsOneOf(p, AndToken)
        THEN LET second == deeper.OR[p] IN NewTerm(second[2], AND(first[1], second[1]))
        ELSE <<first[1], PushBack(p)>>

\* The loop of the code is done at most twice, the second time to end it: the
\* operand after an operator takes all operators of its kind that follow.
parse_AND(deeper, q, required) ==
  LET first == parse_unary(deeper, q, required)
      p     == NextToken(first[2])
  IN  IF first[1] = NULL \/ first[2].error THEN first
      ELSE IF IsOneOf(p, AndToken)
        THEN LET second == deeper.AND[p] IN NewTerm(second[2], AND(first[1], second[1]))
        ELSE <<first[1], PushBack(p)>>

parse_OR(deeper, q, required) ==
  LET first == parse_AND(deeper, q, required)
      p     == NextToken(first[2])
  IN  IF first[1] = NULL \/ first[2].error THEN first
      ELSE IF IsOneOf(p, OrToken)
        THEN LET second == deeper.OR[p] IN NewTerm(second[2], OR(first[1], second[1]))
        ELSE <<first[1], PushBack(p)>>

\* The functions, for calls that are at most so many levels deep.  A call one
\* level deeper has one token less to read, so that none is made at the bottom.
Bottom == [q \in ParseInfo |-> <<NULL, q>>]

Descent[depth \in Nat] ==
  IF depth = 0 THEN [OR |-> Bottom, AND |-> Bottom, unary |-> Bottom]
  ELSE LET deeper == Descent[depth - 1]
       IN  [ OR    |-> [q \in ParseInfo |-> parse_OR(deeper, q, TRUE)],
             AND   |-> [q \in ParseInfo |-> parse_AND(deeper, q, TRUE)],
             unary |-> [q \in ParseInfo |-> parse_unary(deeper, q, TRUE)] ]

epr_parse_bm_expr_str(e) == parse_OR(Descent[Len(e)], Start(e), FALSE)

-----------------------------------------------------------------------------
(***************************************************************************)
(* epr_create_bm_expr.                                                     *)
(***************************************************************************)

\* Mutant of Written: an operand of NOT is not put into parentheses.
MutWritten(node, before) ==
  CASE node.op = "REF" -> <<node.band, ".", node.flag>>
    [] node.op = "NOT" -> <<"NOT">> \o before[node.arg1]
    [] OTHER -> <<"(">> \o before[node.arg1] \o <<")", node.op, "(">> \o before[node.arg2] \o <<")">>

\* The text of a node from those of the nodes before it.
Written(node, before) ==
  CASE node.op = "REF" -> <<node.band, ".", node.flag>>
    [] node.op = "NOT" -> <<"NOT", "(">> \o before[node.arg1] \o <<")">>
    [] OTHER -> <<"(">> \o before[node.arg1] \o <<")", node.op, "(">> \o before[node.arg2] \o <<")">>

Texts(t) ==
  LET texts[n \in 0 .. Len(t)] ==
        IF n = 0 THEN << >>
        ELSE LET before == texts[n - 1] IN Append(before, Written(t[n], before))
  IN  texts[Len(t)]

epr_create_bm_expr(t) == Texts(t)[Len(t)]

-----------------------------------------------------------------------------
ParserInit ==
  /\ bm_expr \in Expressions
  /\ parsed = << >>
  /\ err = FALSE
  /\ mask = {}
  /\ returned = FALSE
  /\ text = << >>
  /\ phase = "parse"

\* The term of an expression: the nodes up to its root.
TermOf(result) == SubSeq(result[2].nodes, 1, result[1])

Parse ==
  /\ phase = "parse"
  /\ LET result == epr_parse_bm_expr_str(bm_expr)
     IN  parsed' = TermOf(result) /\ err' = result[2].error
  /\ phase' = "read"
  /\ UNCHANGED <<bm_expr, mask, returned, text>>

\* epr_read_bitmask_raster looks at the term only, and clears the error; the
\* reading of flags, which may fail, is in EprBitmask.
Read ==
  /\ phase = "read"
  /\ IF parsed = << >>
       THEN returned' = TRUE /\ UNCHANGED mask
       ELSE returned' = FALSE /\ mask' = Mask(parsed, bm_expr)
  /\ phase' = IF err \/ parsed = << >> THEN "done" ELSE "create"
  /\ UNCHANGED <<bm_expr, parsed, err, text>>

\* A caller that parsed an expression without an error writes it down.
Create ==
  /\ phase = "create"
  /\ text' = epr_create_bm_expr(parsed)
  /\ phase' = "done"
  /\ UNCHANGED <<bm_expr, parsed, err, mask, returned>>

Done == phase = "done" /\ UNCHANGED parserVars

ParserNext == Parse \/ Read \/ Create \/ Done

ParserSpec == ParserInit /\ [][ParserNext]_parserVars

-----------------------------------------------------------------------------
(***************************************************************************)
(* The documented grammar (epr_bitmask.h), with operators that associate   *)
(* to the left: what a sequence of tokens means is the set of pixels where *)
(* it holds, among all pixels.  A sentence may have several meanings; what *)
(* is none has no meaning.  Shorter sentences have theirs from g.  A name  *)
(* may be a keyword, but no dataset is called not.                         *)
(***************************************************************************)

IsAName(token) == token \notin Special \cup {Unknown}

Splits(s, operators) == {i \in DOMAIN s : s[i] \in operators}
Before(s, i) == SubSeq(s, 1, i - 1)
After(s, i)  == SubSeq(s, i + 1, Len(s))

PrimaryMeanings(g, all, s) ==
  CASE Len(s) = 3 /\ IsAName(s[1]) /\ s[1] \notin NotToken /\ s[2] = "." /\ IsAName(s[3]) ->
         {{pixel \in all : <<s[1], s[3]>> \in pixel}}
    [] Len(s) > 2 /\ s[1] = "(" /\ s[Len(s)] = ")" -> g.OR[SubSeq(s, 2, Len(s) - 1)]
    [] OTHER -> {}

NotMeanings(g, all, s) ==
  PrimaryMeanings(g, all, s) \cup
  IF s # << >> /\ s[1] \in NotToken THEN {all \ m : m \in g.NOT[Tail(s)]} ELSE {}

AndMeanings(g, all, s) ==
  NotMeanings(g, all, s) \cup
  UNION {{m \cap k : m \in g.AND[Before(s, i)], k \in g.NOT[After(s, i)]} : i \in Splits(s, AndToken)}

OrMeanings(g, all, s) ==
  AndMeanings(g, all, s) \cup
  UNION {{m \cup k : m \in g.OR[Before(s, i)], k \in g.AND[After(s, i)]} : i \in Splits(s, OrToken)}

\* The meanings of sentences of fewer tokens than n.
Grammar(all) ==
  LET grammar[n \in Nat] ==
        IF n = 0 THEN [ OR |-> [s \in Seq(Token) |-> {}], AND |-> [s \in Seq(Token) |-> {}],
                        NOT |-> [s \in Seq(Token) |-> {}] ]
        ELSE LET g == grammar[n - 1]
             IN  [ OR  |-> [s \in Seq(Token) |-> OrMeanings(g, all, s)],
                   AND |-> [s \in Seq(Token) |-> AndMeanings(g, all, s)],
                   NOT |-> [s \in Seq(Token) |-> NotMeanings(g, all, s)] ]
  IN  grammar

Meanings(s, all) == OrMeanings(Grammar(all)[Len(s)], all, s)

\* The lengths of the sentences that the expression begins with and that no
\* operator follows.
Sentences(all) ==
  {n \in 1 .. Len(bm_expr) :
     /\ n < Len(bm_expr) => bm_expr[n + 1] \notin AndToken \cup OrToken
     /\ Meanings(SubSeq(bm_expr, 1, n), all) # {}}

-----------------------------------------------------------------------------
(***************************************************************************)
(* Properties.                                                             *)
(***************************************************************************)

\* A bitmask read without an error of the parser is what the documented grammar
\* gives the sentence the expression begins with - precedence, nesting, NOT -
\* although operators associate to the right in epr_parse_bm_OR_expr; the parser
\* has an error if there is no such sentence, and none if there is.  What follows
\* the sentence is not looked at, unless it is an operator.
MeaningKept ==
  phase = "done" =>
    LET all   == SUBSET FlagsOf(bm_expr)
        found == Sentences(all)
    IN  /\ err <=> found = {} /\ bm_expr # << >>
        /\ \A n \in found : ~returned /\ mask \in Meanings(SubSeq(bm_expr, 1, n), all)

\* What epr_create_bm_expr writes parses to the term it was made of.
RoundTrip ==
  phase = "done" /\ text # << >> =>
    LET result == epr_parse_bm_expr_str(text)
    IN  TermOf(result) = parsed /\ ~result[2].error

\* Comments of epr_read_bitmask_raster and epr_parse_bm_expr_str: what is not an
\* expression is an error of the caller's.
SyntaxErrorsReturned == phase = "done" /\ err => returned
=============================================================================
