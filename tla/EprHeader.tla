----------------------------- MODULE EprHeader -----------------------------
(***************************************************************************)
(* epr_parse_header (epr_msph.c): a header is lines of KEYWORD=value, read *)
(* into a record.  The parser fills two arrays in parallel, the values of  *)
(* all lines and the field infos, makes a record from the infos, and then  *)
(* deals the values out to its fields by counting.  Whatever makes a line  *)
(* add to one array and not to the other shifts the values of all fields   *)
(* after it.                                                               *)
(*                                                                         *)
(* A header is given by its lines: fields that a product may have, and     *)
(* lines that are not well formed.  Rendered writes them down; the code    *)
(* sees only the text.  Memory runs out only when an array has to grow.    *)
(***************************************************************************)
EXTENDS EprText, EprPtrArray, SequencesExt

CONSTANTS
  Chars,     \* the characters of headers
  Headers,   \* the headers to parse: sequences of lines
  Capacity,  \* the capacity of the two arrays at first: 16
  Members,   \* the keyword of each member of a descriptor, with its cast
  Misread    \* what a member is that is read as another type

\* A line: a field, or text that is none.  What the values of a field are in
\* text, its kind: "string" is quoted, "list" is signed numbers, "char" at most
\* one character.  A line that is no field has its text in name, and is "blank",
\* "odd" (it has no keyword, or nothing but one) or "fatal".
Kinds == {"string", "list", "char", "blank", "odd", "fatal"}

Exponents == {"e", "E"}

\* EPR_HEADER_SEPARATOR_ARRAY.
Seps == {"=", "<", ">"}

IsField(l) == l.kind \in {"string", "list", "char"}

LineType == [kind : Kinds, name : Seq(Chars), values : Seq(Seq(Chars)), unit : Seq(Chars)]

Keywords == {s \in Seq(Chars) : s # << >> /\ s[1] # Blank /\ ~HasChar(s, Seps \cup {Newline})}

\* All numbers but the first of a list have a sign, and no other signs than
\* those of exponents; a list is more than one character.
WellFormedList(s) ==
  /\ Len(FlattenSeq(s)) > 1
  /\ \A i \in DOMAIN s :
       /\ s[i] # << >> /\ s[i] # <<"+">> /\ s[i] # <<"-">>
       /\ ~HasChar(s[i], Seps \cup {Newline})
       /\ i > 1 => s[i][1] \in Signs
       /\ i = 1 => s[i][1] \notin Exponents \cup {Quote}
       /\ i < Len(s) => s[i][Len(s[i])] \notin Exponents
       /\ \A j \in 2 .. Len(s[i]) : s[i][j] \in Signs => s[i][j - 1] \in Exponents

WellFormedLine(l) ==
  /\ IsField(l) => l.name \in Keywords /\ ~HasChar(l.unit, Seps \cup {Newline})
  /\ l.kind = "string" => Len(l.values) = 1 /\ ~HasChar(l.values[1], {Quote, Newline})
  /\ l.kind = "list" => WellFormedList(l.values)
  /\ l.kind = "char" =>
       /\ Len(l.values) = 1 /\ Len(l.values[1]) <= 1
       /\ ~HasChar(l.values[1], Seps \cup Exponents \cup {Newline, Quote, "."})
       /\ l.values[1] = << >> => l.unit = << >>
  /\ l.kind = "blank" => l.name # << >> /\ l.name[1] = Blank /\ ~HasChar(l.name, {Newline})
  /\ l.kind = "odd" =>
       /\ l.name # << >> /\ l.name[1] # Blank /\ ~HasChar(l.name, {Newline})
       /\ l.name[1] \in Seps \/ ~HasChar(l.name, Seps)
  /\ l.kind = "fatal" =>
       \/ l.name = << >>
       \/ LET n == Len(l.name)
          IN  /\ n > 2 /\ SubSeq(l.name, 1, n - 2) \in Keywords
              /\ l.name[n - 1] = "=" /\ l.name[n] \in {Quote, "."} \cup Exponents

ASSUME CharsAssumption == Seps \cup Signs \cup Digits \cup {Newline, Quote} \subseteq Chars

ASSUME HeadersAssumption ==
  \A h \in Headers : h \in Seq(LineType) /\ \A i \in DOMAIN h : WellFormedLine(h[i])

ASSUME CapacityAssumption == Capacity \in Nat \ {0}

\* The elements of a field are cast to char* for a name, of which epr_sub_string
\* takes the first letter only, or to uint*.
Casts == {"text", "letter", "number"}

ASSUME MembersAssumption == Members \in [DOMAIN Members -> Casts]

ASSUME MisreadAssumption == Misread \notin Seq(Chars)

VARIABLES
  lines,    \* the header, as its lines
  source,   \* ascii_source: the header as it is written
  at,       \* pos_ascii: how far the text is parsed
  values,   \* header_values: one text per element
  infos,    \* field_infos
  err,      \* an error code is set
  pc,       \* "lines", "made", "returned" or "crash"
  record,   \* the fields of the record made: info and elements
  dsd,      \* the members of the descriptor made from a record
  starved   \* an array could not grow

vars == <<lines, source, at, values, infos, err, pc, record, dsd, starved>>

-----------------------------------------------------------------------------
(***************************************************************************)
(* How lines are written.                                                  *)
(***************************************************************************)

Written(l) ==
  CASE l.kind = "string"          -> l.name \o <<"=", Quote>> \o l.values[1] \o <<Quote>>
    [] l.kind \in {"list", "char"} ->
         l.name \o <<"=">> \o FlattenSeq(l.values) \o
           (IF l.unit = << >> THEN << >> ELSE <<"<">> \o l.unit \o <<">">>)
    [] OTHER                      -> l.name

Rendered(h) == FlattenSeq([i \in DOMAIN h |-> Written(h[i]) \o <<Newline>>])

\* The value of a token that should be a number and is not: "-999999".
Illegal == <<"-", "9", "9", "9", "9", "9", "9">>

IsNumber(v) == NoLetters(Tail(v))

\* A list is of doubles if it has a point or an exponent, of signed integers
\* if it has a minus or what is no number, else of unsigned.
ListType(s) ==
  LET v == FlattenSeq(s)
  IN  IF HasChar(v, {"."} \cup Exponents) THEN "double"
      ELSE IF HasChar(v, {"-"}) \/ \E i \in DOMAIN s : ~IsNumber(s[i]) THEN "int"
      ELSE "uint"

\* The field that a line stands for.  Only a list keeps its unit.
Meant(l) ==
  LET type    == CASE l.kind = "string" -> "string"
                   [] l.kind = "char"   -> "uchar"
                   [] OTHER             -> ListType(l.values)
      Legal(v) == IF type # "int" \/ IsNumber(v) THEN v ELSE Illegal
  IN  [ name  |-> l.name, type |-> type,
        unit  |-> IF l.kind = "list" THEN l.unit ELSE << >>,
        elems |-> IF l.kind = "string" THEN <<StripR(l.values[1])>>
                  ELSE [i \in DOMAIN l.values |-> Legal(l.values[i])] ]

-----------------------------------------------------------------------------
(***************************************************************************)
(* Parsing a value.                                                        *)
(***************************************************************************)

\* All tokens of a text and the positions after them.
Tokens(text, exceptions) ==
  LET from[p \in 0 .. Len(text) + 1] ==
        LET t == StrTokTok(text, Signs, exceptions, p)
        IN  IF t.found THEN <<t>> \o from[t.pos] ELSE << >>
  IN  from[0]

\* Where the character in front of token t of value v is.  Tokens are searched
\* for from the second character on.  shortAt is where an integer of one digit
\* that ends the value has it.
SignOf(v, t, shortAt) ==
  CASE Len(t.text) = Len(v) - 1 -> v[1]
    [] Len(t.text) # Len(v) - 1 /\ t.pos < Len(v) - 1 -> v[t.pos - Len(t.text)]
    [] OTHER -> v[shortAt + 1]

\* epr_parse_double_token.
DoubleToken(v) ==
  LET ts == Tokens(Tail(v), Exponents)
  IN  [type |-> "double",
       texts |-> [i \in DOMAIN ts |->
                    <<SignOf(v, ts[i], ts[i].pos - Len(ts[i].text))>> \o ts[i].text]]

\* epr_parse_int_token.
IntToken(v) ==
  LET ts == Tokens(Tail(v), {})
      short(i) == IF Len(ts[i].text) # 1 THEN ts[i].pos - Len(ts[i].text)
                  ELSE IF i = 1 THEN ts[i].pos ELSE ts[i].pos - 1
      bad(i)   == ~NoLetters(ts[i].text)
      wrong    == \E i \in DOMAIN ts : bad(i)
  IN  [type |-> IF HasChar(v, {"-"}) \/ wrong THEN "int" ELSE "uint",
       bad  |-> wrong,
       texts |-> [i \in DOMAIN ts |->
                    IF bad(i) THEN Illegal ELSE <<SignOf(v, ts[i], short(i))>> \o ts[i].text]]

Result(type, texts, unit, bad) == [type |-> type, texts |-> texts, unit |-> unit, bad |-> bad]

\* The value after the separator at position pos of a line, which is not a
\* string: its type, the texts for header_values, and whether it is an error.
PlainValue(line, pos) ==
  LET t    == StrTok(line, Seps, pos)
      unit == StrTok(line, Seps, t.pos).text
      v    == t.text
      ints == IntToken(v)
  IN  CASE ~t.found -> Result("uchar", <<<< >>>>, << >>, TRUE)
        [] HasChar(v, {"."} \cup Exponents) ->
             Result("double", DoubleToken(v).texts, unit, FALSE)
        [] Len(v) > 1 /\ ~HasChar(v, {"."} \cup Exponents) ->
             Result(ints.type, ints.texts, unit, ints.bad)
        [] OTHER -> Result("uchar", <<v>>, << >>, FALSE)

-----------------------------------------------------------------------------
(***************************************************************************)
(* The loop over the lines.                                                *)
(***************************************************************************)

NextLine == StrTok(source, {Newline}, at)

\* The keyword of the next line, and the position of its value.
Keyword == StrTok(NextLine.text, Seps, 0)

IsBlank   == NextLine.text # << >> /\ NextLine.text[1] = Blank
NoKeyword == Keyword.pos = 1 \/ Keyword.pos = Len(NextLine.text) + 1
IsQuoted  == Keyword.pos < Len(NextLine.text) /\ NextLine.text[Keyword.pos + 1] = Quote

Parsing == pc = "lines" /\ NextLine.found

Goes == at' = NextLine.pos

\* A line that begins with a blank.
SkipBlank ==
  /\ Parsing /\ IsBlank
  /\ Goes
  /\ UNCHANGED <<lines, source, values, infos, err, pc, record, dsd, starved>>

\* Mutant of SkipNoKeyword: the error is not set.
MutSkipNoKeyword ==
  /\ Parsing /\ ~IsBlank /\ NoKeyword
  /\ Goes
  /\ UNCHANGED <<lines, source, values, infos, err, pc, record, dsd, starved>>

\* Mutant of SkipNoKeyword: the line is not left behind.
MutStayAtLine ==
  /\ Parsing /\ ~IsBlank /\ NoKeyword
  /\ err' = TRUE
  /\ UNCHANGED <<lines, source, at, values, infos, pc, record, dsd, starved>>

\* A line without a keyword, or without a separator.
SkipNoKeyword ==
  /\ Parsing /\ ~IsBlank /\ NoKeyword
  /\ Goes
  /\ err' = TRUE
  /\ UNCHANGED <<lines, source, values, infos, pc, record, dsd, starved>>

\* epr_create_field_info: without a name there is none.
NoInfo == [name |-> << >>, type |-> "none", unit |-> << >>, count |-> 0]

FieldInfo(r) ==
  IF Keyword.found
  THEN [name |-> Keyword.text, type |-> r.type, unit |-> r.unit, count |-> Len(r.texts)]
  ELSE NoInfo

\* Mutant of AddField: a value that is an error is not kept.
MutAddField(r) ==
  /\ Goes
  /\ values' \in AddElems(values, IF r.bad THEN << >> ELSE r.texts)
  /\ infos' \in AddElem(infos, FieldInfo(r))
  /\ err' = (err \/ r.bad)
  /\ starved' = \/ starved
                \/ ~r.bad /\ Len(values'.elems) # Len(values.elems) + Len(r.texts)
                \/ Len(infos'.elems) # Len(infos.elems) + 1
  /\ UNCHANGED <<lines, source, pc, record, dsd>>

\* The texts go to header_values and the info to field_infos.  Nobody looks at
\* whether the arrays grew.
AddField(r) ==
  /\ Goes
  /\ values' \in AddElems(values, r.texts)
  /\ infos' \in AddElem(infos, FieldInfo(r))
  /\ err' = (err \/ r.bad)
  /\ starved' = \/ starved
                \/ Len(values'.elems) # Len(values.elems) + Len(r.texts)
                \/ Len(infos'.elems) # Len(infos.elems) + 1
  /\ UNCHANGED <<lines, source, pc, record, dsd>>

QuotedToken == StrTok(NextLine.text, {Quote}, Keyword.pos + 1)

Crash ==
  /\ pc' = "crash"
  /\ UNCHANGED <<lines, source, at, values, infos, err, record, dsd, starved>>

\* Nothing after the opening quote: epr_strip_string_r asserts.
ReadString ==
  /\ Parsing /\ ~IsBlank /\ ~NoKeyword /\ IsQuoted
  /\ IF QuotedToken.found
     THEN AddField(Result("string", <<StripR(QuotedToken.text)>>, << >>, FALSE))
     ELSE Crash

ReadValue ==
  /\ Parsing /\ ~IsBlank /\ ~NoKeyword /\ ~IsQuoted
  /\ AddField(PlainValue(NextLine.text, Keyword.pos))

-----------------------------------------------------------------------------
(***************************************************************************)
(* The record.                                                             *)
(***************************************************************************)

EndOfText == pc = "lines" /\ ~NextLine.found

\* ptr_index after field n: how many elements the fields so far have.
Taken ==
  LET upTo[n \in 0 .. Len(infos.elems)] ==
        IF n = 0 THEN 0 ELSE upTo[n - 1] + infos.elems[n].count
  IN  upTo

\* epr_create_record_info looks into every info.  epr_set_header_field_values
\* looks into every field, which is NULL if it has no elements, and asserts
\* that there is a value for each element.
Unusable ==
  \/ \E i \in DOMAIN infos.elems : infos.elems[i] = NoInfo \/ infos.elems[i].count = 0
  \/ Taken[Len(infos.elems)] > Len(values.elems)

\* Mutant of FirstValue: one value for each field.
MutFirstValue(n) == n

\* The value of the first element of field n.
FirstValue(n) == 1 + Taken[n - 1]

\* epr_set_header_field_values: an unsigned integer, say, is strtoul of its text.
FieldAt(n) ==
  LET i == infos.elems[n]
  IN  [name |-> i.name, type |-> i.type, unit |-> i.unit,
       elems |-> SubSeq(values.elems, FirstValue(n), FirstValue(n) + i.count - 1)]

\* A header without fields has no record.
MakeRecord ==
  /\ EndOfText
  /\ IF Unusable
     THEN Crash
     ELSE /\ pc' = "made"
          /\ record' = [n \in DOMAIN infos.elems |-> FieldAt(n)]
          /\ UNCHANGED <<lines, source, at, values, infos, err, dsd, starved>>

\* epr_read_mph and epr_read_sph return the record.
ReturnHeader ==
  /\ pc = "made"
  /\ pc' = "returned"
  /\ UNCHANGED <<lines, source, at, values, infos, err, record, dsd, starved>>

Initial(s)  == IF s = << >> THEN << >> ELSE <<s[1]>>
Negative(s) == s # << >> /\ s[1] = "-"

\* What is at the start of the elements of f for someone who casts them without
\* a look at the type: a character is text if it ends it, and an integer is the
\* same signed and unsigned unless it is negative.  All else is the bytes of
\* another type, or bytes behind the only one there is.
Seen(f, cast) ==
  LET first == f.elems[1]
  IN  CASE cast = "text" /\ f.type = "string"                -> first
        [] cast = "text" /\ f.type = "uchar" /\ first = << >> -> << >>
        [] cast = "letter" /\ f.type \in {"string", "uchar"}  -> Initial(first)
        [] cast = "number" /\ f.type = "uint"                -> first
        [] cast = "number" /\ f.type = "int" /\ ~Negative(first) -> first
        [] OTHER                                             -> Misread

\* epr_read_all_dsds takes the members of a descriptor from the first field of
\* each keyword, and the first value of it; a keyword that is missing, or a
\* record, is a NULL field, which is used unchecked.
FieldsNamed(k) == {n \in DOMAIN record : record[n].name = k}

TakeDescriptor ==
  /\ pc = "made"
  /\ IF \E k \in DOMAIN Members : FieldsNamed(k) = {}
     THEN Crash
     ELSE /\ pc' = "returned"
          /\ dsd' = [k \in DOMAIN Members |-> Seen(record[Min(FieldsNamed(k))], Members[k])]
          /\ err' = FALSE
          /\ UNCHANGED <<lines, source, at, values, infos, record, starved>>

\* The call has returned, or the process has ended.
Ended == pc \in {"returned", "crash"} /\ UNCHANGED vars

Init ==
  /\ lines \in Headers
  /\ source = Rendered(lines)
  /\ at = 0
  /\ values = NewArray(Capacity) /\ infos = NewArray(Capacity)
  /\ err = FALSE /\ pc = "lines" /\ record = << >> /\ dsd = << >>
  /\ starved = FALSE

Next == \/ SkipBlank \/ SkipNoKeyword \/ ReadString \/ ReadValue
        \/ MakeRecord \/ ReturnHeader \/ TakeDescriptor
        \/ Ended

Spec == Init /\ [][Next]_vars

-----------------------------------------------------------------------------
(***************************************************************************)
(* Properties.                                                             *)
(***************************************************************************)

IsText(s) == \A i \in DOMAIN s : s[i] \in Chars

Sized(a) == /\ Len(a.elems) <= a.capacity
            /\ a.capacity = Capacity \/ a.capacity < 2 * Len(a.elems)

\* The position stays in the text or one after it; arrays are no longer than
\* they have room for, and only grow, to double, when they are full.
TypeOK ==
  /\ lines \in Headers
  /\ at \in 0 .. Len(source) + 1
  /\ pc \in {"lines", "made", "returned", "crash"}
  /\ {err, starved} \subseteq BOOLEAN
  /\ Sized(values) /\ Sized(infos)
  /\ \A i \in DOMAIN values.elems : IsText(values.elems[i])
  /\ \A i \in DOMAIN infos.elems :
       infos.elems[i].type \in {"string", "uchar", "int", "uint", "double", "none"}

FieldLines == {i \in DOMAIN lines : IsField(lines[i])}

\* The fields of r are those that the lines in L mean, in their order.
FieldsOf(r, L) ==
  \E place \in [DOMAIN r -> L] :
    /\ \A i \in L : \E n \in DOMAIN r : place[n] = i
    /\ \A m, n \in DOMAIN r : m < n => place[m] < place[n]
    /\ \A n \in DOMAIN r : r[n] = Meant(lines[place[n]])

\* The lines that a member of a descriptor can be read from: a name is quoted,
\* or nothing; a letter may do without quotes; a number has two characters, or a
\* sign, is no double and, if another of its line is negative, is not itself.
Suits(l, cast) ==
  \/ cast = "text" /\ (l.kind = "string" \/ (l.kind = "char" /\ l.values[1] = << >>))
  \/ cast = "letter" /\ l.kind \in {"string", "char"}
  \/ /\ cast = "number" /\ l.kind = "list"
     /\ ListType(l.values) # "double" /\ ~Negative(Meant(l).elems[1])

\* The first value of a line, or the first letter of it.
FirstOf(l, cast) ==
  IF cast = "letter" THEN Initial(Meant(l).elems[1]) ELSE Meant(l).elems[1]

\* What epr_parse_header promises: unless memory ran out, the fields of the
\* record are those of the header, in order, each with the values of its own
\* line, however many elements the lines before it have and whichever of them
\* were skipped or in error.  A member of a descriptor is the first value of the
\* first line of its keyword where that line suits its cast, and only there:
\* epr_read_all_dsds reads, say, NUM_DSR=7 as four bytes where there is one.
OwnValues ==
  pc \in {"made", "returned"} /\ ~starved =>
    /\ FieldsOf(record, FieldLines)
    /\ dsd # << >> =>
         \A k \in DOMAIN Members : \E i \in FieldLines :
           /\ lines[i].name = k
           /\ \A j \in FieldLines : j < i => lines[j].name # k
           /\ dsd[k] = IF Suits(lines[i], Members[k])
                       THEN FirstOf(lines[i], Members[k]) ELSE Misread

\* A line that a reader should be told of: no keyword, no value, or in a list of
\* integers what is no number.  Nobody looks for that in a list of doubles, or in
\* a value of one character.
Malformed(l) ==
  \/ l.kind = "odd"
  \/ l.kind = "char" /\ l.values[1] = << >>
  \/ IsField(l) /\ Meant(l).type = "int" /\ \E i \in DOMAIN l.values : ~IsNumber(l.values[i])

\* epr_parse_header goes on after a malformed line, and returns a record; that
\* there was one is known by the error code, and by nothing else.  An array
\* that cannot grow is not reported at all.
MalformedReported ==
  pc = "made" /\ (\A i \in DOMAIN lines : lines[i].kind # "fatal") =>
    (err <=> \E i \in DOMAIN lines : Malformed(lines[i]))

\* Headers that end the process: an empty line, a quote that ends its line, a
\* value that is a point or an exponent and nothing else; a list of values
\* that memory was missing for; a descriptor without one of its keywords.
CrashCauses ==
  pc = "crash" =>
    \/ \E i \in DOMAIN lines : lines[i].kind = "fatal"
    \/ starved
    \/ \E k \in DOMAIN Members : \A i \in FieldLines : lines[i].name # k

\* Every step of the loop gets on in the text, also over lines that are left
\* out.  The text is finite and no step is stuck, so that parsing ends.
Forward == [][pc' = "lines" => at' > at]_vars
=============================================================================
