------------------------------ MODULE EprValue ------------------------------
(***************************************************************************)
(* The value of a field, from the bytes of a file to the caller: the bytes *)
(* are stored as they are, swapped in place word by word if the machine    *)
(* needs it (epr_swap.c), and looked at with the field's type, converted   *)
(* to the type asked for, one by one or copied to a buffer (epr_typconv.c).*)
(* Pixels of a raster are converted in the same way (epr_bitmask.c).       *)
(*                                                                         *)
(* A word is the number it is without a sign.  The machine's char has one. *)
(* What a number becomes that is rounded or cut off is named, not computed.*)
(***************************************************************************)
EXTENDS Integers, Sequences

CONSTANTS
  Base,      \* the values of a byte: 256
  MaxElems,  \* bound: elements of a field
  FileTypes, \* the types of fields in the files
  TimeWords  \* bound: the words of a time in the files

Integer == {"uchar", "char", "ushort", "short", "uint", "int"}
Numeric == Integer \cup {"float", "double"}
Types   == Numeric \cup {"string", "spare", "time"}

ASSUME BaseAssumption == Base \in Nat \ {0, 1} /\ Base % 2 = 0
ASSUME MaxElemsAssumption == MaxElems \in Nat \ {0}

\* epr_swap_endian_order refuses a field of type double: the database has none.
ASSUME FileTypesAssumption == FileTypes \subseteq Types \ {"double"}

NULL == [type |-> "none", elems |-> << >>]

VARIABLES
  little_endian_order,  \* the order of the machine
  field,                \* the field: type, and words of elems; NULL
  raster,               \* one line of pixels: data_type, and words of buffer
  source,               \* the words that were written to the file
  err,                  \* an error code is set
  result                \* of the last call: call, target, at and values

vars == <<little_endian_order, field, raster, source, err, result>>

-----------------------------------------------------------------------------
(***************************************************************************)
(* Words.                                                                  *)
(***************************************************************************)

\* The bytes of a word, the unit that is swapped.
WordSize(type) ==
  CASE type \in {"uchar", "char", "string", "spare"} -> 1
    [] type \in {"ushort", "short"} -> 2
    [] type \in {"uint", "int", "float", "time"} -> 4
    [] type = "double" -> 8

\* epr_get_data_type_size, in words: a time is days, seconds and microseconds.
WordsPer(type) == IF type = "time" THEN 3 ELSE 1

\* How many numbers k bytes can hold.
Power(k) ==
  LET two  == Base * Base
      four == two * two
  IN  CASE k = 0 -> 1 [] k = 1 -> Base [] k = 2 -> two [] k = 3 -> two * Base
        [] k = 4 -> four [] k = 8 -> four * four

\* How many a word of a type can.
Count(type) == Power(WordSize(type))

ASSUME TimeWordsAssumption == TimeWords \subseteq 0 .. Count("time") - 1

Byte(w, k) == (w \div Power(k)) % Base

\* The number whose bytes are given, the most significant first.
Number2(a, b)       == (a * Base) + b
Number4(a, b, c, d) == (a * Power(3)) + (b * Power(2)) + (c * Base) + d

\* Mutant of byte_swap_int: the halves are not swapped.
MutByteSwapInt(w) ==
  Number4(Byte(w, 2), Byte(w, 3), Byte(w, 0), Byte(w, 1))

byte_swap_short(w) == Number2(Byte(w, 0), Byte(w, 1))

byte_swap_int(w) == Number4(Byte(w, 0), Byte(w, 1), Byte(w, 2), Byte(w, 3))

\* The number that the machine sees in the bytes of a word of the file, which
\* are there from the most significant to the least.
Stored(w, size) ==
  LET InFile(n) == Byte(w, size - 1 - n)
  IN  CASE ~little_endian_order \/ size = 1 -> w
        [] little_endian_order /\ size = 2 -> Number2(InFile(1), InFile(0))
        [] little_endian_order /\ size = 4 -> Number4(InFile(3), InFile(2), InFile(1), InFile(0))

\* epr_swap_endian_order; a time is one element.
epr_swap_endian_order(type, elems) ==
  CASE type \in {"ushort", "short"} -> [i \in DOMAIN elems |-> byte_swap_short(elems[i])]
    [] type \in {"uint", "int", "float"} -> [i \in DOMAIN elems |-> byte_swap_int(elems[i])]
    [] type = "time" -> [i \in DOMAIN elems |-> IF i <= 3 THEN byte_swap_int(elems[i]) ELSE elems[i]]
    [] OTHER -> elems

-----------------------------------------------------------------------------
(***************************************************************************)
(* Values.                                                                 *)
(***************************************************************************)

Whole(n) == <<"whole", n>>
Floating(type, w) == <<type, w>>  \* the number of a float or double

\* A word seen with a type.
View(type, w) ==
  LET half == Count(type) \div 2
  IN  IF type \in {"float", "double"} THEN Floating(type, w)
      ELSE IF type \in {"char", "short", "int"} /\ w >= half THEN Whole(w - (2 * half))
      ELSE Whole(w)

\* The numbers that a float is known to have: the whole ones of its 24 bits, and
\* those that come from a float.
HasFloat(v) ==
  \/ v[1] = "whole" /\ v[2] \in -Power(3) .. Power(3)
  \/ v[1] = "float"

\* The float nearest to a number, which is another one for most.
Rounded(v) == <<"rounded", v[1], v[2]>>

\* A C conversion: whole numbers wrap in whole types, and are rounded to float
\* when they have more bits than it; a double has them all.
Convert(v, target) ==
  CASE v[1] = "whole" /\ target \in Integer -> View(target, v[2] % Count(target))
    [] v[1] # "whole" /\ target \in Integer -> <<"truncated", v[2]>>
    [] target = "float" /\ ~HasFloat(v) -> Rounded(v)
    [] OTHER -> v

\* Mutant of ElemTypes: one of the types is forgotten.
MutElemTypes(target) ==
  CASE target = "uint" -> {"uint", "uchar", "char", "ushort"}
    [] target \in {"char", "uchar"} -> {target}
    [] target \in {"short", "ushort"} -> {"uchar", "char", target}
    [] target = "int" -> {"uchar", "char", "ushort", "short", "int"}
    [] target = "float" -> Integer \cup {"float"}
    [] target = "double" -> Numeric

\* The types of fields whose elements epr_get_field_elem_as_* takes.
ElemTypes(target) ==
  CASE target \in {"char", "uchar"} -> {target}
    [] target \in {"short", "ushort"} -> {"uchar", "char", target}
    [] target = "int" -> {"uchar", "char", "ushort", "short", "int"}
    [] target = "uint" -> {"uint", "uchar", "char", "ushort", "short"}
    [] target = "float" -> Integer \cup {"float"}
    [] target = "double" -> Numeric

\* The types that epr_copy_field_elems_as_* takes, and the type it sees.
CopyTypes(target) ==
  CASE target = "double" -> Numeric
    [] target = "float" -> Integer \cup {"float"}
    [] target \in {"int", "uint"} -> {"uchar", "char", "ushort", "short", "int"}

CopyView(type, target) == IF target = "uint" /\ type = "int" THEN "uint" ELSE type

-----------------------------------------------------------------------------
Nothing == [call |-> "none", target |-> "none", at |-> 0, values |-> << >>]

Init ==
  /\ little_endian_order \in BOOLEAN
  /\ field = NULL
  /\ raster = NULL
  /\ source = << >>
  /\ err = FALSE
  /\ result = Nothing

\* epr_read_record: the bytes of one field, swapped if the machine needs it.
ReadField(type, words) ==
  LET stored == [i \in DOMAIN words |-> Stored(words[i], WordSize(type))]
  IN  /\ field = NULL
      /\ field' = [ type |-> type,
                    elems |-> IF little_endian_order THEN epr_swap_endian_order(type, stored) ELSE stored ]
      /\ source' = words
      /\ result' = Nothing
      /\ UNCHANGED <<little_endian_order, raster, err>>

\* A field of a header has the machine's numbers.
ParseField(words) ==
  /\ field = NULL
  /\ field' = [type |-> "double", elems |-> words]
  /\ source' = words
  /\ result' = Nothing
  /\ UNCHANGED <<little_endian_order, raster, err>>

\* A decoder that copies a line of elements.
DecodeLine ==
  /\ raster = NULL
  /\ field.type \in Numeric
  /\ raster' = field
  /\ result' = Nothing
  /\ UNCHANGED <<little_endian_order, field, source, err>>

NumElems == Len(field.elems) \div WordsPer(field.type)

Return(call, target, at, failed, values) ==
  /\ err' = failed
  /\ result' = [call |-> call, target |-> target, at |-> at, values |-> values]
  /\ UNCHANGED <<little_endian_order, field, raster, source>>

\* epr_get_field_elem_as_<target>.
ElemAs(target, i) ==
  IF field # NULL /\ i < NumElems /\ field.type \in ElemTypes(target)
    THEN <<Convert(View(field.type, field.elems[i + 1]), target)>>
    ELSE << >>

\* The caller gets 0 for an error.
GetElem(target, i) ==
  LET found == ElemAs(target, i)
  IN  Return("elem", target, i, found = << >>, IF found = << >> THEN <<Whole(0)>> ELSE found)

Views == [i \in DOMAIN field.elems |-> View(field.type, field.elems[i])]

\* epr_get_field_elems_<target>: the elements themselves, if they have the type.
GetElems(target) ==
  LET found == field.type = target
  IN  Return("elems", target, 0, ~found, IF found THEN Views ELSE << >>)

\* epr_get_field_elem_as_mjd, seen as an EPR_STime: days may be negative.
GetTime ==
  LET found == field.type = "time"
  IN  Return("mjd", "time", 0, ~found,
             IF found THEN [i \in 1 .. 3 |-> View(IF i = 1 THEN "int" ELSE "uint", field.elems[i])]
                      ELSE << >>)

\* epr_get_field_elem_as_str.
GetString ==
  LET found == field.type = "string"
  IN  Return("str", "string", 0, ~found, IF found THEN Views ELSE << >>)

\* Mutant of CopyAs: of a field longer than the buffer the last elements are copied.
MutCopyAs(target, num_elems) ==
  LET n == IF NumElems < num_elems THEN NumElems ELSE num_elems
  IN  IF field.type \notin CopyTypes(target) THEN << >>
      ELSE [i \in 1 .. n |->
              Convert(View(CopyView(field.type, target), field.elems[(NumElems - n) + i]), target)]

\* epr_copy_field_elems_as_<target>, to a buffer of num_elems: what is copied.
CopyAs(target, num_elems) ==
  LET n == IF NumElems < num_elems THEN NumElems ELSE num_elems
  IN  IF field.type \notin CopyTypes(target) THEN << >>
      ELSE [i \in 1 .. n |-> Convert(View(CopyView(field.type, target), field.elems[i]), target)]

CopyElems(target, num_elems) ==
  Return("copy", target, num_elems, field.type \notin CopyTypes(target), CopyAs(target, num_elems))

\* epr_get_pixel_as_<target> of a raster in one line.
GetPixel(target, x) ==
  /\ raster # NULL /\ x < Len(raster.elems)
  /\ Return("pixel", target, x, FALSE, <<Convert(View(raster.type, raster.elems[x + 1]), target)>>)

Words(type) == IF type = "time" THEN TimeWords ELSE 0 .. Count(type) - 1

Lengths(type) ==
  CASE type = "time" -> {3}
    [] type = "double" -> {1}
    [] OTHER -> 1 .. MaxElems

Next ==
  \/ \E type \in FileTypes : \E n \in Lengths(type) :
       \E words \in [1 .. n -> Words(type)] : ReadField(type, words)
  \/ \E w \in Words("double") : ParseField(<<w>>)
  \/ DecodeLine
  \/ \E target \in Numeric, i \in 0 .. MaxElems : GetElem(target, i)
  \/ \E target \in Numeric : GetElems(target)
  \/ GetTime
  \/ GetString
  \/ \E target \in {"double", "float", "int", "uint"}, n \in 1 .. MaxElems + 1 : CopyElems(target, n)
  \/ \E target \in {"uint", "int", "float", "double"}, x \in 0 .. MaxElems - 1 : GetPixel(target, x)

Spec == Init /\ [][Next]_vars

-----------------------------------------------------------------------------
(***************************************************************************)
(* Properties.                                                             *)
(***************************************************************************)

\* The number in the file is the one that the caller gets; it differs by the
\* range of an unsigned type if it is negative, and is the nearest float if a
\* float does not have it.
Faithful(i, target, got) ==
  LET v == View(field.type, source[i])
      range == Count(target)
      unsigned == target \in {"uchar", "ushort", "uint"}
  IN  IF v[1] = "whole" /\ v[2] < 0 /\ unsigned THEN got = Whole(v[2] + range)
      ELSE IF target = "float" /\ ~HasFloat(v) THEN got = Rounded(v)
      ELSE got = v

\* Whether a number is one of the type asked for.
InRange(v, target) ==
  CASE target = "int"    -> v[1] = "whole" /\ v[2] < Count("int") \div 2
    [] target = "uint"   -> v[1] = "whole" /\ v[2] >= 0
    [] target = "float"  -> HasFloat(v)
    [] target = "double" -> TRUE

\* On machines of both orders, what epr_get_field_elem_as_*, its array, time and
\* string forms and epr_copy_field_elems_as_* return without an error is what
\* the file holds, the first elements in their order.  What they offer to convert
\* to a whole type or to double is kept, but for the sign in an unsigned type; a
\* whole number of more than 24 bits is rounded to float (byte_swap_*,
\* epr_typconv.c).  A pixel is the number in the file if the type asked for has
\* it (epr_get_pixel_as_*).
ValuesOfFile ==
  ~err =>
    /\ result.call = "elem" => Faithful(result.at + 1, result.target, result.values[1])
    /\ result.call = "copy" =>
         /\ Len(result.values) = (IF NumElems < result.at THEN NumElems ELSE result.at)
         /\ \A i \in DOMAIN result.values : Faithful(i, result.target, result.values[i])
    /\ result.call \in {"elems", "str"} =>
         result.values = [i \in DOMAIN source |-> View(field.type, source[i])]
    /\ result.call = "mjd" =>
         \A i \in 1 .. 3 : result.values[i] = View(IF i = 1 THEN "int" ELSE "uint", source[i])
    /\ result.call = "pixel" =>
         LET v == View(field.type, source[result.at + 1])
         IN  InRange(v, result.target) => result.values = <<v>>

\* epr_typconv.c:849-850 and epr_api.h:1308-1309 promise that copies convert from
\* every type.  They do not: to double, float and int a copy gives what asking for
\* each element gives, and refuses a field when that refuses it.  To uint not even
\* that holds: epr_copy_field_elems_as_uints has int in its list of types where
\* epr_get_field_elem_as_uint has uint, so that it refuses what the other gives,
\* even a field that is of type uint, and gives the unsigned word of what the
\* other refuses.
CopiesAgree ==
  field # NULL =>
    \A target \in {"double", "float", "int", "uint"} : \A i \in 1 .. NumElems :
      LET copied == CopyAs(target, NumElems)
          asked  == ElemAs(target, i - 1)
          word   == Whole(field.elems[i])
      IN  CASE target = "uint" /\ field.type = "uint" -> copied = << >> /\ asked = <<word>>
            [] target = "uint" /\ field.type = "int"  -> copied[i] = word /\ asked = << >>
            [] OTHER -> asked = IF copied = << >> THEN << >> ELSE <<copied[i]>>
=============================================================================
