----------------------------- MODULE EprRecord -----------------------------
(***************************************************************************)
(* Records of an open product (epr_record.c, epr_field.c, epr_dataset.c):  *)
(* the record info of a dataset, built from the DDDB when it is first      *)
(* needed and kept for all later records; records made from it; and        *)
(* epr_read_record, which fills a record, new or of the caller, field by   *)
(* field and may fail at each of them.                                     *)
(*                                                                         *)
(* Dataset names are different within a product type, so that the cache    *)
(* of record infos, searched by name, finds the info of a dataset only if  *)
(* the dataset has it already: info[d] stands for both.  The bytes of a    *)
(* field are the place in the file they come from and their order.         *)
(***************************************************************************)
EXTENDS Integers, Sequences

CONSTANTS
  Datasets,      \* the dataset ids of the product
  Layout,        \* the DDDB: for each dataset its fields
  Dsd,           \* the dataset descriptors: offset, size and number of records
  Records,       \* the records a caller may have at a time
  NoRecord,      \* a NULL record, or none
  NoInfo,        \* record_info is NULL
  NoCall,        \* no read is in progress
  Blank, Damaged,  \* a record holds no line: it is new, or a read into it failed
  LittleEndian,  \* the order of bytes of the machine
  BadCount,      \* what epr_parse_value_count returns on error: 16111
  Capacity,      \* elements an array of field infos has before it grows: 16
  Wrap           \* 2^32: uint arithmetic is modulo Wrap

\* A field in the DDDB: bytes per element, number of elements, whether that
\* number can be parsed, and whether its type has an order of bytes.
FieldType == [bytes : Nat \ {0}, count : Nat, parses : BOOLEAN, ordered : BOOLEAN]
DsdType   == [offset : Nat, size : Nat, num : Nat]

ASSUME LayoutAssumption   == Layout \in [Datasets -> Seq(FieldType) \ {<< >>}]
ASSUME DsdAssumption      == Dsd \in [Datasets -> DsdType]
ASSUME OrderAssumption    == LittleEndian \in BOOLEAN
ASSUME CapacityAssumption == Capacity \in Nat \ {0} /\ BadCount \in Nat

\* Products are smaller than 2^32 bytes.
ASSUME WrapAssumption ==
  /\ Wrap \in Nat \ {0}
  /\ \A d \in Datasets : Dsd[d].offset + Dsd[d].size * Dsd[d].num <= Wrap

VARIABLES
  open,     \* the product is open
  info,     \* for each dataset its record info: a sequence of field infos
  rec,      \* the records of the caller
  pc,       \* "idle", "fields" or "crash"
  call,     \* the read in progress: record, dataset, line, whether it made the record
  k,        \* the field to read next
  at,       \* the position in the file
  err,      \* whether the last error code is set
  last,     \* the last call: its name and the record it returned
  starved   \* whether memory has ever run out

vars == <<open, info, rec, pc, call, k, at, err, last, starved>>

Idle == pc = "idle"

-----------------------------------------------------------------------------
(***************************************************************************)
(* Record infos.                                                           *)
(***************************************************************************)

\* The field infos as the DDDB has them: positions and numbers of elements.
Parsed(d) ==
  [n \in DOMAIN Layout[d] |->
     [field |-> n, count |-> IF Layout[d][n].parses THEN Layout[d][n].count ELSE BadCount]]

\* epr_read_record_info: the fields in their order, but without memory a number
\* of elements is not parsed, and field infos that the array cannot grow for are
\* lost.
Built ==
  [d \in Datasets |->
     LET unparsed == {[field |-> n, count |-> BadCount] : n \in DOMAIN Layout[d]}
         parsed   == {Parsed(d)[n] : n \in DOMAIN Layout[d]}
     IN  UNION {{s \in [1 .. m -> parsed \cup unparsed] :
                   /\ \A i \in 1 .. m - 1 : s[i].field < s[i + 1].field
                   /\ \A n \in DOMAIN Layout[d] : n <= Capacity => \E i \in 1 .. m : s[i].field = n} :
                  m \in 0 .. Len(Layout[d])}]

FieldOf(d, i) == Layout[d][i.field]
Bytes(d, i)   == i.count * FieldOf(d, i).bytes

\* tot_size of a record info.
TotSize(d, s) ==
  LET sum[n \in 0 .. Len(s)] == IF n = 0 THEN 0 ELSE sum[n - 1] + Bytes(d, s[n])
  IN  sum[Len(s)]

\* The size of its records tells a damaged record info from the right one.
ASSUME SizesTell ==
  \A d \in Datasets : \A s \in Built[d] :
    TotSize(d, s) = Dsd[d].size =>
      s = Parsed(d) /\ \A n \in DOMAIN Layout[d] : Layout[d][n].parses

\* The record info of a dataset, kept or built now; and whether building it
\* sets the error code, because a number of elements cannot be parsed.
Infos(d) == IF info[d] = NoInfo THEN Built[d] ELSE {info[d]}

InfoErr(d, s) ==
  /\ info[d] = NoInfo
  /\ \E n \in DOMAIN s : ~FieldOf(d, s[n]).parses \/ s[n].count # FieldOf(d, s[n]).count

-----------------------------------------------------------------------------
(***************************************************************************)
(* Records.                                                                *)
(***************************************************************************)

\* The content of a field: of a field that is a NULL pointer, that nothing was
\* read into, that was read in part, or that was read.
FieldContent(s) == [state |-> s, at |-> 0, swapped |-> FALSE]
Missing    == FieldContent("missing")
New        == FieldContent("new")
Torn       == FieldContent("torn")
Read(p, w) == [state |-> "read", at |-> p, swapped |-> w]

ContentType == [state : {"missing", "new", "torn", "read"}, at : Nat, swapped : BOOLEAN]
RecordType  == [ds : Datasets, fields : Seq(ContentType)]

\* NULL pointers are no records and no record infos.
ASSUME NullAssumption ==
  /\ NoRecord \notin Records \cup RecordType \cup [rec : Records, ds : Datasets, line : Nat]
  /\ NoInfo \notin Seq(ContentType) \cup UNION {Built[d] : d \in Datasets}

\* Mutant of NewFields: as many fields as the DDDB has.
MutNewFields(d, s) == [DOMAIN Layout[d] -> {New}]

\* epr_create_record_from_info: fields without elements, and those that memory
\* is missing for, are NULL.
NewFields(d, s) ==
  {f \in [DOMAIN s -> {New, Missing}] : \A n \in DOMAIN s : s[n].count = 0 => f[n] = Missing}

\* The info of dataset d is s from now on, and fields f are made.
KeepInfo(d, s, f) ==
  /\ info' = [info EXCEPT ![d] = s]
  /\ starved' = \/ starved
                \/ s # Parsed(d)
                \/ \E n \in DOMAIN s : s[n].count # 0 /\ f[n] = Missing

\* The error code that making a record leaves.
MakeErr(d, s, f) == InfoErr(d, s) \/ \E n \in DOMAIN f : f[n] = Missing

\* Memory runs out: the record is not made, or its info is not either.
MakeFails(d) ==
  /\ info' \in {info} \cup {[info EXCEPT ![d] = s] : s \in Infos(d)}
  /\ starved' = TRUE

Returns(name, r, e) == last' = [fn |-> name, rec |-> r] /\ err' = e

\* epr_create_record.
CreateRecord(d, r) ==
  /\ Idle /\ open
  /\ rec[r] = NoRecord
  /\ \/ \E s \in Infos(d) : \E f \in NewFields(d, s) :
          /\ KeepInfo(d, s, f)
          /\ rec' = [rec EXCEPT ![r] = [ds |-> d, fields |-> f]]
          /\ Returns("create", r, MakeErr(d, s, f))
     \/ MakeFails(d) /\ Returns("create", NoRecord, TRUE) /\ UNCHANGED rec
  /\ UNCHANGED <<open, pc, call, k, at>>

\* A field info that memory is missing for is used unchecked.
InfoCrash(d) ==
  /\ Idle /\ open
  /\ info[d] = NoInfo
  /\ pc' = "crash"
  /\ starved' = TRUE
  /\ UNCHANGED <<open, info, rec, call, k, at, err, last>>

NullUpTo(r, n) == \E m \in DOMAIN rec[r].fields : m <= n /\ rec[r].fields[m] = Missing

\* epr_get_field: the fields up to the one found, or all of them, are looked at,
\* by the names in their infos.  Those of a record that outlives its product are
\* freed: the names are anything, so that a field is found or not, or the
\* process ends.
GetField(r, n) ==
  /\ Idle
  /\ rec[r] # NoRecord
  /\ n \in 1 .. Len(rec[r].fields) + 1
  /\ \/ /\ NullUpTo(r, n) \/ ~open
        /\ pc' = "crash" /\ last' = [fn |-> "get", rec |-> NoRecord] /\ UNCHANGED err
     \/ /\ ~NullUpTo(r, IF open THEN n ELSE 1)
        /\ \E missed \in IF open THEN {n = Len(rec[r].fields) + 1} ELSE BOOLEAN :
             Returns("get", NoRecord, missed)
        /\ UNCHANGED pc
  /\ UNCHANGED <<open, info, rec, call, k, at, starved>>

\* Mutant of FieldsFreed: the number of fields is taken from the record info.
MutFieldsFreed(r) == info[rec[r].ds]

\* The fields that epr_free_record frees: as many as the record has.
FieldsFreed(r) == rec[r].fields

\* epr_free_record, also of a record that outlives its product.
FreeRecord(r) ==
  /\ Idle
  /\ rec[r] # NoRecord
  /\ IF FieldsFreed(r) = NoInfo
     THEN pc' = "crash" /\ last' = [fn |-> "free", rec |-> NoRecord] /\ UNCHANGED <<rec, err>>
     ELSE /\ rec' = [rec EXCEPT ![r] = NoRecord]
          /\ Returns("free", NoRecord, FALSE)
          /\ UNCHANGED pc
  /\ UNCHANGED <<open, info, call, k, at, starved>>

\* epr_close_product frees the record infos; records stay with the caller.
CloseProduct ==
  /\ Idle /\ open
  /\ open' = FALSE
  /\ info' = [d \in Datasets |-> NoInfo]
  /\ Returns("close", NoRecord, FALSE)
  /\ UNCHANGED <<rec, pc, call, k, at, starved>>

-----------------------------------------------------------------------------
(***************************************************************************)
(* epr_read_record.                                                        *)
(***************************************************************************)

\* Where line i of a dataset begins, in uint arithmetic.
Start(d, i) == (Dsd[d].offset + Dsd[d].size * i) % Wrap

\* Mutant of Fits: the size of records is not compared with that in the file.
MutFits(d, i, s) == i < Dsd[d].num

\* The line exists, and records have the size that the file says.
Fits(d, i, s) == i < Dsd[d].num /\ TotSize(d, s) = Dsd[d].size

\* Mutant of Compatible: a record of the same size will do.
MutCompatible(r, d) ==
  info[d] # NoInfo /\ TotSize(rec[r].ds, info[rec[r].ds]) = Dsd[d].size

\* The record has the info of the dataset.
Compatible(r, d) == rec[r].ds = d

Refused == Returns("read", NoRecord, TRUE) /\ UNCHANGED <<open, pc, call, k, at>>

\* The loop over the fields begins.
BeginFields(d, i, r, new, e) ==
  /\ pc'   = "fields"
  /\ call' = [rec |-> r, ds |-> d, line |-> i, new |-> new]
  /\ k'    = 1
  /\ at'   = Start(d, i)
  /\ Returns("read", NoRecord, e)
  /\ UNCHANGED open

\* A record of the caller.  Any read may fail when the file is positioned.
ReadInto(d, i, r) ==
  /\ Idle /\ open
  /\ rec[r] # NoRecord
  /\ \/ Refused
     \/ Compatible(r, d) /\ Fits(d, i, info[d]) /\ BeginFields(d, i, r, FALSE, FALSE)
  /\ UNCHANGED <<info, rec, starved>>

\* No record: one is made, and lost if the read then does not begin.
ReadNew(d, i, r) ==
  /\ Idle /\ open
  /\ rec[r] = NoRecord
  /\ IF i >= Dsd[d].num
     THEN Refused /\ UNCHANGED <<info, rec, starved>>
     ELSE \/ MakeFails(d) /\ Refused /\ UNCHANGED rec
          \/ \E s \in Infos(d) : \E f \in NewFields(d, s) :
               /\ KeepInfo(d, s, f)
               /\ \/ Refused /\ UNCHANGED rec
                  \/ /\ Fits(d, i, s)
                     /\ rec' = [rec EXCEPT ![r] = [ds |-> d, fields |-> f]]
                     /\ BeginFields(d, i, r, TRUE, MakeErr(d, s, f))

Fields == rec[call.rec].fields

\* The next field is put into the record.
Put(v) == rec' = [rec EXCEPT ![call.rec].fields[k] = v]

\* A NULL field is used.
FieldCrash ==
  /\ pc = "fields"
  /\ k <= Len(Fields) /\ Fields[k] = Missing
  /\ pc' = "crash"
  /\ UNCHANGED <<open, info, rec, call, k, at, err, last, starved>>

\* A field is read, and its bytes are put into the order of the machine.
ReadField ==
  /\ pc = "fields"
  /\ k <= Len(Fields) /\ Fields[k] # Missing
  /\ LET i == info[call.ds][k]
     IN  /\ Put(Read(at, LittleEndian /\ FieldOf(call.ds, i).ordered))
         /\ at' = at + Bytes(call.ds, i)
  /\ k' = k + 1
  /\ UNCHANGED <<open, info, pc, call, err, last, starved>>

\* The read is over; its variables are gone.
Leave == pc' = "idle" /\ call' = NoCall /\ k' = 0 /\ at' = 0 /\ UNCHANGED <<open, info, starved>>

\* Mutant of FieldFails: the line is read again from its first field.
MutFieldFails ==
  /\ pc = "fields"
  /\ k <= Len(Fields) /\ Fields[k] # Missing
  /\ Put(Torn)
  /\ k' = 1 /\ at' = Start(call.ds, call.line)
  /\ UNCHANGED <<open, info, pc, call, err, last, starved>>

\* A field cannot be read, or not all of it.  A record made for the read is
\* lost, one of the caller stays as it is.
FieldFails ==
  /\ pc = "fields"
  /\ k <= Len(Fields) /\ Fields[k] # Missing
  /\ IF call.new THEN rec' = [rec EXCEPT ![call.rec] = NoRecord] ELSE Put(Torn)
  /\ Returns("read", NoRecord, TRUE)
  /\ Leave

ReadDone ==
  /\ pc = "fields"
  /\ k > Len(Fields)
  /\ last' = [fn |-> "read", rec |-> call.rec]
  /\ Leave
  /\ UNCHANGED <<rec, err>>

-----------------------------------------------------------------------------
Init ==
  /\ open = TRUE
  /\ info = [d \in Datasets |-> NoInfo]
  /\ rec  = [r \in Records |-> NoRecord]
  /\ pc   = "idle"
  /\ call = NoCall
  /\ k = 0 /\ at = 0
  /\ err  = FALSE
  /\ last = [fn |-> "open", rec |-> NoRecord]
  /\ starved = FALSE

ReadStep == FieldCrash \/ ReadField \/ FieldFails \/ ReadDone

\* Where a field may be in a record, and where none is.
Places == UNION {1 .. Len(Layout[d]) + 1 : d \in Datasets}

\* The lines a caller may ask for: those there are, and one more.
Lines(d) == 0 .. Dsd[d].num

Next ==
  \/ ReadStep
  \/ CloseProduct
  \/ (\E d \in Datasets : InfoCrash(d))
  \/ (\E d \in Datasets, r \in Records : CreateRecord(d, r))
  \/ (\E r \in Records : FreeRecord(r))
  \/ (\E r \in Records : \E n \in Places : GetField(r, n))
  \/ (\E d \in Datasets, r \in Records : \E i \in Lines(d) : ReadInto(d, i, r) \/ ReadNew(d, i, r))

\* A read that has begun runs on: the library is sequential code.
Spec == Init /\ [][Next]_vars /\ WF_vars(ReadStep)

-----------------------------------------------------------------------------
(***************************************************************************)
(* Properties.                                                             *)
(***************************************************************************)

\* Every variable has its type, and a record has the fields of its record info.
TypeOK ==
  /\ open \in BOOLEAN /\ err \in BOOLEAN /\ starved \in BOOLEAN
  /\ \A d \in Datasets : info[d] = NoInfo \/ info[d] \in Built[d]
  /\ rec \in [Records -> RecordType \cup {NoRecord}]
  /\ \A r \in Records : open /\ rec[r] # NoRecord =>
       info[rec[r].ds] # NoInfo /\ DOMAIN rec[r].fields = DOMAIN info[rec[r].ds]
  /\ pc \in {"idle", "fields", "crash"}
  /\ k \in Nat /\ at \in Nat
  /\ last.rec \in Records \cup {NoRecord}

\* A record v holds line i of its dataset: the bytes of each field follow those of
\* the field before, from where the line begins, in the order of the machine.
HoldsLine(v, i) ==
  LET d == v.ds
      f == v.fields
  IN  /\ Len(f) = Len(Layout[d])
      /\ \A n \in DOMAIN f :
           /\ f[n].state = "read"
           /\ f[n].swapped = (LittleEndian /\ Layout[d][n].ordered)
           /\ f[n].at = IF n = 1 THEN Dsd[d].offset + Dsd[d].size * i
                        ELSE f[n - 1].at + Layout[d][n - 1].count * Layout[d][n - 1].bytes

Untouched(v) == \A n \in DOMAIN v.fields : v.fields[n] \in {New, Missing}

LinesHeld(v) == {i \in 0 .. Dsd[v.ds].num - 1 : HoldsLine(v, i)}

\* What a record holds, as EprLines says it.
Content(v) ==
  IF v = NoRecord THEN NoRecord
  ELSE [ds   |-> v.ds,
        line |-> IF Untouched(v) THEN Blank
                 ELSE IF LinesHeld(v) # {} THEN CHOOSE i \in LinesHeld(v) : TRUE
                      ELSE Damaged]

Abstract == INSTANCE EprLines
  WITH NumLines <- [d \in Datasets |-> Dsd[d].num],
       Free     <- NoRecord,
       Nothing  <- NoRecord,
       content  <- [r \in Records |-> Content(rec[r])],
       reading  <- IF pc = "fields" THEN [rec |-> call.rec, ds |-> call.ds, line |-> call.line]
                   ELSE NoRecord,
       result   <- last.rec

\* A read that returns a record has put the whole line asked for into it, bytes
\* in order, whatever it held before and whatever failed meanwhile; no other
\* record changes, and one that a read refuses is as before.
LinesKept == Abstract!Spec

\* epr_read_record returns NULL if and only if it leaves an error code, although
\* the code making a record sets errors and goes on.
ErrorIffNull == Idle /\ last.fn = "read" => (last.rec = NoRecord <=> err)

\* The process ends only if memory has run out, over a record with a field that
\* has no elements, or when epr_get_field is given a record that outlives its
\* product; to free such a record is safe, although it knew its infos.
CrashCauses ==
  pc = "crash" =>
    \/ starved
    \/ \E r \in Records :
         rec[r] # NoRecord /\ \E n \in DOMAIN rec[r].fields : Parsed(rec[r].ds)[n].count = 0
    \/ ~open /\ last.fn = "get"

\* Every read comes to an end.
ReadEnds == pc = "fields" ~> pc # "fields"
=============================================================================
