-------------------------- MODULE EprRecord_proofs --------------------------
(***************************************************************************)
(* Proofs about EprRecord, for any datasets, layouts, descriptors and      *)
(* records: epr_read_record returns NULL exactly when it leaves an error,  *)
(* the process ends only for the causes named, and records keep what       *)
(* EprLines promises of them.                                              *)
(***************************************************************************)
EXTENDS EprRecord, WellFoundedInduction, TLAPS

(***************************************************************************)
(* Induction, over a set of numbers.                                       *)
(***************************************************************************)
LEMMA SetInduction ==
  ASSUME NEW S, 0 \in S, \A n \in Nat : n \in S => n + 1 \in S
  PROVE  Nat \subseteq S
<1> SUFFICES ASSUME Nat \ S # {} PROVE FALSE
  OBVIOUS
<1> DEFINE R == {ss \in Nat \X Nat : ss[1] < ss[2]}
           T == Nat \ S
<1>1. IsWellFoundedOn(R, Nat)
  BY NatLessThanWellFounded DEF OpToRel
<1>2. PICK x \in T : \A y \in T : <<y, x>> \notin R
  <2> HIDE DEF R
  <2> QED BY <1>1, WFMin
<1>3. x # 0 /\ x - 1 \in Nat /\ <<x - 1, x>> \in R
  OBVIOUS
<1>4. x - 1 \in S
  BY <1>2, <1>3
<1> QED BY <1>2, <1>3, <1>4

-----------------------------------------------------------------------------
(***************************************************************************)
(* Record infos and the sizes of records.                                  *)
(***************************************************************************)

LEMMA LayoutFacts ==
  ASSUME NEW d \in Datasets
  PROVE  /\ Layout[d] \in Seq(FieldType) /\ Len(Layout[d]) \in Nat \ {0}
         /\ DOMAIN Layout[d] = 1 .. Len(Layout[d])
         /\ \A n \in DOMAIN Layout[d] :
              /\ Layout[d][n].bytes \in Nat \ {0} /\ Layout[d][n].count \in Nat
              /\ Layout[d][n].parses \in BOOLEAN /\ Layout[d][n].ordered \in BOOLEAN
<1>1. Layout[d] \in Seq(FieldType) /\ Layout[d] # << >>
  BY LayoutAssumption
<1>2. Len(Layout[d]) \in Nat \ {0} /\ DOMAIN Layout[d] = 1 .. Len(Layout[d])
  BY <1>1
<1>3. \A n \in DOMAIN Layout[d] : Layout[d][n] \in FieldType
  BY <1>1
<1> QED BY <1>1, <1>2, <1>3 DEF FieldType

LEMMA DsdFacts ==
  ASSUME NEW d \in Datasets
  PROVE  Dsd[d].offset \in Nat /\ Dsd[d].size \in Nat /\ Dsd[d].num \in Nat
  BY DsdAssumption DEF DsdType

LEMMA ParsedFacts ==
  ASSUME NEW d \in Datasets
  PROVE  /\ DOMAIN Parsed(d) = 1 .. Len(Layout[d]) /\ Len(Parsed(d)) = Len(Layout[d])
         /\ \A n \in 1 .. Len(Layout[d]) :
              /\ Parsed(d)[n].field = n /\ Parsed(d)[n].count \in Nat
              /\ Layout[d][n].parses => Parsed(d)[n].count = Layout[d][n].count
<1>1. Len(Layout[d]) \in Nat \ {0} /\ DOMAIN Layout[d] = 1 .. Len(Layout[d])
  BY LayoutFacts
<1>2. DOMAIN Parsed(d) = 1 .. Len(Layout[d])
  BY <1>1 DEF Parsed
<1>3. Len(Parsed(d)) = Len(Layout[d])
  BY <1>1 DEF Parsed
<1>4. ASSUME NEW n \in 1 .. Len(Layout[d])
      PROVE  /\ Parsed(d)[n].field = n /\ Parsed(d)[n].count \in Nat
             /\ Layout[d][n].parses => Parsed(d)[n].count = Layout[d][n].count
  BY <1>1, LayoutFacts, CapacityAssumption DEF Parsed
<1> QED BY <1>2, <1>3, <1>4

LEMMA BuiltFacts ==
  ASSUME NEW d \in Datasets, NEW s \in Built[d]
  PROVE  /\ s # NoInfo /\ Len(s) \in Nat /\ DOMAIN s = 1 .. Len(s)
         /\ \A n \in DOMAIN s : s[n].count \in Nat /\ s[n].field \in DOMAIN Layout[d]
<1> DEFINE fis == {Parsed(d)[n] : n \in DOMAIN Layout[d]}
                  \cup {[field |-> n, count |-> BadCount] : n \in DOMAIN Layout[d]}
<1>1. PICK m \in 0 .. Len(Layout[d]) : s \in [1 .. m -> fis]
  BY DEF Built
<1>2. \A i \in fis : i.count \in Nat /\ i.field \in DOMAIN Layout[d]
  BY ParsedFacts, LayoutFacts, CapacityAssumption
<1> HIDE DEF fis
<1>3. m \in Nat
  BY LayoutFacts
<1>4. Len(s) = m /\ DOMAIN s = 1 .. m
  BY <1>1, <1>3
<1>5. s # NoInfo
  BY NullAssumption
<1> QED BY <1>1, <1>2, <1>3, <1>4, <1>5

\* The sum in TotSize is what its definition says it is.
LEMMA SumExists ==
  ASSUME NEW b, NEW L \in Nat, \A n \in 1 .. L : b[n] \in Nat
  PROVE  \E g : g = [n \in 0 .. L |-> IF n = 0 THEN 0 ELSE g[n - 1] + b[n]]
<1> DEFINE Sum(g, m) == g[0] = 0 /\ \A n \in 1 .. m : g[n] = g[n - 1] + b[n]
           S == {m \in Nat : m <= L => \E g \in [0 .. m -> Nat] : Sum(g, m)}
<1>1. 0 \in S
  <2>1. Sum([n \in 0 .. 0 |-> 0], 0)
    OBVIOUS
  <2> QED BY <2>1
<1>2. ASSUME NEW m \in Nat, m \in S PROVE m + 1 \in S
  <2> SUFFICES ASSUME m + 1 <= L PROVE \E g \in [0 .. m + 1 -> Nat] : Sum(g, m + 1)
    OBVIOUS
  <2>1. PICK g \in [0 .. m -> Nat] : Sum(g, m)
    BY <1>2
  <2> DEFINE h == [n \in 0 .. m + 1 |-> IF n = m + 1 THEN g[m] + b[m + 1] ELSE g[n]]
  <2>2. h \in [0 .. m + 1 -> Nat]
    OBVIOUS
  <2>3. Sum(h, m + 1)
    BY <2>1
  <2> HIDE DEF h
  <2> QED BY <2>2, <2>3
<1>3. L \in S
  <2> HIDE DEF S
  <2> QED BY <1>1, <1>2, SetInduction
<1>4. PICK g \in [0 .. L -> Nat] : Sum(g, L)
  <2>1. L <= L => \E g \in [0 .. L -> Nat] : Sum(g, L)
    <3> HIDE DEF Sum
    <3> QED BY <1>3
  <2> HIDE DEF Sum
  <2> QED BY <2>1
<1>5. g = [n \in 0 .. L |-> IF n = 0 THEN 0 ELSE g[n - 1] + b[n]]
  BY <1>4
<1> QED BY <1>5

\* Records of size 0 have fields without elements only.
LEMMA ZeroSize ==
  ASSUME NEW d \in Datasets, NEW s, Len(s) \in Nat,
         \A n \in 1 .. Len(s) : Bytes(d, s[n]) \in Nat,
         TotSize(d, s) = 0
  PROVE  \A n \in 1 .. Len(s) : Bytes(d, s[n]) = 0
<1> DEFINE L == Len(s)
           b == [n \in 1 .. L |-> Bytes(d, s[n])]
           sum == CHOOSE g : g = [n \in 0 .. L |-> IF n = 0 THEN 0 ELSE g[n - 1] + Bytes(d, s[n])]
<1>1. \E g : g = [n \in 0 .. L |-> IF n = 0 THEN 0 ELSE g[n - 1] + Bytes(d, s[n])]
  <2>1. \E g : g = [n \in 0 .. L |-> IF n = 0 THEN 0 ELSE g[n - 1] + b[n]]
    <3> HIDE DEF b
    <3>1. \A n \in 1 .. L : b[n] \in Nat
      BY DEF b
    <3> QED BY <3>1, SumExists
  <2>2. PICK g : g = [n \in 0 .. L |-> IF n = 0 THEN 0 ELSE g[n - 1] + b[n]]
    BY <2>1
  <2>3. \A n \in 0 .. L : n # 0 => n \in 1 .. L /\ b[n] = Bytes(d, s[n])
    OBVIOUS
  <2>4. g = [n \in 0 .. L |-> IF n = 0 THEN 0 ELSE g[n - 1] + Bytes(d, s[n])]
    <3> HIDE DEF b
    <3> QED BY <2>2, <2>3
  <2> QED BY <2>4
<1>2. sum = [n \in 0 .. L |-> IF n = 0 THEN 0 ELSE sum[n - 1] + Bytes(d, s[n])]
  BY <1>1
<1>3. TotSize(d, s) = sum[L]
  BY DEF TotSize
<1> HIDE DEF sum
<1>4. \A n \in 1 .. L : sum[n] = sum[n - 1] + Bytes(d, s[n])
  BY <1>2
<1> DEFINE S == {m \in Nat : m <= L => /\ sum[L - m] = 0
                                        /\ \A n \in L - m + 1 .. L : Bytes(d, s[n]) = 0}
           T == {m \in Nat : m <= L => sum[m] \in Nat}
<1>5. Nat \subseteq T
  <2>1. 0 \in T
    BY <1>2
  <2>2. ASSUME NEW m \in Nat, m \in T PROVE m + 1 \in T
    BY <1>4, <2>2
  <2> HIDE DEF T
  <2> QED BY <2>1, <2>2, SetInduction
<1>6. Nat \subseteq S
  <2>1. 0 \in S
    BY <1>3
  <2>2. ASSUME NEW m \in Nat, m \in S PROVE m + 1 \in S
    <3> SUFFICES ASSUME m + 1 <= L PROVE m + 1 \in S
      OBVIOUS
    <3>1. L - m \in 1 .. L /\ (L - m) - 1 = L - (m + 1)
      OBVIOUS
    <3>2. sum[L - m] = sum[L - (m + 1)] + Bytes(d, s[L - m])
      BY <1>4, <3>1
    <3>3. sum[L - (m + 1)] \in Nat
      BY <1>5, <3>1
    <3>4. sum[L - (m + 1)] = 0 /\ Bytes(d, s[L - m]) = 0
      BY <2>2, <3>1, <3>2, <3>3
    <3> QED BY <2>2, <3>1, <3>4
  <2> HIDE DEF S
  <2> QED BY <2>1, <2>2, SetInduction
<1>7. L \in S
  <2> HIDE DEF S
  <2> QED BY <1>6
<1>8. \A n \in L - L + 1 .. L : Bytes(d, s[n]) = 0
  BY <1>7
<1> QED BY <1>8

-----------------------------------------------------------------------------
(***************************************************************************)
(* The invariant.                                                          *)
(***************************************************************************)

\* Record infos and records are what they should be, and a record has the fields
\* of the info of its dataset.
InfosOK ==
  /\ DOMAIN info = Datasets
  /\ \A d \in Datasets : info[d] = NoInfo \/ info[d] \in Built[d]

RecsOK ==
  /\ rec \in [Records -> RecordType \cup {NoRecord}]
  /\ \A r \in Records : open /\ rec[r] # NoRecord =>
       info[rec[r].ds] # NoInfo /\ DOMAIN rec[r].fields = DOMAIN info[rec[r].ds]

\* Only fields with elements can be read: the others are NULL.
EmptyMissing ==
  \A r \in Records : open /\ rec[r] # NoRecord =>
    \A n \in DOMAIN rec[r].fields : info[rec[r].ds][n].count = 0 => rec[r].fields[n] = Missing

\* While there is memory, record infos are those of the DDDB, and only fields
\* without elements are NULL.
Unstarved ==
  ~starved =>
    /\ \A d \in Datasets : info[d] \in {NoInfo, Parsed(d)}
    /\ \A r \in Records : rec[r] # NoRecord =>
         \A n \in DOMAIN rec[r].fields :
           rec[r].fields[n] = Missing => Parsed(rec[r].ds)[n].count = 0

Stored == starved \in BOOLEAN /\ InfosOK /\ RecsOK /\ EmptyMissing /\ Unstarved

Control ==
  /\ open \in BOOLEAN /\ err \in BOOLEAN
  /\ pc \in {"idle", "fields", "crash"}
  /\ k \in Nat /\ at \in Nat
  /\ last.rec \in Records \cup {NoRecord}

\* The read in progress is of a line there is, into a record of its dataset, and
\* the size of records has told that the record info is right.
Reading ==
  /\ open
  /\ call \in [rec : Records, ds : Datasets, line : Nat, new : BOOLEAN]
  /\ call.line < Dsd[call.ds].num
  /\ rec[call.rec] # NoRecord /\ rec[call.rec].ds = call.ds
  /\ info[call.ds] = Parsed(call.ds)
  /\ \A n \in DOMAIN Layout[call.ds] : Layout[call.ds][n].parses
  /\ TotSize(call.ds, Parsed(call.ds)) = Dsd[call.ds].size
  /\ last.fn = "read" /\ last.rec = NoRecord

\* The end of field n of fields f.
EndOf(d, f, n) == f[n].at + Layout[d][n].count * Layout[d][n].bytes

\* The fields before k are read, each where the one before it ends.
FieldsRead ==
  LET d == call.ds
      f == Fields
  IN  /\ k \in 1 .. Len(Layout[d]) + 1
      /\ at = IF k = 1 THEN Start(d, call.line) ELSE EndOf(d, f, k - 1)
      /\ \A n \in 1 .. k - 1 :
           f[n] = Read(IF n = 1 THEN Dsd[d].offset + Dsd[d].size * call.line
                       ELSE EndOf(d, f, n - 1), LittleEndian /\ Layout[d][n].ordered)

\* An error that making the record has left is of a field that is NULL, which the
\* read has still to meet; what it has not met of a new record is as made.
ErrorAhead ==
  /\ err => \E n \in k .. Len(Fields) : Fields[n] = Missing
  /\ call.new => \A n \in k .. Len(Fields) : Fields[n] \in {New, Missing}

IInv ==
  /\ Stored /\ Control
  /\ pc = "fields" => Reading /\ FieldsRead /\ ErrorAhead
  /\ ErrorIffNull /\ CrashCauses

LEMMA IInvType == IInv => TypeOK
  BY DEF IInv, Stored, Control, InfosOK, RecsOK, TypeOK

-----------------------------------------------------------------------------
(***************************************************************************)
(* What steps do to record infos and records.                              *)
(***************************************************************************)

LEMMA ContentFacts ==
  /\ {New, Missing, Torn} \subseteq ContentType
  /\ New # Missing /\ New # Torn /\ Missing # Torn
  /\ New.state = "new" /\ Missing.state = "missing" /\ Torn.state = "torn"
  /\ \A p \in Nat, w \in BOOLEAN :
       /\ Read(p, w) \in ContentType /\ Read(p, w) \notin {New, Missing}
       /\ Read(p, w).state = "read" /\ Read(p, w).at = p /\ Read(p, w).swapped = w
  BY DEF New, Missing, Torn, Read, FieldContent, ContentType

LEMMA RecordFacts ==
  ASSUME RecsOK, NEW r \in Records, rec[r] # NoRecord
  PROVE  /\ rec[r] \in RecordType /\ rec[r].ds \in Datasets
         /\ rec[r].fields \in Seq(ContentType) /\ Len(rec[r].fields) \in Nat
         /\ DOMAIN rec[r].fields = 1 .. Len(rec[r].fields)
         /\ rec[r].fields # NoInfo
<1>1. rec[r] \in RecordType
  BY DEF RecsOK
<1>2. rec[r].ds \in Datasets /\ rec[r].fields \in Seq(ContentType)
  BY <1>1 DEF RecordType
<1> QED BY <1>1, <1>2, NullAssumption

LEMMA InfosFacts ==
  ASSUME InfosOK, NEW d \in Datasets, NEW s \in Infos(d)
  PROVE  s \in Built[d] /\ s # NoInfo /\ (info[d] # NoInfo => s = info[d])
  BY BuiltFacts DEF InfosOK, Infos

LEMMA NewFieldsFacts ==
  ASSUME NEW d \in Datasets, NEW s \in Built[d], NEW f \in NewFields(d, s)
  PROVE  /\ f \in Seq(ContentType) /\ DOMAIN f = DOMAIN s /\ Len(f) = Len(s)
         /\ \A n \in DOMAIN f : f[n] \in {New, Missing} /\ (s[n].count = 0 => f[n] = Missing)
         /\ [ds |-> d, fields |-> f] \in RecordType /\ [ds |-> d, fields |-> f] # NoRecord
<1>1. DOMAIN s = 1 .. Len(s) /\ Len(s) \in Nat
  BY BuiltFacts
<1>2. f \in [1 .. Len(s) -> {New, Missing}] /\ \A n \in DOMAIN f : s[n].count = 0 => f[n] = Missing
  BY <1>1 DEF NewFields
<1>3. f \in [1 .. Len(s) -> ContentType]
  BY <1>2, ContentFacts
<1>4. f \in Seq(ContentType) /\ Len(f) = Len(s)
  BY <1>1, <1>3
<1>5. [ds |-> d, fields |-> f] \in RecordType
  BY <1>4 DEF RecordType
<1> QED BY <1>1, <1>2, <1>4, <1>5, NullAssumption

\* A record info is kept, and a record is made of it or not.
LEMMA MakeStores ==
  ASSUME Stored, open, open' = open, NEW d \in Datasets, NEW r \in Records, rec[r] = NoRecord,
         NEW s \in Infos(d), NEW f \in NewFields(d, s), KeepInfo(d, s, f),
         rec' = rec \/ rec' = [rec EXCEPT ![r] = [ds |-> d, fields |-> f]]
  PROVE  Stored'
<1> DEFINE new == [ds |-> d, fields |-> f]
<1>1. s \in Built[d] /\ s # NoInfo /\ (info[d] # NoInfo => s = info[d])
  BY InfosFacts DEF Stored
<1>2. DOMAIN f = DOMAIN s /\ new \in RecordType /\ new # NoRecord
      /\ \A n \in DOMAIN f : s[n].count = 0 => f[n] = Missing
  BY <1>1, NewFieldsFacts
<1>3. DOMAIN info' = Datasets /\ info'[d] = s /\ \A e \in Datasets : e # d => info'[e] = info[e]
  BY DEF KeepInfo, Stored, InfosOK
<1>4. \A q \in Records : rec[q] # NoRecord => info'[rec[q].ds] = info[rec[q].ds]
  BY <1>1, <1>3, RecordFacts DEF Stored, RecsOK
<1>5. /\ rec' \in [Records -> RecordType \cup {NoRecord}]
      /\ \A q \in Records : rec'[q] = rec[q] \/ rec'[q] = new
  BY <1>2 DEF Stored, RecsOK
<1>6. new.ds = d /\ new.fields = f
  OBVIOUS
<1>7. starved' \in BOOLEAN
  BY DEF KeepInfo, Stored
<1> HIDE DEF new
<1>8. InfosOK'
  BY <1>1, <1>3 DEF Stored, InfosOK
<1>9. RecsOK'
  BY <1>1, <1>2, <1>3, <1>4, <1>5, <1>6 DEF Stored, RecsOK
<1>10. EmptyMissing'
  BY <1>1, <1>2, <1>3, <1>4, <1>5, <1>6 DEF Stored, EmptyMissing
<1>11. Unstarved'
  <2> SUFFICES ASSUME ~starved' PROVE Unstarved'
    BY DEF Unstarved
  <2>1. ~starved /\ s = Parsed(d) /\ \A n \in DOMAIN s : f[n] = Missing => s[n].count = 0
    BY DEF KeepInfo
  <2>2. \A e \in Datasets : info'[e] \in {NoInfo, Parsed(e)}
    BY <1>3, <2>1 DEF Stored, Unstarved
  <2>3. ASSUME NEW q \in Records, rec'[q] # NoRecord,
               NEW n \in DOMAIN rec'[q].fields, rec'[q].fields[n] = Missing
        PROVE  Parsed(rec'[q].ds)[n].count = 0
    <3>1. CASE rec'[q] = rec[q]
      BY <2>1, <2>3, <3>1 DEF Stored, Unstarved
    <3>2. CASE rec'[q] = new
      BY <1>2, <1>6, <2>1, <2>3, <3>2
    <3> QED BY <1>5, <3>1, <3>2
  <2>4. \A e \in Datasets : Parsed(e)' = Parsed(e)
    BY DEF Parsed
  <2> QED BY <2>2, <2>3 DEF Unstarved, Parsed
<1> QED BY <1>7, <1>8, <1>9, <1>10, <1>11 DEF Stored

LEMMA MakeFailsStores ==
  ASSUME Stored, UNCHANGED <<open, rec>>, NEW d \in Datasets, MakeFails(d)
  PROVE  Stored'
<1>1. starved' = TRUE
  BY DEF MakeFails
<1>2. /\ DOMAIN info' = Datasets
      /\ \A e \in Datasets : info'[e] = info[e] \/ (e = d /\ info[e] = NoInfo /\ info'[e] \in Built[d])
  <2>1. CASE info' = info
    BY <2>1 DEF Stored, InfosOK
  <2>2. CASE \E s \in Infos(d) : info' = [info EXCEPT ![d] = s]
    <3>1. PICK s \in Infos(d) : info' = [info EXCEPT ![d] = s]
      BY <2>2
    <3>2. s \in Built[d] /\ s # NoInfo /\ (info[d] # NoInfo => s = info[d])
      BY InfosFacts DEF Stored
    <3> QED BY <3>1, <3>2 DEF Stored, InfosOK
  <2> QED BY <2>1, <2>2 DEF MakeFails
<1>3. \A q \in Records : rec[q] # NoRecord => rec[q].ds \in Datasets
  BY RecordFacts DEF Stored
<1>4. \A e \in Datasets : \A s \in Built[e] : s # NoInfo
  BY BuiltFacts
<1>5. InfosOK'
  BY <1>2 DEF Stored, InfosOK
<1>6. RecsOK'
  BY <1>2, <1>3, <1>4 DEF Stored, RecsOK
<1>7. EmptyMissing'
  BY <1>2, <1>3, <1>4 DEF Stored, RecsOK, EmptyMissing
<1>8. Unstarved'
  BY <1>1 DEF Unstarved
<1> QED BY <1>1, <1>5, <1>6, <1>7, <1>8 DEF Stored

LEMMA StayStores ==
  ASSUME Stored, UNCHANGED <<open, info, rec, starved>>
  PROVE  Stored'
  BY DEF Stored, InfosOK, RecsOK, EmptyMissing, Unstarved, Parsed

\* A record is lost or freed.
LEMMA LossStores ==
  ASSUME Stored, UNCHANGED <<open, info, starved>>, NEW r \in Records,
         rec' = [rec EXCEPT ![r] = NoRecord]
  PROVE  Stored'
<1>1. \A q \in Records : rec'[q] = rec[q] \/ rec'[q] = NoRecord
  BY DEF Stored, RecsOK
<1>2. RecsOK'
  BY <1>1 DEF Stored, RecsOK
<1>3. EmptyMissing'
  BY <1>1 DEF Stored, EmptyMissing
<1>4. Unstarved'
  BY <1>1 DEF Stored, Unstarved
<1> QED BY <1>2, <1>3, <1>4 DEF Stored, InfosOK

\* What putting something into the next field does.
LEMMA PutFacts ==
  ASSUME Stored, call.rec \in Records, rec[call.rec] # NoRecord,
         k \in 1 .. Len(Fields), NEW v \in ContentType, Put(v)
  PROVE  /\ rec'[call.rec] # NoRecord /\ rec'[call.rec].ds = rec[call.rec].ds
         /\ rec'[call.rec].fields = [Fields EXCEPT ![k] = v]
         /\ DOMAIN rec'[call.rec].fields = DOMAIN Fields
         /\ rec'[call.rec].fields[k] = v
         /\ \A n \in DOMAIN Fields : n # k => rec'[call.rec].fields[n] = Fields[n]
         /\ \A q \in Records : q # call.rec => rec'[q] = rec[q]
         /\ rec' \in [Records -> RecordType \cup {NoRecord}]
<1> DEFINE r == call.rec
           w == [rec[r] EXCEPT !.fields[k] = v]
<1>1. rec' = [rec EXCEPT ![r] = w]
  BY DEF Put
<1>2. rec[r] \in RecordType /\ rec[r].fields = Fields /\ Fields \in Seq(ContentType)
      /\ DOMAIN Fields = 1 .. Len(Fields)
  BY RecordFacts DEF Stored, Fields
<1>3. [Fields EXCEPT ![k] = v] \in Seq(ContentType)
  BY <1>2
<1>4. w.fields = [Fields EXCEPT ![k] = v] /\ w.ds = rec[r].ds /\ w \in RecordType
  BY <1>2, <1>3 DEF RecordType
<1>5. w # NoRecord
  BY <1>4, NullAssumption
<1> HIDE DEF w
<1>6. rec'[r] = w /\ (\A q \in Records : q # r => rec'[q] = rec[q])
      /\ rec' \in [Records -> RecordType \cup {NoRecord}]
  BY <1>1, <1>4 DEF Stored, RecsOK
<1> QED BY <1>2, <1>4, <1>5, <1>6

LEMMA PutStores ==
  ASSUME Stored, UNCHANGED <<open, info, starved>>, call.rec \in Records, rec[call.rec] # NoRecord,
         k \in 1 .. Len(Fields), Fields[k] # Missing,
         NEW v \in ContentType, v # Missing, Put(v)
  PROVE  Stored'
<1> DEFINE f(q) == rec'[q].fields
<1>1. \A q \in Records :
        /\ rec'[q] = NoRecord <=> rec[q] = NoRecord
        /\ rec[q] # NoRecord =>
             /\ rec'[q].ds = rec[q].ds /\ DOMAIN f(q) = DOMAIN rec[q].fields
             /\ \A n \in DOMAIN f(q) : f(q)[n] = Missing <=> rec[q].fields[n] = Missing
  <2> SUFFICES ASSUME NEW q \in Records
               PROVE  /\ rec'[q] = NoRecord <=> rec[q] = NoRecord
                      /\ rec[q] # NoRecord =>
                           /\ rec'[q].ds = rec[q].ds /\ DOMAIN f(q) = DOMAIN rec[q].fields
                           /\ \A n \in DOMAIN f(q) : f(q)[n] = Missing <=> rec[q].fields[n] = Missing
    OBVIOUS
  <2>1. CASE q = call.rec
    <3>1. Fields = rec[q].fields
      BY <2>1 DEF Fields
    <3> QED BY <2>1, <3>1, PutFacts
  <2>2. CASE q # call.rec
    BY <2>2, PutFacts
  <2> QED BY <2>1, <2>2
<1>2. rec' \in [Records -> RecordType \cup {NoRecord}]
  BY PutFacts
<1> HIDE DEF f
<1>3. RecsOK'
  BY <1>1, <1>2 DEF Stored, RecsOK, f
<1>4. EmptyMissing'
  BY <1>1 DEF Stored, EmptyMissing, f
<1>5. Unstarved'
  BY <1>1 DEF Stored, Unstarved, f
<1> QED BY <1>3, <1>4, <1>5 DEF Stored, InfosOK

LEMMA CloseStores ==
  ASSUME Stored, UNCHANGED <<rec, starved>>, open' = FALSE, info' = [d \in Datasets |-> NoInfo]
  PROVE  Stored'
  BY DEF Stored, InfosOK, RecsOK, EmptyMissing, Unstarved, Parsed

-----------------------------------------------------------------------------
(***************************************************************************)
(* Every step keeps the invariant.                                         *)
(***************************************************************************)

LEMMA InitIInv == Init => IInv
<1> SUFFICES ASSUME Init PROVE IInv
  OBVIOUS
<1>1. Stored
  BY DEF Init, Stored, InfosOK, RecsOK, EmptyMissing, Unstarved
<1> QED BY <1>1 DEF Init, IInv, Control, ErrorIffNull, CrashCauses, Idle

LEMMA CreateInv ==
  ASSUME IInv, NEW d \in Datasets, NEW r \in Records, CreateRecord(d, r)
  PROVE  IInv'
<1>1. Stored /\ Control /\ pc = "idle" /\ open /\ UNCHANGED <<open, pc, call, k, at>> /\ rec[r] = NoRecord
  BY DEF IInv, CreateRecord, Idle
<1>2. CASE \E s \in Infos(d) : \E f \in NewFields(d, s) :
             /\ KeepInfo(d, s, f)
             /\ rec' = [rec EXCEPT ![r] = [ds |-> d, fields |-> f]]
             /\ Returns("create", r, MakeErr(d, s, f))
  <2>1. PICK s \in Infos(d) : \E f \in NewFields(d, s) :
             /\ KeepInfo(d, s, f)
             /\ rec' = [rec EXCEPT ![r] = [ds |-> d, fields |-> f]]
             /\ Returns("create", r, MakeErr(d, s, f))
    BY <1>2
  <2>2. PICK f \in NewFields(d, s) :
             /\ KeepInfo(d, s, f)
             /\ rec' = [rec EXCEPT ![r] = [ds |-> d, fields |-> f]]
             /\ Returns("create", r, MakeErr(d, s, f))
    BY <2>1
  <2>3. Stored'
    BY <1>1, <2>2, MakeStores
  <2>4. err' \in BOOLEAN /\ last' = [fn |-> "create", rec |-> r]
    BY <2>2 DEF Returns, MakeErr, InfoErr
  <2> QED BY <1>1, <2>3, <2>4 DEF IInv, Control, ErrorIffNull, CrashCauses
<1>3. CASE MakeFails(d) /\ Returns("create", NoRecord, TRUE) /\ UNCHANGED rec
  <2>1. Stored'
    BY <1>1, <1>3, MakeFailsStores
  <2> QED BY <1>1, <1>3, <2>1 DEF IInv, Control, ErrorIffNull, CrashCauses, Returns
<1> QED BY <1>2, <1>3 DEF CreateRecord

LEMMA InfoCrashInv ==
  ASSUME IInv, NEW d \in Datasets, InfoCrash(d)
  PROVE  IInv'
<1>1. Stored /\ Control /\ starved' = TRUE /\ pc' = "crash" /\ UNCHANGED <<open, info, rec, k, at, err, last>>
  BY DEF IInv, InfoCrash
<1>2. Stored'
  BY <1>1 DEF Stored, InfosOK, RecsOK, EmptyMissing, Unstarved
<1> QED BY <1>1, <1>2 DEF IInv, Control, ErrorIffNull, CrashCauses, Idle

\* A NULL field that is used is one without elements, unless memory ran out.
LEMMA CrashExplained ==
  ASSUME Stored, UNCHANGED <<rec, starved>>, NEW r \in Records, rec[r] # NoRecord,
         NEW n \in DOMAIN rec[r].fields, rec[r].fields[n] = Missing
  PROVE  CrashCauses'
  BY DEF Stored, Unstarved, CrashCauses

LEMMA GetFieldInv ==
  ASSUME IInv, NEW r \in Records, NEW n \in Places, GetField(r, n)
  PROVE  IInv'
<1>1. /\ Stored /\ Control /\ pc = "idle" /\ UNCHANGED <<open, info, rec, call, k, at, starved>>
      /\ rec[r] # NoRecord
  BY DEF IInv, GetField, Idle
<1>2. Stored'
  BY <1>1, StayStores
<1>3. CASE /\ NullUpTo(r, n) \/ ~open
           /\ pc' = "crash" /\ last' = [fn |-> "get", rec |-> NoRecord] /\ UNCHANGED err
  <2>1. CrashCauses'
    <3>1. CASE NullUpTo(r, n)
      BY <1>1, <3>1, CrashExplained DEF NullUpTo
    <3>2. CASE ~open
      BY <1>1, <1>3, <3>2 DEF CrashCauses
    <3> QED BY <1>3, <3>1, <3>2
  <2> QED BY <1>1, <1>2, <1>3, <2>1 DEF IInv, Control, ErrorIffNull, Idle
<1>4. CASE /\ \E missed \in IF open THEN {n = Len(rec[r].fields) + 1} ELSE BOOLEAN :
                Returns("get", NoRecord, missed)
           /\ UNCHANGED pc
  <2>1. PICK missed \in BOOLEAN : Returns("get", NoRecord, missed)
    BY <1>4
  <2> QED BY <1>1, <1>2, <1>4, <2>1 DEF IInv, Control, ErrorIffNull, CrashCauses, Returns
<1> QED BY <1>3, <1>4 DEF GetField

LEMMA FreeInv ==
  ASSUME IInv, NEW r \in Records, FreeRecord(r)
  PROVE  IInv'
<1>1. /\ Stored /\ Control /\ pc = "idle" /\ UNCHANGED <<open, info, call, k, at, starved>>
      /\ rec[r] # NoRecord
  BY DEF IInv, FreeRecord, Idle
<1>2. FieldsFreed(r) # NoInfo
  BY <1>1, RecordFacts DEF Stored, FieldsFreed
<1>3. rec' = [rec EXCEPT ![r] = NoRecord] /\ Returns("free", NoRecord, FALSE) /\ UNCHANGED pc
  BY <1>2 DEF FreeRecord
<1>4. Stored'
  BY <1>1, <1>3, LossStores
<1> QED BY <1>1, <1>3, <1>4 DEF IInv, Control, ErrorIffNull, CrashCauses, Returns

LEMMA CloseInv ==
  ASSUME IInv, CloseProduct
  PROVE  IInv'
<1>1. /\ Stored /\ Control /\ pc = "idle" /\ open' = FALSE /\ info' = [d \in Datasets |-> NoInfo]
      /\ Returns("close", NoRecord, FALSE) /\ UNCHANGED <<rec, pc, call, k, at, starved>>
  BY DEF IInv, CloseProduct, Idle
<1>2. Stored'
  BY <1>1, CloseStores
<1> QED BY <1>1, <1>2 DEF IInv, Control, ErrorIffNull, CrashCauses, Returns

\* A record info of the right size is right.
LEMMA FitsRight ==
  ASSUME NEW d \in Datasets, NEW i, NEW s \in Built[d], Fits(d, i, s)
  PROVE  /\ i < Dsd[d].num /\ TotSize(d, s) = Dsd[d].size /\ s = Parsed(d)
         /\ \A n \in DOMAIN Layout[d] : Layout[d][n].parses
  BY SizesTell DEF Fits

LEMMA RightInfo ==
  ASSUME NEW d \in Datasets, \A n \in DOMAIN Layout[d] : Layout[d][n].parses
  PROVE  \A n \in 1 .. Len(Layout[d]) :
           /\ FieldOf(d, Parsed(d)[n]) = Layout[d][n]
           /\ Parsed(d)[n].count = Layout[d][n].count
           /\ Bytes(d, Parsed(d)[n]) = Layout[d][n].count * Layout[d][n].bytes
           /\ Bytes(d, Parsed(d)[n]) \in Nat
           /\ Parsed(d)[n].count # 0 => Bytes(d, Parsed(d)[n]) # 0
<1> SUFFICES ASSUME NEW n \in 1 .. Len(Layout[d])
             PROVE  /\ FieldOf(d, Parsed(d)[n]) = Layout[d][n]
                    /\ Parsed(d)[n].count = Layout[d][n].count
                    /\ Bytes(d, Parsed(d)[n]) = Layout[d][n].count * Layout[d][n].bytes
                    /\ Bytes(d, Parsed(d)[n]) \in Nat
                    /\ Parsed(d)[n].count # 0 => Bytes(d, Parsed(d)[n]) # 0
  OBVIOUS
<1>1. n \in DOMAIN Layout[d] /\ Layout[d][n].bytes \in Nat \ {0} /\ Layout[d][n].count \in Nat
  BY LayoutFacts
<1>2. Parsed(d)[n].field = n /\ Parsed(d)[n].count = Layout[d][n].count
  BY <1>1, ParsedFacts
<1>3. FieldOf(d, Parsed(d)[n]) = Layout[d][n]
  BY <1>2 DEF FieldOf
<1>4. \A x, y \in Nat \ {0} : x * y # 0
  OBVIOUS
<1>5. \A x, y \in Nat : x * y \in Nat
  OBVIOUS
<1> QED BY <1>1, <1>2, <1>3, <1>4, <1>5 DEF Bytes

LEMMA StartNat ==
  ASSUME NEW d \in Datasets, NEW i \in Nat
  PROVE  Start(d, i) \in Nat
<1>1. Dsd[d].offset + Dsd[d].size * i \in Nat
  BY DsdFacts
<1> QED BY <1>1, WrapAssumption DEF Start

\* Lines begin where exact arithmetic says, since products are smaller than Wrap.
LEMMA StartExact ==
  ASSUME NEW d \in Datasets, NEW i \in Nat, i < Dsd[d].num, Dsd[d].size # 0
  PROVE  Start(d, i) = Dsd[d].offset + Dsd[d].size * i
<1> DEFINE o == Dsd[d].offset
           z == Dsd[d].size
           m == Dsd[d].num
<1>1. o \in Nat /\ z \in Nat /\ z # 0 /\ m \in Nat /\ i < m
  BY DsdFacts
<1>2. o + z * m <= Wrap /\ Wrap \in Nat
  BY WrapAssumption
<1> HIDE DEF o, z, m
<1>3. z * m = z * i + z * (m - i)
  BY <1>1
<1>4. z * (m - i) >= 1
  <2>1. \A x, y \in Nat \ {0} : x * y \in Nat \ {0}
    OBVIOUS
  <2>2. m - i \in Nat \ {0} /\ z \in Nat \ {0}
    BY <1>1
  <2> QED BY <2>1, <2>2
<1>5. z * i \in Nat /\ z * m \in Nat /\ z * (m - i) \in Nat
  BY <1>1
<1>6. o + z * i < Wrap /\ o + z * i \in Nat
  BY <1>1, <1>2, <1>3, <1>4, <1>5
<1>7. (o + z * i) % Wrap = o + z * i
  BY <1>2, <1>6
<1> QED BY <1>7 DEF Start, o, z

\* A record that has a field with elements has a size.
LEMMA SizeNotZero ==
  ASSUME NEW d \in Datasets, \A n \in DOMAIN Layout[d] : Layout[d][n].parses,
         TotSize(d, Parsed(d)) = Dsd[d].size,
         NEW n \in 1 .. Len(Layout[d]), Parsed(d)[n].count # 0
  PROVE  Dsd[d].size # 0
<1> SUFFICES ASSUME Dsd[d].size = 0 PROVE FALSE
  OBVIOUS
<1>1. Len(Parsed(d)) = Len(Layout[d]) /\ Len(Layout[d]) \in Nat
  BY ParsedFacts, LayoutFacts
<1>2. \A m \in 1 .. Len(Parsed(d)) : Bytes(d, Parsed(d)[m]) \in Nat
  BY <1>1, RightInfo
<1>3. \A m \in 1 .. Len(Parsed(d)) : Bytes(d, Parsed(d)[m]) = 0
  BY <1>1, <1>2, ZeroSize
<1> QED BY <1>1, <1>3, RightInfo

\* The loop over the fields begins with the invariant.
LEMMA BeginInv ==
  ASSUME Stored', open', NEW d \in Datasets, NEW i \in Nat, NEW r \in Records, NEW new \in BOOLEAN,
         NEW e \in BOOLEAN, rec'[r] # NoRecord, rec'[r].ds = d,
         info'[d] \in Built[d], Fits(d, i, info'[d]), BeginFields(d, i, r, new, e),
         e => \E n \in DOMAIN rec'[r].fields : rec'[r].fields[n] = Missing,
         new => \A n \in DOMAIN rec'[r].fields : rec'[r].fields[n] \in {New, Missing}
  PROVE  IInv'
<1>1. /\ pc' = "fields" /\ call' = [rec |-> r, ds |-> d, line |-> i, new |-> new]
      /\ k' = 1 /\ at' = Start(d, i) /\ last' = [fn |-> "read", rec |-> NoRecord] /\ err' = e
  BY DEF BeginFields, Returns
<1>2. call'.rec = r /\ call'.ds = d /\ call'.line = i /\ call'.new = new
  BY <1>1
<1>3. /\ i < Dsd[d].num /\ TotSize(d, Parsed(d)) = Dsd[d].size /\ info'[d] = Parsed(d)
      /\ \A n \in DOMAIN Layout[d] : Layout[d][n].parses
  BY FitsRight
<1>4. Reading'
  <2>1. call' \in [rec : Records, ds : Datasets, line : Nat, new : BOOLEAN]
    BY <1>1
  <2> QED BY <1>1, <1>2, <1>3, <2>1 DEF Reading
<1>5. Len(Layout[d]) \in Nat \ {0}
  BY LayoutFacts
<1>6. FieldsRead'
  BY <1>1, <1>2, <1>5 DEF FieldsRead
<1>7. DOMAIN rec'[r].fields = 1 .. Len(rec'[r].fields)
  <2>1. rec'[r] \in RecordType
    BY DEF Stored, RecsOK
  <2> QED BY <2>1 DEF RecordType
<1>8. Fields' = rec'[r].fields
  BY <1>2 DEF Fields
<1>9. ErrorAhead'
  BY <1>1, <1>2, <1>7, <1>8 DEF ErrorAhead
<1>10. Control'
  BY <1>1, StartNat DEF Control
<1> QED BY <1>1, <1>4, <1>6, <1>9, <1>10 DEF IInv, ErrorIffNull, CrashCauses, Idle

LEMMA RefusedInv ==
  ASSUME IInv, Idle, Stored', Refused
  PROVE  IInv'
<1>1. Returns("read", NoRecord, TRUE) /\ UNCHANGED <<open, pc, call, k, at>> /\ pc = "idle"
  BY DEF Refused, Idle
<1> QED BY <1>1 DEF IInv, Control, ErrorIffNull, CrashCauses, Returns

LEMMA ReadIntoInv ==
  ASSUME IInv, NEW d \in Datasets, NEW r \in Records, NEW i \in Lines(d), ReadInto(d, i, r)
  PROVE  IInv'
<1>1. /\ Stored /\ Control /\ Idle /\ open /\ UNCHANGED <<info, rec, starved>> /\ rec[r] # NoRecord
  BY DEF IInv, ReadInto
<1>2. CASE Refused
  <2>1. Stored'
    BY <1>1, <1>2, StayStores DEF Refused
  <2> QED BY <1>1, <1>2, <2>1, RefusedInv
<1>3. CASE Compatible(r, d) /\ Fits(d, i, info[d]) /\ BeginFields(d, i, r, FALSE, FALSE)
  <2>1. open' = open
    BY <1>3 DEF BeginFields
  <2>2. Stored'
    BY <1>1, <2>1, StayStores
  <2>3. rec'[r] # NoRecord /\ rec'[r].ds = d /\ info'[d] = info[d]
    BY <1>1, <1>3 DEF Compatible
  <2>4. info[d] \in Built[d]
    BY <1>1, <2>3 DEF Stored, RecsOK, InfosOK
  <2>5. i \in Nat
    BY DsdFacts DEF Lines
  <2> QED BY <1>1, <1>3, <2>1, <2>2, <2>3, <2>4, <2>5, BeginInv
<1> QED BY <1>2, <1>3 DEF ReadInto

LEMMA ReadNewInv ==
  ASSUME IInv, NEW d \in Datasets, NEW r \in Records, NEW i \in Lines(d), ReadNew(d, i, r)
  PROVE  IInv'
<1>1. Stored /\ Control /\ Idle /\ open /\ rec[r] = NoRecord
  BY DEF IInv, ReadNew
<1>2. CASE Refused /\ UNCHANGED <<info, rec, starved>>
  <2>1. Stored'
    BY <1>1, <1>2, StayStores DEF Refused
  <2> QED BY <1>1, <1>2, <2>1, RefusedInv
<1>3. CASE MakeFails(d) /\ Refused /\ UNCHANGED rec
  <2>1. Stored'
    BY <1>1, <1>3, MakeFailsStores DEF Refused
  <2> QED BY <1>1, <1>3, <2>1, RefusedInv
<1>4. ASSUME NEW s \in Infos(d), NEW f \in NewFields(d, s), KeepInfo(d, s, f), Refused, UNCHANGED rec
      PROVE  IInv'
  <2>1. Stored'
    BY <1>1, <1>4, MakeStores DEF Refused
  <2> QED BY <1>1, <1>4, <2>1, RefusedInv
<1>5. ASSUME NEW s \in Infos(d), NEW f \in NewFields(d, s), KeepInfo(d, s, f), Fits(d, i, s),
             rec' = [rec EXCEPT ![r] = [ds |-> d, fields |-> f]],
             BeginFields(d, i, r, TRUE, MakeErr(d, s, f))
      PROVE  IInv'
  <2> DEFINE e == MakeErr(d, s, f)
  <2>1. open' = open
    BY <1>5 DEF BeginFields
  <2>2. Stored'
    BY <1>1, <1>5, <2>1, MakeStores
  <2>3. s \in Built[d]
    BY <1>1, InfosFacts DEF Stored
  <2>4. /\ [ds |-> d, fields |-> f] # NoRecord
        /\ \A n \in DOMAIN f : f[n] \in {New, Missing}
    BY <2>3, NewFieldsFacts
  <2>5. rec'[r] = [ds |-> d, fields |-> f] /\ rec'[r].ds = d /\ rec'[r].fields = f
    BY <1>1, <1>5 DEF Stored, RecsOK
  <2>6. info'[d] = s
    BY <1>1, <1>5 DEF Stored, InfosOK, KeepInfo
  <2>7. ~InfoErr(d, s)
    <3>1. s = Parsed(d) /\ \A n \in DOMAIN Layout[d] : Layout[d][n].parses
      BY <1>5, <2>3, FitsRight
    <3>2. DOMAIN s = 1 .. Len(Layout[d]) /\ DOMAIN Layout[d] = 1 .. Len(Layout[d])
      BY <3>1, ParsedFacts, LayoutFacts
    <3> QED BY <3>1, <3>2, RightInfo DEF InfoErr
  <2>8. e \in BOOLEAN /\ (e => \E n \in DOMAIN f : f[n] = Missing)
    BY <2>7 DEF MakeErr
  <2>9. i \in Nat
    BY DsdFacts DEF Lines
  <2> HIDE DEF e
  <2>10. Fits(d, i, info'[d]) /\ BeginFields(d, i, r, TRUE, e)
    BY <1>5, <2>6 DEF e
  <2>11. open'
    BY <1>1, <2>1
  <2> QED BY <2>2, <2>3, <2>4, <2>5, <2>6, <2>8, <2>9, <2>10, <2>11, BeginInv
<1> QED BY <1>2, <1>3, <1>4, <1>5 DEF ReadNew

\* What is known while a record is read.
LEMMA ReadingFacts ==
  ASSUME IInv, pc = "fields"
  PROVE  /\ Stored /\ Control /\ Reading /\ FieldsRead /\ ErrorAhead
         /\ call.rec \in Records /\ call.ds \in Datasets /\ call.line \in Nat /\ call.new \in BOOLEAN
         /\ rec[call.rec] # NoRecord /\ rec[call.rec].ds = call.ds
         /\ Fields \in Seq(ContentType) /\ DOMAIN Fields = 1 .. Len(Layout[call.ds])
         /\ Len(Fields) = Len(Layout[call.ds]) /\ Len(Fields) \in Nat \ {0}
<1>1. Stored /\ Control /\ Reading /\ FieldsRead /\ ErrorAhead
  BY DEF IInv
<1>2. /\ call.rec \in Records /\ call.ds \in Datasets /\ call.line \in Nat /\ call.new \in BOOLEAN
      /\ rec[call.rec] # NoRecord /\ rec[call.rec].ds = call.ds /\ info[call.ds] = Parsed(call.ds) /\ open
  BY <1>1 DEF Reading
<1>3. Fields \in Seq(ContentType) /\ DOMAIN Fields = 1 .. Len(Fields) /\ Len(Fields) \in Nat
  BY <1>1, <1>2, RecordFacts DEF Stored, Fields
<1>4. DOMAIN Fields = DOMAIN Parsed(call.ds)
  BY <1>1, <1>2 DEF Stored, RecsOK, Fields
<1>5. DOMAIN Fields = 1 .. Len(Layout[call.ds]) /\ Len(Layout[call.ds]) \in Nat \ {0}
  BY <1>2, <1>4, ParsedFacts, LayoutFacts
<1>6. Len(Fields) = Len(Layout[call.ds])
  BY <1>3, <1>5
<1> QED BY <1>1, <1>2, <1>3, <1>5, <1>6

\* A field that is read has elements, so that the line begins where it should.
LEMMA NextField ==
  ASSUME IInv, pc = "fields", k <= Len(Fields), Fields[k] # Missing
  PROVE  /\ k \in 1 .. Len(Fields) /\ k \in DOMAIN Fields
         /\ Dsd[call.ds].size # 0
         /\ at = IF k = 1 THEN Dsd[call.ds].offset + Dsd[call.ds].size * call.line
                 ELSE EndOf(call.ds, Fields, k - 1)
         /\ LET i == info[call.ds][k]
            IN  /\ FieldOf(call.ds, i) = Layout[call.ds][k]
                /\ Bytes(call.ds, i) = Layout[call.ds][k].count * Layout[call.ds][k].bytes
                /\ Bytes(call.ds, i) \in Nat
<1> DEFINE d == call.ds
<1>1. d \in Datasets /\ call.line \in Nat /\ k \in 1 .. Len(Fields) /\ k \in DOMAIN Fields
      /\ k \in 1 .. Len(Layout[d])
  BY ReadingFacts DEF FieldsRead
<1>2. /\ info[d] = Parsed(d) /\ \A n \in DOMAIN Layout[d] : Layout[d][n].parses
      /\ TotSize(d, Parsed(d)) = Dsd[d].size /\ call.line < Dsd[d].num
  BY ReadingFacts DEF Reading
<1>3. Parsed(d)[k].count # 0
  BY <1>1, <1>2, ReadingFacts DEF Stored, EmptyMissing, Fields, Reading
<1>4. Dsd[d].size # 0
  BY <1>1, <1>2, <1>3, SizeNotZero
<1>5. Start(d, call.line) = Dsd[d].offset + Dsd[d].size * call.line
  BY <1>1, <1>2, <1>4, StartExact
<1>6. at = IF k = 1 THEN Start(d, call.line) ELSE EndOf(d, Fields, k - 1)
  BY ReadingFacts DEF FieldsRead
<1>7. /\ FieldOf(d, info[d][k]) = Layout[d][k]
      /\ Bytes(d, info[d][k]) = Layout[d][k].count * Layout[d][k].bytes
      /\ Bytes(d, info[d][k]) \in Nat
  BY <1>1, <1>2, RightInfo
<1> QED BY <1>1, <1>4, <1>5, <1>6, <1>7

LEMMA FieldCrashInv ==
  ASSUME IInv, FieldCrash
  PROVE  IInv'
<1>1. pc = "fields" /\ k <= Len(Fields) /\ Fields[k] = Missing /\ pc' = "crash"
      /\ UNCHANGED <<open, info, rec, call, k, at, err, last, starved>>
  BY DEF FieldCrash
<1>2. k \in DOMAIN Fields /\ call.rec \in Records /\ rec[call.rec] # NoRecord /\ Stored /\ Control
  BY <1>1, ReadingFacts DEF FieldsRead
<1>3. Stored'
  BY <1>1, <1>2, StayStores
<1>4. CrashCauses'
  BY <1>1, <1>2, CrashExplained DEF Fields
<1> QED BY <1>1, <1>2, <1>3, <1>4 DEF IInv, Control, ErrorIffNull, Idle

LEMMA ReadDoneInv ==
  ASSUME IInv, ReadDone
  PROVE  IInv'
<1>1. /\ pc = "fields" /\ k > Len(Fields) /\ last' = [fn |-> "read", rec |-> call.rec] /\ pc' = "idle"
      /\ k' = 0 /\ at' = 0 /\ UNCHANGED <<open, info, starved, rec, err>>
  BY DEF ReadDone, Leave
<1>2. /\ Stored /\ Control /\ call.rec \in Records /\ Len(Fields) \in Nat /\ k \in Nat
      /\ rec[call.rec] # NoRecord
      /\ err => \E n \in k .. Len(Fields) : Fields[n] = Missing
  BY <1>1, ReadingFacts DEF ErrorAhead, Control
<1>3. ~err
  <2>1. \A m, n \in Nat : m > n => m .. n = {}
    OBVIOUS
  <2>2. k .. Len(Fields) = {}
    BY <1>1, <1>2, <2>1
  <2> QED BY <1>2, <2>2
<1>4. call.rec # NoRecord
  BY <1>2, NullAssumption
<1>5. Stored'
  BY <1>1, <1>2, StayStores
<1> QED BY <1>1, <1>2, <1>3, <1>4, <1>5 DEF IInv, Control, ErrorIffNull, CrashCauses

LEMMA FieldFailsInv ==
  ASSUME IInv, FieldFails
  PROVE  IInv'
<1>1. /\ pc = "fields" /\ k <= Len(Fields) /\ Fields[k] # Missing /\ pc' = "idle" /\ k' = 0 /\ at' = 0
      /\ last' = [fn |-> "read", rec |-> NoRecord] /\ err' = TRUE /\ UNCHANGED <<open, info, starved>>
  BY DEF FieldFails, Leave, Returns
<1>2. /\ Stored /\ Control /\ call.rec \in Records /\ rec[call.rec] # NoRecord /\ k \in 1 .. Len(Fields)
      /\ rec' = [rec EXCEPT ![call.rec] = NoRecord] \/ Put(Torn)
  BY <1>1, ReadingFacts, NextField DEF FieldFails
<1>3. Stored'
  BY <1>1, <1>2, LossStores, PutStores, ContentFacts
<1> QED BY <1>1, <1>2, <1>3 DEF IInv, Control, ErrorIffNull, CrashCauses

LEMMA ReadFieldInv ==
  ASSUME IInv, ReadField
  PROVE  IInv'
<1> DEFINE d == call.ds
           f == Fields
           g == rec'[call.rec].fields
           w == LittleEndian /\ Layout[d][k].ordered
<1>1. /\ pc = "fields" /\ k <= Len(f) /\ f[k] # Missing /\ k' = k + 1
      /\ UNCHANGED <<open, info, pc, call, err, last, starved>>
  BY DEF ReadField
<1>2. /\ Stored /\ Control /\ Reading /\ FieldsRead /\ ErrorAhead
      /\ call.rec \in Records /\ d \in Datasets /\ rec[call.rec] # NoRecord /\ rec[call.rec].ds = d
      /\ DOMAIN f = 1 .. Len(Layout[d]) /\ Len(f) = Len(Layout[d]) /\ Len(f) \in Nat
  BY <1>1, ReadingFacts
<1>3. /\ k \in 1 .. Len(f) /\ k \in DOMAIN f
      /\ at = IF k = 1 THEN Dsd[d].offset + Dsd[d].size * call.line ELSE EndOf(d, f, k - 1)
      /\ FieldOf(d, info[d][k]) = Layout[d][k]
      /\ Bytes(d, info[d][k]) = Layout[d][k].count * Layout[d][k].bytes
      /\ Bytes(d, info[d][k]) \in Nat
  BY <1>1, NextField
<1>4. Put(Read(at, w)) /\ at' = at + Layout[d][k].count * Layout[d][k].bytes /\ at' \in Nat /\ at \in Nat
  BY <1>2, <1>3 DEF ReadField, Control
<1>5. w \in BOOLEAN
  OBVIOUS
<1>6. Read(at, w) \in ContentType /\ Read(at, w) # Missing /\ Read(at, w).at = at
  BY <1>4, <1>5, ContentFacts
<1> HIDE DEF w
<1>7. /\ rec'[call.rec] # NoRecord /\ rec'[call.rec].ds = d
      /\ DOMAIN g = DOMAIN f /\ Len(g) = Len(f) /\ g[k] = Read(at, w)
      /\ \A n \in DOMAIN f : n # k => g[n] = f[n]
  <2>1. /\ rec'[call.rec] # NoRecord /\ rec'[call.rec].ds = d /\ g = [f EXCEPT ![k] = Read(at, w)]
        /\ DOMAIN g = DOMAIN f /\ g[k] = Read(at, w) /\ \A n \in DOMAIN f : n # k => g[n] = f[n]
    BY <1>2, <1>3, <1>4, <1>6, PutFacts
  <2>2. f \in Seq(ContentType)
    BY <1>1, ReadingFacts
  <2>3. Len([f EXCEPT ![k] = Read(at, w)]) = Len(f)
    BY <1>3, <1>6, <2>2
  <2> QED BY <2>1, <2>3
<1>8. Stored'
  BY <1>1, <1>2, <1>3, <1>4, <1>6, PutStores
<1>9. Fields' = g
  BY <1>1 DEF Fields
<1> HIDE DEF g, f
<1>10. Reading'
  BY <1>1, <1>2, <1>7 DEF Reading
<1>11. FieldsRead'
  <2>1. k' \in 1 .. Len(Layout[d]) + 1
    BY <1>1, <1>2, <1>3
  <2>2. at' = EndOf(d, g, k)
    BY <1>4, <1>6, <1>7 DEF EndOf
  <2>3. ASSUME NEW n \in 1 .. k
        PROVE  g[n] = Read(IF n = 1 THEN Dsd[d].offset + Dsd[d].size * call.line
                           ELSE EndOf(d, g, n - 1), LittleEndian /\ Layout[d][n].ordered)
    <3>1. n = 1 \/ (n - 1 \in DOMAIN f /\ n - 1 # k)
      BY <1>2, <1>3
    <3>2. n = 1 \/ EndOf(d, g, n - 1) = EndOf(d, f, n - 1)
      BY <1>7, <3>1 DEF EndOf
    <3>3. CASE n = k
      BY <1>3, <1>7, <3>2, <3>3 DEF w
    <3>4. CASE n # k
      <4>1. n \in 1 .. k - 1 /\ n \in DOMAIN f
        BY <1>2, <1>3, <3>4
      <4>2. f[n] = Read(IF n = 1 THEN Dsd[d].offset + Dsd[d].size * call.line
                        ELSE EndOf(d, f, n - 1), LittleEndian /\ Layout[d][n].ordered)
        BY <1>2, <4>1 DEF FieldsRead, f
      <4> QED BY <1>7, <3>2, <3>4, <4>1, <4>2
    <3> QED BY <3>3, <3>4
  <2>4. k' # 1 /\ k' - 1 = k
    BY <1>1, <1>3
  <2>5. call' = call
    BY <1>1
  <2> QED BY <1>9, <2>1, <2>2, <2>3, <2>4, <2>5 DEF FieldsRead
<1>12. ErrorAhead'
  <2>1. \A n \in k + 1 .. Len(f) : n \in DOMAIN f /\ n # k /\ n \in k .. Len(f)
    BY <1>2, <1>3
  <2>2. (err => \E n \in k .. Len(f) : f[n] = Missing)
        /\ (call.new => \A n \in k .. Len(f) : f[n] \in {New, Missing})
    BY <1>2 DEF ErrorAhead, f
  <2>3. err => \E n \in k + 1 .. Len(f) : f[n] = Missing
    BY <1>1, <1>2, <1>3, <2>2
  <2> QED BY <1>1, <1>7, <1>9, <2>1, <2>2, <2>3 DEF ErrorAhead
<1>13. Control'
  BY <1>1, <1>2, <1>4 DEF Control
<1> QED BY <1>1, <1>8, <1>10, <1>11, <1>12, <1>13 DEF IInv, ErrorIffNull, CrashCauses, Idle

LEMMA NextIInv == IInv /\ [Next]_vars => IInv'
<1> SUFFICES ASSUME IInv, [Next]_vars PROVE IInv'
  OBVIOUS
<1>1. CASE UNCHANGED vars
  <2>1. Stored'
    BY <1>1, StayStores DEF vars, IInv
  <2> QED BY <1>1, <2>1 DEF vars, IInv, Control, Reading, FieldsRead, ErrorAhead, Fields, EndOf,
         ErrorIffNull, CrashCauses, Idle
<1>2. CASE ReadStep
  BY <1>2, FieldCrashInv, ReadFieldInv, FieldFailsInv, ReadDoneInv DEF ReadStep
<1>3. CASE CloseProduct
  BY <1>3, CloseInv
<1>4. CASE \E d \in Datasets : InfoCrash(d)
  BY <1>4, InfoCrashInv
<1>5. CASE \E d \in Datasets, r \in Records : CreateRecord(d, r)
  BY <1>5, CreateInv
<1>6. CASE \E r \in Records : FreeRecord(r)
  BY <1>6, FreeInv
<1>7. CASE \E r \in Records : \E n \in Places : GetField(r, n)
  BY <1>7, GetFieldInv
<1>8. CASE \E d \in Datasets, r \in Records : \E i \in Lines(d) : ReadInto(d, i, r) \/ ReadNew(d, i, r)
  BY <1>8, ReadIntoInv, ReadNewInv
<1> QED BY <1>1, <1>2, <1>3, <1>4, <1>5, <1>6, <1>7, <1>8 DEF Next

LEMMA Invariance == Spec => []IInv
  BY InitIInv, NextIInv, PTL DEF Spec

-----------------------------------------------------------------------------
(***************************************************************************)
(* Theorems.                                                               *)
(***************************************************************************)

\* Types are kept by every call: records have the fields of their record info,
\* and the info cached for a dataset is one that can be built for it.
THEOREM TypeCorrect == Spec => []TypeOK
  BY Invariance, IInvType, PTL

\* epr_read_record returns NULL exactly when it leaves an error code.
THEOREM NullMeansError == Spec => []ErrorIffNull
<1>1. IInv => ErrorIffNull
  BY DEF IInv
<1> QED BY <1>1, Invariance, PTL

\* The process ends only without memory, over a field without elements, or in a
\* look-up in a record whose product is closed.
THEOREM CrashesHaveCauses == Spec => []CrashCauses
<1>1. IInv => CrashCauses
  BY DEF IInv
<1> QED BY <1>1, Invariance, PTL

-----------------------------------------------------------------------------
(***************************************************************************)
(* Records keep what EprLines promises.                                    *)
(***************************************************************************)

\* A record of a size holds one line at most.
LEMMA OneLine ==
  ASSUME NEW v, v.ds \in Datasets, v.fields \in Seq(ContentType), Dsd[v.ds].size # 0,
         NEW i \in Nat, NEW j \in Nat, HoldsLine(v, i),
         v.fields[1].at = Dsd[v.ds].offset + Dsd[v.ds].size * j
  PROVE  i = j
<1> DEFINE o == Dsd[v.ds].offset
           z == Dsd[v.ds].size
<1>1. Len(v.fields) = Len(Layout[v.ds]) /\ Len(Layout[v.ds]) \in Nat \ {0}
  BY LayoutFacts DEF HoldsLine
<1>2. 1 \in DOMAIN v.fields
  BY <1>1
<1>3. o + z * i = o + z * j
  BY <1>2 DEF HoldsLine
<1>4. o \in Nat /\ z \in Nat /\ z # 0
  BY DsdFacts
<1> HIDE DEF o, z
<1>5. z * i = z * j
  <2>1. z * i \in Nat /\ z * j \in Nat
    BY <1>4
  <2> QED BY <1>3, <1>4, <2>1
<1>6. \A x \in Nat \ {0}, y, t \in Nat : y < t => x * y < x * t
  OBVIOUS
<1> QED BY <1>4, <1>5, <1>6

\* What a record holds that is new.
LEMMA NewHolds ==
  ASSUME NEW d \in Datasets, NEW f, [ds |-> d, fields |-> f] # NoRecord,
         \A n \in DOMAIN f : f[n] \in {New, Missing}
  PROVE  Content([ds |-> d, fields |-> f]) = [ds |-> d, line |-> Blank]
  BY DEF Content, Untouched

\* What any record holds.
LEMMA SomethingHeld ==
  ASSUME NEW v \in RecordType
  PROVE  /\ v # NoRecord
         /\ \E l \in {Blank, Damaged} \cup 0 .. Dsd[v.ds].num - 1 :
              Content(v) = [ds |-> v.ds, line |-> l]
<1>1. v # NoRecord
  BY NullAssumption
<1>2. LinesHeld(v) # {} => (CHOOSE i \in LinesHeld(v) : TRUE) \in 0 .. Dsd[v.ds].num - 1
  BY DEF LinesHeld
<1> QED BY <1>1, <1>2 DEF Content

\* What a record holds when its first field is the one of line i, or when all are.
LEMMA LineHeld ==
  ASSUME NEW v \in RecordType, Dsd[v.ds].size # 0, NEW i \in 0 .. Dsd[v.ds].num - 1,
         1 \in DOMAIN v.fields, v.fields[1].state = "read",
         v.fields[1].at = Dsd[v.ds].offset + Dsd[v.ds].size * i
  PROVE  /\ \E l \in {Damaged, i} : Content(v) = [ds |-> v.ds, line |-> l]
         /\ HoldsLine(v, i) => Content(v) = [ds |-> v.ds, line |-> i]
<1>1. v # NoRecord /\ v.ds \in Datasets /\ v.fields \in Seq(ContentType)
  BY NullAssumption DEF RecordType
<1>2. ~Untouched(v)
  BY ContentFacts DEF Untouched
<1>3. Dsd[v.ds].num \in Nat /\ i \in Nat
  BY <1>1, DsdFacts
<1>4. \A j \in LinesHeld(v) : j = i
  BY <1>1, <1>3, OneLine DEF LinesHeld
<1>5. LinesHeld(v) # {} => (CHOOSE j \in LinesHeld(v) : TRUE) = i
  BY <1>4
<1>6. HoldsLine(v, i) => LinesHeld(v) # {}
  BY DEF LinesHeld
<1> QED BY <1>1, <1>2, <1>5, <1>6 DEF Content

\* What a record holds that has a field read in part.
LEMMA TornHeld ==
  ASSUME NEW v \in RecordType, NEW n \in DOMAIN v.fields, v.fields[n] = Torn
  PROVE  Content(v) = [ds |-> v.ds, line |-> Damaged]
<1>1. v # NoRecord
  BY NullAssumption
<1>2. ~Untouched(v)
  BY ContentFacts DEF Untouched
<1>3. LinesHeld(v) = {}
  BY ContentFacts DEF LinesHeld, HoldsLine
<1> QED BY <1>1, <1>2, <1>3 DEF Content

Contents == [r \in Records |-> Content(rec[r])]

\* If one record changes, what the others hold does not.
LEMMA OthersKept ==
  ASSUME NEW r \in Records, \A q \in Records : q # r => rec'[q] = rec[q]
  PROVE  Contents' = [Contents EXCEPT ![r] = Content(rec'[r])]
  BY DEF Contents

LEMMA AllKept ==
  ASSUME UNCHANGED rec
  PROVE  UNCHANGED Contents
  BY DEF Contents

LEMMA ContentsFacts ==
  /\ \A r \in Records : Contents[r] = Content(rec[r])
  /\ Content(NoRecord) = NoRecord
  BY DEF Contents, Content

ReadCall == IF pc = "fields" THEN [rec |-> call.rec, ds |-> call.ds, line |-> call.line] ELSE NoRecord

LEMMA CreateMaps ==
  ASSUME IInv, NEW d \in Datasets, NEW r \in Records, CreateRecord(d, r)
  PROVE  Abstract!Next
<1>1. Stored /\ pc = "idle" /\ UNCHANGED <<pc, call>> /\ rec[r] = NoRecord
  BY DEF IInv, CreateRecord, Idle
<1>2. ReadCall = NoRecord /\ ReadCall' = NoRecord
  BY <1>1 DEF ReadCall
<1>3. CASE \E s \in Infos(d) : \E f \in NewFields(d, s) :
             /\ KeepInfo(d, s, f)
             /\ rec' = [rec EXCEPT ![r] = [ds |-> d, fields |-> f]]
             /\ Returns("create", r, MakeErr(d, s, f))
  <2>1. PICK s \in Infos(d) : \E f \in NewFields(d, s) :
             /\ KeepInfo(d, s, f)
             /\ rec' = [rec EXCEPT ![r] = [ds |-> d, fields |-> f]]
             /\ Returns("create", r, MakeErr(d, s, f))
    BY <1>3
  <2>2. PICK f \in NewFields(d, s) :
             /\ KeepInfo(d, s, f)
             /\ rec' = [rec EXCEPT ![r] = [ds |-> d, fields |-> f]]
             /\ Returns("create", r, MakeErr(d, s, f))
    BY <2>1
  <2>3. s \in Built[d]
    BY <1>1, InfosFacts DEF Stored
  <2>4. Content([ds |-> d, fields |-> f]) = [ds |-> d, line |-> Blank]
    BY <2>3, NewFieldsFacts, NewHolds
  <2>5. rec'[r] = [ds |-> d, fields |-> f] /\ \A q \in Records : q # r => rec'[q] = rec[q]
    BY <1>1, <2>2 DEF Stored, RecsOK
  <2>6. Contents' = [Contents EXCEPT ![r] = [ds |-> d, line |-> Blank]] /\ Contents[r] = NoRecord
    BY <1>1, <2>4, <2>5, OthersKept, ContentsFacts
  <2>7. last'.rec = r
    BY <2>2 DEF Returns
  <2>8. Abstract!Create(r, d)
    BY <1>2, <2>6, <2>7 DEF Abstract!Create, Contents, ReadCall
  <2> QED BY <2>8 DEF Abstract!Next
<1>4. CASE MakeFails(d) /\ Returns("create", NoRecord, TRUE) /\ UNCHANGED rec
  <2>1. last'.rec = NoRecord /\ UNCHANGED Contents
    BY <1>4, AllKept DEF Returns
  <2>2. Abstract!Refuse
    BY <1>2, <2>1 DEF Abstract!Refuse, Contents, ReadCall
  <2> QED BY <2>2 DEF Abstract!Next
<1> QED BY <1>3, <1>4 DEF CreateRecord

LEMMA InfoCrashMaps ==
  ASSUME NEW d \in Datasets, InfoCrash(d)
  PROVE  UNCHANGED <<Contents, ReadCall, last>>
<1>1. pc = "idle" /\ pc' = "crash" /\ UNCHANGED <<rec, last>>
  BY DEF InfoCrash, Idle
<1> QED BY <1>1, AllKept DEF ReadCall

LEMMA GetFieldMaps ==
  ASSUME NEW r \in Records, NEW n \in Places, GetField(r, n)
  PROVE  Abstract!Next \/ UNCHANGED <<Contents, ReadCall, last>>
<1>1. pc = "idle" /\ pc' \in {"idle", "crash"} /\ UNCHANGED rec
      /\ (UNCHANGED last \/ last'.rec = NoRecord)
  BY DEF GetField, Idle, Returns
<1>2. UNCHANGED Contents /\ ReadCall = NoRecord /\ ReadCall' = NoRecord
  BY <1>1, AllKept DEF ReadCall
<1>3. last'.rec = NoRecord => Abstract!Refuse
  BY <1>2 DEF Abstract!Refuse, Contents, ReadCall
<1> QED BY <1>1, <1>2, <1>3 DEF Abstract!Next

LEMMA FreeMaps ==
  ASSUME IInv, NEW r \in Records, FreeRecord(r)
  PROVE  Abstract!Next
<1>1. Stored /\ pc = "idle" /\ rec[r] # NoRecord
  BY DEF IInv, FreeRecord, Idle
<1>2. FieldsFreed(r) # NoInfo
  BY <1>1, RecordFacts DEF Stored, FieldsFreed
<1>3. rec' = [rec EXCEPT ![r] = NoRecord] /\ last'.rec = NoRecord /\ UNCHANGED pc
  BY <1>2 DEF FreeRecord, Returns
<1>4. rec'[r] = NoRecord /\ \A q \in Records : q # r => rec'[q] = rec[q]
  BY <1>1, <1>3 DEF Stored, RecsOK
<1>5. Contents' = [Contents EXCEPT ![r] = NoRecord]
  BY <1>4, OthersKept, ContentsFacts
<1>6. ReadCall = NoRecord /\ ReadCall' = NoRecord
  BY <1>1, <1>3 DEF ReadCall
<1>7. Abstract!FreeRecord(r)
  BY <1>3, <1>5, <1>6 DEF Abstract!FreeRecord, Contents, ReadCall
<1> QED BY <1>7 DEF Abstract!Next

LEMMA RefusedMaps ==
  ASSUME pc = "idle", pc' = "idle", UNCHANGED rec, last'.rec = NoRecord
  PROVE  Abstract!Next
<1>1. UNCHANGED Contents /\ ReadCall = NoRecord /\ ReadCall' = NoRecord
  BY AllKept DEF ReadCall
<1>2. Abstract!Refuse
  BY <1>1 DEF Abstract!Refuse, Contents, ReadCall
<1> QED BY <1>2 DEF Abstract!Next

LEMMA BeginMaps ==
  ASSUME NEW d \in Datasets, NEW i \in Nat, NEW r \in Records, NEW new, NEW e,
         pc = "idle", i < Dsd[d].num, BeginFields(d, i, r, new, e),
         \/ UNCHANGED rec /\ rec[r] \in RecordType /\ rec[r].ds = d
         \/ /\ rec[r] = NoRecord /\ Content(rec'[r]) = [ds |-> d, line |-> Blank]
            /\ \A q \in Records : q # r => rec'[q] = rec[q]
  PROVE  Abstract!Next
<1> DEFINE c == [rec |-> r, ds |-> d, line |-> i]
<1>1. ReadCall = NoRecord /\ ReadCall' = c /\ last'.rec = NoRecord
  BY DEF ReadCall, BeginFields, Returns
<1>2. c \in Abstract!Reads /\ c.rec = r /\ c.ds = d
  BY DsdFacts DEF Abstract!Reads
<1> HIDE DEF c
<1>3. CASE UNCHANGED rec /\ rec[r] \in RecordType /\ rec[r].ds = d
  <2>1. UNCHANGED Contents /\ Contents[r] = Content(rec[r])
    BY <1>3, AllKept, ContentsFacts
  <2>2. \E l \in {Blank, Damaged} \cup 0 .. Dsd[d].num - 1 : Contents[r] = [ds |-> d, line |-> l]
    BY <1>3, <2>1, SomethingHeld
  <2>3. Contents[r] \in Abstract!Held(d)
    BY <2>2 DEF Abstract!Held
  <2> QED BY <1>1, <1>2, <2>1, <2>3 DEF Abstract!Begin, Abstract!Next, Contents, ReadCall
<1>4. CASE /\ rec[r] = NoRecord /\ Content(rec'[r]) = [ds |-> d, line |-> Blank]
           /\ \A q \in Records : q # r => rec'[q] = rec[q]
  <2>1. Contents' = [Contents EXCEPT ![r] = [ds |-> d, line |-> Blank]] /\ Contents[r] = NoRecord
    BY <1>4, OthersKept, ContentsFacts
  <2> QED BY <1>1, <1>2, <2>1 DEF Abstract!Begin, Abstract!Next, Contents, ReadCall
<1> QED BY <1>3, <1>4

LEMMA ReadIntoMaps ==
  ASSUME IInv, NEW d \in Datasets, NEW r \in Records, NEW i \in Lines(d), ReadInto(d, i, r)
  PROVE  Abstract!Next
<1>1. Stored /\ pc = "idle" /\ UNCHANGED rec /\ rec[r] # NoRecord
  BY DEF IInv, ReadInto, Idle
<1>2. CASE Refused
  BY <1>1, <1>2, RefusedMaps DEF Refused, Returns
<1>3. CASE Compatible(r, d) /\ Fits(d, i, info[d]) /\ BeginFields(d, i, r, FALSE, FALSE)
  <2>1. rec[r] \in RecordType /\ rec[r].ds = d /\ i < Dsd[d].num
    BY <1>1, <1>3, RecordFacts DEF Stored, Compatible, Fits
  <2>2. i \in Nat
    BY DsdFacts DEF Lines
  <2> QED BY <1>1, <1>3, <2>1, <2>2, BeginMaps
<1> QED BY <1>2, <1>3 DEF ReadInto

LEMMA ReadNewMaps ==
  ASSUME IInv, NEW d \in Datasets, NEW r \in Records, NEW i \in Lines(d), ReadNew(d, i, r)
  PROVE  Abstract!Next
<1>1. Stored /\ pc = "idle" /\ rec[r] = NoRecord
  BY DEF IInv, ReadNew, Idle
<1>2. CASE Refused /\ UNCHANGED rec
  BY <1>1, <1>2, RefusedMaps DEF Refused, Returns
<1>3. ASSUME NEW s \in Infos(d), NEW f \in NewFields(d, s), Fits(d, i, s),
             rec' = [rec EXCEPT ![r] = [ds |-> d, fields |-> f]],
             BeginFields(d, i, r, TRUE, MakeErr(d, s, f))
      PROVE  Abstract!Next
  <2>1. s \in Built[d]
    BY <1>1, InfosFacts DEF Stored
  <2>2. Content([ds |-> d, fields |-> f]) = [ds |-> d, line |-> Blank]
    BY <2>1, NewFieldsFacts, NewHolds
  <2>3. rec'[r] = [ds |-> d, fields |-> f] /\ \A q \in Records : q # r => rec'[q] = rec[q]
    BY <1>1, <1>3 DEF Stored, RecsOK
  <2>4. i \in Nat /\ i < Dsd[d].num
    BY <1>3, DsdFacts DEF Lines, Fits
  <2>5. Content(rec'[r]) = [ds |-> d, line |-> Blank]
    BY <2>2, <2>3
  <2> DEFINE e == MakeErr(d, s, f)
  <2>6. BeginFields(d, i, r, TRUE, e)
    BY <1>3
  <2> HIDE DEF e
  <2> QED BY <1>1, <2>3, <2>4, <2>5, <2>6, BeginMaps
<1> QED BY <1>2, <1>3 DEF ReadNew

\* What is known of the read for EprLines.
LEMMA ReadCallFacts ==
  ASSUME IInv, pc = "fields"
  PROVE  /\ ReadCall # NoRecord
         /\ ReadCall.rec = call.rec /\ ReadCall.ds = call.ds /\ ReadCall.line = call.line
         /\ call.line \in 0 .. Dsd[call.ds].num - 1
         /\ rec[call.rec] \in RecordType /\ rec[call.rec].ds = call.ds /\ Fields = rec[call.rec].fields
         /\ 1 \in DOMAIN Fields
<1>1. /\ Stored /\ Reading
      /\ call.rec \in Records /\ call.ds \in Datasets /\ call.line \in Nat
      /\ rec[call.rec] # NoRecord /\ rec[call.rec].ds = call.ds
      /\ DOMAIN Fields = 1 .. Len(Layout[call.ds])
  BY ReadingFacts
<1>2. ReadCall = [rec |-> call.rec, ds |-> call.ds, line |-> call.line]
  BY DEF ReadCall
<1>3. ReadCall \in [rec : Records, ds : Datasets, line : Nat]
  BY <1>1, <1>2
<1>4. call.line < Dsd[call.ds].num /\ Dsd[call.ds].num \in Nat
  BY <1>1, DsdFacts DEF Reading
<1>5. 1 \in DOMAIN Fields
  BY <1>1, LayoutFacts
<1>6. rec[call.rec] \in RecordType
  BY <1>1, RecordFacts DEF Stored
<1>7. ReadCall # NoRecord
  BY <1>3, NullAssumption
<1> QED BY <1>1, <1>2, <1>4, <1>5, <1>6, <1>7 DEF Fields

LEMMA ReadIs ==
  \A p, w : Read(p, w).state = "read" /\ Read(p, w).at = p /\ Read(p, w).swapped = w
  BY DEF Read

LEMMA FieldCrashMaps ==
  ASSUME IInv, FieldCrash
  PROVE  Abstract!Next
<1>1. pc = "fields" /\ pc' = "crash" /\ UNCHANGED <<rec, last>>
  BY DEF FieldCrash
<1>2. ReadCall # NoRecord /\ ReadCall' = NoRecord /\ ReadCall.rec \in Records /\ last'.rec = NoRecord
  BY <1>1, ReadCallFacts, ReadingFacts DEF ReadCall, Reading
<1>3. Contents' = [Contents EXCEPT ![ReadCall.rec] = Contents[ReadCall.rec]]
  BY <1>1, <1>2, AllKept DEF Contents
<1>4. Abstract!Fail
  BY <1>2, <1>3 DEF Abstract!Fail, Contents, ReadCall
<1> QED BY <1>4 DEF Abstract!Next

LEMMA ReadFieldMaps ==
  ASSUME IInv, IInv', ReadField
  PROVE  Abstract!Next
<1> DEFINE r == call.rec
           d == call.ds
           v == rec'[r]
<1>1. /\ pc = "fields" /\ k <= Len(Fields) /\ Fields[k] # Missing /\ k' = k + 1
      /\ UNCHANGED <<pc, call, last>>
      /\ Put(Read(at, LittleEndian /\ FieldOf(d, info[d][k]).ordered))
  BY DEF ReadField
<1>2. Stored /\ r \in Records /\ d \in Datasets /\ rec[r] # NoRecord /\ at \in Nat
  BY <1>1, ReadingFacts DEF Control
<1>3. k \in 1 .. Len(Fields) /\ Dsd[d].size # 0
  BY <1>1, NextField
<1>4. Read(at, LittleEndian /\ FieldOf(d, info[d][k]).ordered) \in ContentType
  BY <1>2, ContentFacts
<1>5. \A q \in Records : q # r => rec'[q] = rec[q]
  BY <1>1, <1>2, <1>3, <1>4, PutFacts
<1>6. v \in RecordType /\ v.ds = d /\ 1 \in DOMAIN v.fields /\ Fields' = v.fields
  <2>1. /\ pc' = "fields" /\ call' = call
    BY <1>1
  <2>2. Stored' /\ Reading' /\ DOMAIN Fields' = 1 .. Len(Layout[d])
    <3>1. DOMAIN Fields = 1 .. Len(Layout[d])
      BY <1>1, ReadingFacts
    <3>2. DOMAIN Fields' = DOMAIN Fields
      BY <1>1, <1>2, <1>3, <1>4, PutFacts DEF Fields
    <3> QED BY <2>1, <3>1, <3>2 DEF IInv
  <2>3. Fields' = v.fields /\ v # NoRecord /\ v.ds = d
    BY <2>1, <2>2 DEF Fields, Reading
  <2>4. v \in RecordType
    BY <1>2, <2>2, <2>3 DEF Stored, RecsOK
  <2> QED BY <1>2, <2>2, <2>3, <2>4, LayoutFacts
<1>7. v.fields[1].state = "read" /\ v.fields[1].at = Dsd[d].offset + Dsd[d].size * call.line
  <2>1. FieldsRead' /\ call' = call
    BY <1>1 DEF IInv
  <2>2. 1 \in 1 .. k' - 1
    BY <1>1, <1>3
  <2>3. \E w : Fields'[1] = Read(Dsd[d].offset + Dsd[d].size * call.line, w)
    BY <2>1, <2>2 DEF FieldsRead
  <2> QED BY <1>6, <2>3, ReadIs
<1>8. call.line \in 0 .. Dsd[d].num - 1
      /\ ReadCall # NoRecord /\ ReadCall.rec = r /\ ReadCall.ds = d /\ ReadCall.line = call.line
  BY <1>1, ReadCallFacts
<1>9. \E l \in {Damaged, call.line} : Content(v) = [ds |-> d, line |-> l]
  <2> HIDE DEF v
  <2> QED BY <1>3, <1>6, <1>7, <1>8, LineHeld
<1>10. Contents' = [Contents EXCEPT ![r] = Content(v)]
  BY <1>2, <1>5, OthersKept
<1>11. UNCHANGED <<ReadCall, last>>
  BY <1>1 DEF ReadCall
<1> HIDE DEF v
<1>12. \E l \in {Damaged, ReadCall.line} :
         Contents' = [Contents EXCEPT ![ReadCall.rec] = [ds |-> ReadCall.ds, line |-> l]]
  BY <1>8, <1>9, <1>10
<1>13. Abstract!Change
  BY <1>8, <1>11, <1>12 DEF Abstract!Change, Contents, ReadCall
<1> QED BY <1>13 DEF Abstract!Next

LEMMA FieldFailsMaps ==
  ASSUME IInv, FieldFails
  PROVE  Abstract!Next
<1> DEFINE r == call.rec
           d == call.ds
           v == rec'[r]
<1>1. /\ pc = "fields" /\ k <= Len(Fields) /\ Fields[k] # Missing /\ pc' = "idle"
      /\ last'.rec = NoRecord /\ (rec' = [rec EXCEPT ![r] = NoRecord] \/ Put(Torn))
  BY DEF FieldFails, Leave, Returns
<1>2. Stored /\ r \in Records /\ d \in Datasets /\ rec[r] # NoRecord /\ rec[r].ds = d /\ k \in 1 .. Len(Fields)
  BY <1>1, ReadingFacts, NextField
<1>3. ReadCall # NoRecord /\ ReadCall.rec = r /\ ReadCall.ds = d /\ ReadCall' = NoRecord
  BY <1>1, ReadCallFacts DEF ReadCall
<1>4. \A q \in Records : q # r => rec'[q] = rec[q]
  BY <1>1, <1>2, PutFacts, ContentFacts DEF Stored, RecsOK
<1>5. Content(v) \in {NoRecord, [ds |-> d, line |-> Damaged]}
  <2>1. CASE rec' = [rec EXCEPT ![r] = NoRecord]
    BY <1>2, <2>1, ContentsFacts DEF Stored, RecsOK
  <2>2. CASE Put(Torn)
    <3>1. v # NoRecord /\ v.ds = d /\ v.fields[k] = Torn /\ k \in DOMAIN v.fields
          /\ rec' \in [Records -> RecordType \cup {NoRecord}]
      BY <1>1, <1>2, <2>2, PutFacts, ContentFacts, NextField
    <3>2. v \in RecordType
      BY <1>2, <3>1
    <3> HIDE DEF v
    <3> QED BY <3>1, <3>2, TornHeld
  <2> QED BY <1>1, <2>1, <2>2
<1>6. Contents' = [Contents EXCEPT ![r] = Content(v)]
  BY <1>2, <1>4, OthersKept
<1> HIDE DEF v
<1>7. Contents' \in {[Contents EXCEPT ![ReadCall.rec] = x] :
                       x \in {NoRecord, [ds |-> ReadCall.ds, line |-> Damaged], Contents[ReadCall.rec]}}
  BY <1>3, <1>5, <1>6
<1>8. Abstract!Fail
  BY <1>1, <1>3, <1>7 DEF Abstract!Fail, Contents, ReadCall
<1> QED BY <1>8 DEF Abstract!Next

LEMMA ReadDoneMaps ==
  ASSUME IInv, ReadDone
  PROVE  Abstract!Next
<1> DEFINE r == call.rec
           d == call.ds
           v == rec[r]
<1>1. pc = "fields" /\ k > Len(Fields) /\ pc' = "idle" /\ last'.rec = r /\ UNCHANGED rec
  BY DEF ReadDone, Leave
<1>2. /\ Stored /\ Control /\ Reading /\ FieldsRead /\ r \in Records /\ d \in Datasets
      /\ Len(Fields) = Len(Layout[d]) /\ Len(Fields) \in Nat \ {0}
      /\ DOMAIN Fields = 1 .. Len(Layout[d])
  BY <1>1, ReadingFacts
<1>3. /\ v \in RecordType /\ v.ds = d /\ Fields = v.fields /\ 1 \in DOMAIN v.fields
      /\ call.line \in 0 .. Dsd[d].num - 1
      /\ ReadCall # NoRecord /\ ReadCall.rec = r /\ ReadCall.ds = d /\ ReadCall.line = call.line
  BY <1>1, ReadCallFacts
<1>4. ASSUME NEW n \in DOMAIN Fields
      PROVE  v.fields[n] = Read(IF n = 1 THEN Dsd[d].offset + Dsd[d].size * call.line
                                ELSE EndOf(d, Fields, n - 1), LittleEndian /\ Layout[d][n].ordered)
  <2>1. n \in 1 .. k - 1
    BY <1>1, <1>2 DEF Control
  <2> QED BY <1>2, <1>3, <2>1 DEF FieldsRead
<1>5. HoldsLine(v, call.line)
  <2>1. ASSUME NEW n \in DOMAIN v.fields
        PROVE  /\ v.fields[n].state = "read"
               /\ v.fields[n].swapped = (LittleEndian /\ Layout[d][n].ordered)
               /\ v.fields[n].at = IF n = 1 THEN Dsd[d].offset + Dsd[d].size * call.line
                                   ELSE EndOf(d, v.fields, n - 1)
    BY <1>3, <1>4, ReadIs
  <2> HIDE DEF v
  <2> QED BY <1>2, <1>3, <2>1 DEF HoldsLine, EndOf
<1>6. v.fields[1].state = "read" /\ v.fields[1].at = Dsd[d].offset + Dsd[d].size * call.line
  BY <1>3, <1>4, ReadIs
<1>7. Dsd[d].size # 0
  <2>1. v.fields[1] # Missing
    BY <1>6, ContentFacts
  <2>2. /\ open /\ info[d] = Parsed(d) /\ TotSize(d, Parsed(d)) = Dsd[d].size /\ v # NoRecord
        /\ \A n \in DOMAIN Layout[d] : Layout[d][n].parses
    BY <1>2 DEF Reading
  <2>3. Parsed(d)[1].count # 0
    BY <1>2, <1>3, <2>1, <2>2 DEF Stored, EmptyMissing
  <2>4. 1 \in 1 .. Len(Layout[d])
    BY <1>2
  <2> QED BY <1>2, <2>2, <2>3, <2>4, SizeNotZero
<1>8. Contents[ReadCall.rec] = [ds |-> ReadCall.ds, line |-> ReadCall.line]
  <2>1. Content(v) = [ds |-> d, line |-> call.line]
    <3> HIDE DEF v
    <3> QED BY <1>3, <1>5, <1>6, <1>7, LineHeld
  <2> QED BY <1>2, <1>3, <2>1, ContentsFacts
<1>9. UNCHANGED Contents /\ ReadCall' = NoRecord
  BY <1>1, AllKept DEF ReadCall
<1>10. Abstract!Succeed
  BY <1>1, <1>3, <1>8, <1>9 DEF Abstract!Succeed, Contents, ReadCall
<1> QED BY <1>10 DEF Abstract!Next

LEMMA InitMaps == Init => Abstract!Init
  BY ContentsFacts DEF Init, Abstract!Init

LEMMA NextMaps ==
  ASSUME IInv, IInv', [Next]_vars
  PROVE  [Abstract!Next]_(Abstract!vars)
<1> DEFINE stays == UNCHANGED <<Contents, ReadCall, last>>
<1>1. CASE UNCHANGED vars
  <2>1. UNCHANGED <<rec, pc, call, last>>
    BY <1>1 DEF vars
  <2>2. stays
    BY <2>1, AllKept DEF ReadCall
  <2> QED BY <2>2 DEF Abstract!vars, Contents, ReadCall
<1>2. CASE ReadStep
  BY <1>2, FieldCrashMaps, ReadFieldMaps, FieldFailsMaps, ReadDoneMaps DEF ReadStep
<1>3. CASE CloseProduct
  <2>1. pc = "idle" /\ pc' = "idle" /\ UNCHANGED rec /\ last'.rec = NoRecord
    BY <1>3 DEF CloseProduct, Idle, Returns
  <2> QED BY <2>1, RefusedMaps
<1>4. CASE \E d \in Datasets : InfoCrash(d)
  <2>1. stays
    BY <1>4, InfoCrashMaps
  <2> QED BY <2>1 DEF Abstract!vars, Contents, ReadCall
<1>5. CASE \E d \in Datasets, r \in Records : CreateRecord(d, r)
  BY <1>5, CreateMaps
<1>6. CASE \E r \in Records : FreeRecord(r)
  BY <1>6, FreeMaps
<1>7. CASE \E r \in Records : \E n \in Places : GetField(r, n)
  <2>1. Abstract!Next \/ stays
    BY <1>7, GetFieldMaps
  <2> QED BY <2>1 DEF Abstract!vars, Contents, ReadCall
<1>8. CASE \E d \in Datasets, r \in Records : \E i \in Lines(d) : ReadInto(d, i, r) \/ ReadNew(d, i, r)
  BY <1>8, ReadIntoMaps, ReadNewMaps
<1> QED BY <1>1, <1>2, <1>3, <1>4, <1>5, <1>6, <1>7, <1>8 DEF Next

\* Records keep what EprLines promises: whatever fails, a record that a read
\* returns holds the line asked for, and a record that holds a line holds it whole.
THEOREM RecordsKeepLines == Spec => LinesKept
<1>1. IInv /\ IInv' /\ [Next]_vars => [Abstract!Next]_(Abstract!vars)
  BY NextMaps
<1> QED BY InitMaps, <1>1, Invariance, PTL DEF Spec, LinesKept, Abstract!Spec

=============================================================================
