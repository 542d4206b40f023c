------------------------- MODULE EprCatalog_proofs -------------------------
(***************************************************************************)
(* Proofs about EprCatalog, for files with any descriptors in any order,   *)
(* lines of any width and any number of failures.  The tables are those of *)
(* the database.  What the proofs use of them is stated once: the rows of  *)
(* the datasets as Level1Row, Level2Row and GeocodedRow, the rows of the   *)
(* bands as Level1Band, Level2Band and GeocodedBand, the lists as Listed.  *)
(***************************************************************************)
EXTENDS EprCatalog, FiniteSetTheorems, NaturalsInduction, WellFoundedInduction, TLAPS

-----------------------------------------------------------------------------
(***************************************************************************)
(* Pointer arrays.                                                         *)
(***************************************************************************)

IsSeq(s)   == \E S : s \in Seq(S)
IsArray(a) == \E S : a \in Arrays(S)

\* An element is appended, or memory ran out and the array is what it was; it
\* is never longer than it has room for.
Added(S, a, e, b) ==
  /\ b \in Arrays(S \cup {e})
  /\ b.capacity # 0 /\ Len(b.elems) <= b.capacity
  /\ b.elems = a.elems \/ b.elems = Append(a.elems, e)

LEMMA AddElemFacts ==
  ASSUME NEW S, NEW a \in Arrays(S), a.capacity # 0, Len(a.elems) <= a.capacity,
         NEW e, NEW b \in AddElem(a, e)
  PROVE  Added(S, a, e, b)
<1>1. /\ a = [capacity |-> a.capacity, elems |-> a.elems]
      /\ a.capacity \in Nat /\ a.elems \in Seq(S) /\ Len(a.elems) \in Nat
  BY DEF Arrays
<1>2. PICK g \in (IF Full(a) THEN Grow(a, 2 * a.capacity) ELSE {a}) :
        b = IF Full(g) THEN g ELSE [g EXCEPT !.elems = Append(@, e)]
  BY DEF AddElem
<1>3. /\ g = [capacity |-> g.capacity, elems |-> a.elems]
      /\ g.capacity \in Nat /\ g.capacity >= a.capacity
  BY <1>1, <1>2 DEF Grow
<1>4. a.elems \in Seq(S \cup {e}) /\ Append(a.elems, e) \in Seq(S \cup {e})
  BY <1>1
<1>5. Len(Append(a.elems, e)) = Len(a.elems) + 1
  BY <1>1
<1>6. CASE Full(g)
  BY <1>1, <1>2, <1>3, <1>4, <1>6 DEF Arrays, Added
<1>7. CASE ~Full(g)
  <2>1. b = [capacity |-> g.capacity, elems |-> Append(a.elems, e)]
    <3>1. b = [g EXCEPT !.elems = Append(g.elems, e)]
      BY <1>2, <1>7
    <3>2. \A c, l, m : [[capacity |-> c, elems |-> l] EXCEPT !.elems = m] = [capacity |-> c, elems |-> m]
      OBVIOUS
    <3>3. g.elems = a.elems
      BY <1>3
    <3> QED BY <1>3, <3>1, <3>2, <3>3
  <2>2. Len(a.elems) + 1 <= g.capacity
    BY <1>1, <1>3, <1>7 DEF Full
  <2> QED BY <1>1, <1>3, <1>4, <1>5, <2>1, <2>2 DEF Arrays, Added
<1> QED BY <1>6, <1>7

LEMMA NewArrayFacts ==
  ASSUME NEW n \in Nat \ {0}
  PROVE  /\ NewArray(n) \in Arrays({}) /\ NewArray(n).capacity = n
         /\ NewArray(n).elems = << >> /\ Len(NewArray(n).elems) = 0
  BY DEF NewArray, Arrays

LEMMA NullFacts == NULL \in Arrays({}) /\ NULL.capacity = 0 /\ NULL.elems = << >>
  BY DEF NULL, Arrays

-----------------------------------------------------------------------------
(***************************************************************************)
(* The tables.                                                             *)
(***************************************************************************)

\* A band whose scaling is two numbers, so that no dataset is looked up for it.
Plain(r) == IsNumber(r.offset) /\ IsNumber(r.factor)

EndsPlain(s) == IsSeq(s) /\ Len(s) # 0 /\ Plain(s[Len(s)])

LEMMA Concatenation ==
  ASSUME NEW s, NEW t, IsSeq(s)
  PROVE  /\ IsSeq(t) => IsSeq(s \o t)
         /\ EndsPlain(t) => EndsPlain(s \o t)
<1>1. ASSUME IsSeq(t) PROVE IsSeq(s \o t) /\ Len(t) \in Nat /\ (Len(t) # 0 => (s \o t)[Len(s \o t)] = t[Len(t)] /\ Len(s \o t) # 0)
  <2>1. PICK S : s \in Seq(S)
    BY DEF IsSeq
  <2>2. PICK T : t \in Seq(T)
    BY <1>1 DEF IsSeq
  <2>3. s \in Seq(S \cup T) /\ t \in Seq(S \cup T)
    BY <2>1, <2>2
  <2>4. /\ s \o t \in Seq(S \cup T) /\ Len(s) \in Nat /\ Len(t) \in Nat
        /\ Len(s \o t) = Len(s) + Len(t)
        /\ \A i \in 1 .. Len(t) : (s \o t)[Len(s) + i] = t[i]
    BY <2>3
  <2> QED BY <2>4 DEF IsSeq
<1> QED BY <1>1 DEF EndsPlain

LEMMA FunctionIsSeq ==
  ASSUME NEW n \in Nat, NEW f, DOMAIN f = 1 .. n, f = [i \in 1 .. n |-> f[i]]
  PROVE  IsSeq(f)
<1>1. PICK S : f \in [1 .. n -> S]
  <2>1. f \in [1 .. n -> {f[i] : i \in 1 .. n}]
    OBVIOUS
  <2> QED BY <2>1
<1>2. f \in Seq(S)
  BY <1>1
<1> QED BY <1>2 DEF IsSeq

LEMMA PlainBands ==
  ASSUME NEW id, NEW dataset, NEW field, NEW sample, NEW type, NEW mask, NEW flags
  PROVE  Plain(PlainBand(id, dataset, field, sample, type, mask, flags))
  BY DEF Plain, PlainBand, Band, Number, IsNumber

LEMMA BandPieces ==
  /\ IsSeq(TiePointBands) /\ IsSeq(RadianceBands) /\ IsSeq(ReflectanceBands)
  /\ \A yellow : IsSeq(WaterBands(yellow))
  /\ \A first, second : IsSeq(LandBands(first, second))
  /\ \A aerosol, flags : EndsPlain(CloudBands(aerosol, flags))
<1>1. IsSeq(TiePointBands) /\ IsSeq(RadianceBands) /\ IsSeq(ReflectanceBands)
  BY FunctionIsSeq DEF TiePointBands, RadianceBands, ReflectanceBands
<1>2. \A a, b, c : <<a, b, c>> \in Seq({a, b, c})
  OBVIOUS
<1>3. \A a, b, c, d, e : <<a, b, c, d, e>> \in Seq({a, b, c, d, e}) /\ Len(<<a, b, c, d, e>>) = 5
                         /\ <<a, b, c, d, e>>[5] = e
  OBVIOUS
<1>4. \A a, b, c, d, e, f, g, h : <<a, b, c, d, e, f, g, h>> \in Seq({a, b, c, d, e, f, g, h})
  OBVIOUS
<1>5. ASSUME NEW yellow PROVE IsSeq(WaterBands(yellow))
  <2>1. PICK a, b, c, d, e, f, g, h : WaterBands(yellow) = <<a, b, c, d, e, f, g, h>>
    BY DEF WaterBands
  <2>2. IsSeq(<<a, b, c, d, e, f, g, h>>)
    BY <1>4 DEF IsSeq
  <2> QED BY <2>1, <2>2
<1>6. \A first, second : IsSeq(LandBands(first, second))
  BY <1>2 DEF LandBands, IsSeq
<1>7. ASSUME NEW aerosol, NEW flags PROVE EndsPlain(CloudBands(aerosol, flags))
  <2> DEFINE last == PlainBand("l2_flags", "Flags", 3, "3TOI", "uint", NoMask, flags)
  <2>1. Plain(last)
    BY PlainBands
  <2>2. PICK a, b, c, d : CloudBands(aerosol, flags) = <<a, b, c, d, last>>
    BY DEF CloudBands
  <2> HIDE DEF last
  <2>3. IsSeq(<<a, b, c, d, last>>)
    BY <1>3 DEF IsSeq
  <2> QED BY <1>3, <2>1, <2>2, <2>3 DEF EndsPlain
<1> QED BY <1>1, <1>5, <1>6, <1>7

LEMMA BandTables ==
  /\ EndsPlain(MER_RR__1P_band_data) /\ EndsPlain(MER_RR__1P_IODD5_band_data)
  /\ EndsPlain(MER_RR__2P_band_data) /\ EndsPlain(MER_RR__2P_IODD6_band_data)
  /\ EndsPlain(ASA_APG_1P_band_data)
<1>1. ASSUME NEW a, NEW b, Plain(b) PROVE EndsPlain(<<a, b>>)
  <2>1. <<a, b>> \in Seq({a, b}) /\ Len(<<a, b>>) = 2 /\ <<a, b>>[2] = b
    OBVIOUS
  <2>2. IsSeq(<<a, b>>)
    BY <2>1 DEF IsSeq
  <2> QED BY <1>1, <2>1, <2>2 DEF EndsPlain
<1>2. ASSUME NEW s, EndsPlain(s) PROVE EndsPlain((TiePointBands \o RadianceBands) \o s)
  BY <1>2, BandPieces, Concatenation
<1>3. EndsPlain(MER_RR__1P_band_data) /\ EndsPlain(MER_RR__1P_IODD5_band_data)
  BY <1>1, <1>2, PlainBands DEF MER_RR__1P_band_data, MER_RR__1P_IODD5_band_data
<1>4. \A a, b : IsSeq(<<a, b>>)
  <2>1. \A a, b : <<a, b>> \in Seq({a, b})
    OBVIOUS
  <2> QED BY <2>1 DEF IsSeq
<1>5. \A a, b, c : IsSeq(<<a, b, c>>)
  <2>1. \A a, b, c : <<a, b, c>> \in Seq({a, b, c})
    OBVIOUS
  <2> QED BY <2>1 DEF IsSeq
<1>6. ASSUME NEW w, NEW l, NEW s, NEW c, IsSeq(w), IsSeq(l), IsSeq(s), EndsPlain(c)
      PROVE  EndsPlain(((((TiePointBands \o ReflectanceBands) \o w) \o l) \o s) \o c)
  BY <1>6, BandPieces, Concatenation
<1>7. EndsPlain(MER_RR__2P_band_data) /\ EndsPlain(MER_RR__2P_IODD6_band_data)
  <2>1. \A flags : EndsPlain(Level2Bands(flags))
    BY <1>5, <1>6, BandPieces DEF Level2Bands
  <2>2. EndsPlain(MER_RR__2P_IODD6_band_data)
    BY <1>4, <1>6, BandPieces DEF MER_RR__2P_IODD6_band_data
  <2> QED BY <2>1, <2>2 DEF MER_RR__2P_band_data
<1>8. EndsPlain(ASA_APG_1P_band_data)
  <2>1. PICK a, b, c, d, e, id, dataset, field, offset, factor :
          ASA_APG_1P_band_data =
            <<a, b, c, d, e, LinearBand(id, dataset, field, Number(offset), Number(factor), NoMask)>>
    BY DEF ASA_APG_1P_band_data
  <2> DEFINE last == LinearBand(id, dataset, field, Number(offset), Number(factor), NoMask)
  <2>2. Plain(last)
    BY DEF Plain, LinearBand, Band, Number, IsNumber
  <2> HIDE DEF last
  <2>3. \A x : <<a, b, c, d, e, x>> \in Seq({a, b, c, d, e, x}) /\ Len(<<a, b, c, d, e, x>>) = 6
               /\ <<a, b, c, d, e, x>>[6] = x
    OBVIOUS
  <2>4. ASA_APG_1P_band_data = <<a, b, c, d, e, last>>
    BY <2>1 DEF last
  <2>5. IsSeq(ASA_APG_1P_band_data)
    BY <2>3, <2>4 DEF IsSeq
  <2> QED BY <2>2, <2>3, <2>4, <2>5 DEF EndsPlain
<1> QED BY <1>3, <1>7, <1>8

\* Whatever table the bands are made from, its last band is read as it is, so
\* that the error code of a look-up that failed does not outlive the loop.
LEMMA BandRowsFacts == EndsPlain(BandRows)
  BY BandTables
     DEF BandRows, MER_FR__1P_band_data, MER_FR__1P_IODD5_band_data, MER_FR__2P_band_data,
         MER_FR__2P_IODD6_band_data

LEMMA DatasetTables ==
  /\ \A flags : IsSeq(Level1Rows(flags))
  /\ \A id, name : IsSeq(Level2Rows(id, name))
  /\ \A main : IsSeq(GeocodedRows(main))
<1>1. \A a : IsSeq(<<a>>)
  <2>1. \A a : <<a>> \in Seq({a})
    OBVIOUS
  <2> QED BY <2>1 DEF IsSeq
<1>2. \A sq, gads : IsSeq(AnnotationRows(sq, gads))
  <2>1. \A a, b, c : <<a, b, c>> \in Seq({a, b, c})
    OBVIOUS
  <2> QED BY <2>1 DEF IsSeq, AnnotationRows
<1>3. \A flags : IsSeq(Level1Rows(flags))
  <2> DEFINE s == [i \in 1 .. 15 |-> DatasetRow(RadianceIds[i],
                                <<"Radiance MDS", "(" \o ToString(i) \o ")">>,
                                MER_RR__1P_MDSR_1_15)]
  <2>1. IsSeq(s)
    BY FunctionIsSeq
  <2> HIDE DEF s
  <2> QED BY <1>1, <1>2, <2>1, Concatenation DEF Level1Rows, s
<1>4. \A id, name : IsSeq(Level2Rows(id, name))
  <2> DEFINE s == [i \in 1 .. 13 |-> DatasetRow(NormRhoSurfIds[i],
                                <<"Norm. rho_surf", "MDS(" \o ToString(i) \o ")">>,
                                MER_RR__2P_MDSR_1_13)]
  <2>1. IsSeq(s)
    BY FunctionIsSeq
  <2>2. \A a, b, c, d, e, f, g : IsSeq(<<a, b, c, d, e, f, g>>)
    <3>1. \A a, b, c, d, e, f, g : <<a, b, c, d, e, f, g>> \in Seq({a, b, c, d, e, f, g})
      OBVIOUS
    <3> QED BY <3>1 DEF IsSeq
  <2> HIDE DEF s
  <2> QED BY <1>2, <2>1, <2>2, Concatenation DEF Level2Rows, s
<1>5. \A main : IsSeq(GeocodedRows(main))
  <2>1. \A a, b, c, d, e, f, g, h, i, j, k :
          <<a, b, c, d, e, f, g, h, i, j, k>> \in Seq({a, b, c, d, e, f, g, h, i, j, k})
    OBVIOUS
  <2> QED BY <2>1 DEF IsSeq, GeocodedRows
<1> QED BY <1>3, <1>4, <1>5

LEMMA EditionRowsFacts == ASSUME NEW edition PROVE IsSeq(EditionRows(edition))
<1>1. IsSeq(<< >>)
  <2>1. << >> \in Seq({})
    OBVIOUS
  <2> QED BY <2>1 DEF IsSeq
<1> QED BY <1>1, DatasetTables
     DEF EditionRows, MER_RR__1P_dataset_data, MER_RR__1P_IODD5_dataset_data, MER_RR__2P_dataset_data,
         MER_RR__2P_IODD6_dataset_data, MER_FR__1P_dataset_data, MER_FR__1P_IODD5_dataset_data,
         MER_FR__2P_dataset_data, MER_FR__2P_IODD6_dataset_data, ASA_APG_1P_dataset_data,
         ASA_APG_1P_602_dataset_data

LEMMA DatasetRowsFacts == IsSeq(DatasetRows)
  BY EditionRowsFacts DEF DatasetRows

-----------------------------------------------------------------------------
(***************************************************************************)
(* The descriptor that is found.                                           *)
(***************************************************************************)

LEMMA Least ==
  ASSUME NEW S, S \subseteq Nat, S # {}
  PROVE  Min(S) \in S /\ \A y \in S : Min(S) <= y
<1> DEFINE R == {ss \in Nat \X Nat : ss[1] < ss[2]}
<1>1. IsWellFoundedOn(R, Nat)
  BY NatLessThanWellFounded DEF OpToRel
<1>2. PICK x \in S : \A y \in S : <<y, x>> \notin R
  <2> HIDE DEF R
  <2> QED BY <1>1, WFMin
<1>3. ASSUME NEW y \in S PROVE x <= y
  <2>1. x \in Nat /\ y \in Nat
    OBVIOUS
  <2>2. y < x => <<y, x>> \in R
    BY <2>1
  <2> QED BY <1>2, <2>1, <2>2
<1> QED BY <1>3 DEF Min

LEMMA MatchingFacts ==
  ASSUME TypeOK, NEW r, Matching(r) # {}
  PROVE  Min(Matching(r)) \in DOMAIN file.dsds
<1>1. DOMAIN file.dsds \subseteq Nat
  <2>1. file.dsds \in Seq(Range(file.dsds))
    BY FilesAssumption DEF TypeOK
  <2> HIDE DEF Range
  <2>2. DOMAIN file.dsds = 1 .. Len(file.dsds)
    BY <2>1
  <2> QED BY <2>2
<1>2. Matching(r) \subseteq DOMAIN file.dsds
  BY DEF Matching
<1> QED BY <1>1, <1>2, Least

-----------------------------------------------------------------------------
(***************************************************************************)
(* The inductive invariant.                                                *)
(***************************************************************************)

Started ==
  /\ pc \in {"detect", "tables"} =>
       dataset_ids.elems = << >> /\ pt_index = 0 /\ row = 1
  /\ pc \in {"detect", "tables", "datasets"} => band_ids = NULL /\ bt_index = 0 /\ ~err
  /\ pc \in {"datasets", "bands"} => pt_index # 0

\* The rows are taken in order, so that unless memory ran out element i is row i.
InOrder == [i \in DOMAIN band_ids.elems |-> band_ids.elems[i].row] = [i \in 1 .. row - 1 |-> i]

\* While bands are made every band so far has its dataset, and an error that is
\* set is that of the last row.
BandsSoFar ==
  pc = "bands" =>
    /\ bt_index # 0 /\ band_ids.capacity # 0
    /\ \A i \in 1 .. row - 1 : HasDataset(BandRows[i].dataset)
    /\ err => row # 1 /\ LastLookupFails(BandRows[row - 1])
    /\ failures = 0 => InOrder

IInv ==
  /\ TypeOK
  /\ IsArray(dataset_ids) /\ dataset_ids.capacity # 0
  /\ IsArray(band_ids)
  /\ Started
  /\ BandsSoFar
  /\ AllBandsOrNone

LEMMA InitIInv == Init => IInv
<1> SUFFICES ASSUME Init PROVE IInv
  OBVIOUS
<1>1. /\ dataset_ids = NewArray(16) /\ band_ids = NULL
      /\ dataset_ids \in Arrays({}) /\ dataset_ids.capacity = 16 /\ dataset_ids.elems = << >>
      /\ Len(dataset_ids.elems) = 0 /\ Len(band_ids.elems) = 0
      /\ band_ids \in Arrays({}) /\ band_ids.capacity = 0 /\ band_ids.elems = << >>
  BY NewArrayFacts, NullFacts DEF Init
<1>2. TypeOK
  <2>1. Range(<< >>) = {}
    BY DEF Range
  <2>2. DatasetIds = {}
    BY <1>1, <2>1 DEF DatasetIds
  <2>3. /\ file \in Files /\ meris_iodd_version = 0 /\ pt_index = 0 /\ bt_index = 0 /\ row = 1
        /\ err = FALSE /\ failures = 0 /\ pc = "detect"
    BY DEF Init
  <2>4. failures \in 0 .. MaxFailures
    BY <2>3, MaxFailuresAssumption
  <2>5. \A a \in {dataset_ids, band_ids} : Len(a.elems) <= a.capacity
    BY <1>1
  <2>6. {d.dsd : d \in DatasetIds} \subseteq DOMAIN file.dsds
    BY <2>2
  <2>7. row \in Nat \ {0} /\ pt_index = 0 /\ bt_index = 0 /\ pc = "detect"
    <3>1. row = 1
      BY <2>3
    <3> QED BY <2>3, <3>1
  <2>9. err \in BOOLEAN
    BY <2>3
  <2>8. meris_iodd_version \in {0, 5, 6, 8} /\ file \in Files
    BY <2>3
  <2> QED BY <2>4, <2>5, <2>6, <2>7, <2>8, <2>9, ZenonT(20) DEF TypeOK
<1>3. IsArray(dataset_ids) /\ IsArray(band_ids)
  BY <1>1 DEF IsArray
<1>4. Started /\ BandsSoFar /\ AllBandsOrNone
  BY <1>1 DEF Init, Started, BandsSoFar, AllBandsOrNone
<1> QED BY <1>1, <1>2, <1>3, <1>4 DEF IInv

\* What is looked up does not change once the tables are chosen.
LEMMA SameDatasets ==
  ASSUME file' = file, pt_index' = pt_index
  PROVE  /\ DatasetRows' = DatasetRows
         /\ dataset_ids' = dataset_ids => \A n : HasDataset(n)' <=> HasDataset(n)
<1>1. Sensor' = Sensor
  BY DEF Sensor
<1>2. DatasetRows' = DatasetRows
  BY <1>1 DEF DatasetRows, EditionRows
<1>3. ASSUME dataset_ids' = dataset_ids, NEW n PROVE HasDataset(n)' <=> HasDataset(n)
  BY <1>2, <1>3 DEF HasDataset, DatasetId
<1> QED BY <1>2, <1>3

LEMMA SameBands ==
  ASSUME file' = file, bt_index' = bt_index
  PROVE  BandRows' = BandRows
<1>1. Sensor' = Sensor
  BY DEF Sensor
<1> QED BY <1>1 DEF BandRows

LEMMA DetectIInv == ASSUME IInv, Detect PROVE IInv'
<1>1. /\ pc = "detect" /\ pc' = "tables" /\ file' = file /\ pt_index' = pt_index /\ bt_index' = bt_index
      /\ dataset_ids' = dataset_ids /\ band_ids' = band_ids /\ row' = row /\ err' = err /\ failures' = failures
      /\ meris_iodd_version' \in {0, 5, 6, 8}
  BY DEF Detect, epr_detect_meris_iodd_version
<1>2. TypeOK'
  BY <1>1, SameDatasets, SameBands DEF IInv, TypeOK, DatasetIds, BandIds, Started
<1>3. IsArray(dataset_ids)' /\ (dataset_ids.capacity # 0)' /\ IsArray(band_ids)'
  BY <1>1 DEF IInv, IsArray
<1>4. Started' /\ BandsSoFar' /\ AllBandsOrNone'
  BY <1>1 DEF IInv, Started, BandsSoFar, AllBandsOrNone
<1> QED BY <1>2, <1>3, <1>4 DEF IInv

LEMMA StartDatasetsIInv == ASSUME IInv, StartDatasets PROVE IInv'
<1>1. /\ pc = "tables" /\ file' = file /\ meris_iodd_version' = meris_iodd_version /\ bt_index' = bt_index
      /\ dataset_ids' = dataset_ids /\ band_ids' = band_ids /\ row' = row /\ failures' = failures
      /\ pt_index' = ProductTable
      /\ pc' = IF ProductTable = 0 THEN "closed" ELSE "datasets"
      /\ err' = (ProductTable = 0)
  BY DEF StartDatasets
<1>2. /\ dataset_ids.elems = << >> /\ bt_index = 0 /\ band_ids = NULL /\ row \in Nat \ {0}
  BY <1>1 DEF IInv, Started, TypeOK
<1>3. DatasetIds' = {} /\ DatasetIds = {}
  <2>1. Range(<< >>) = {}
    BY DEF Range
  <2> QED BY <1>1, <1>2, <2>1 DEF DatasetIds
<1>4. TypeOK'
  <2>1. IsSeq(DatasetRows)'
    BY DatasetRowsFacts, PTL
  <2>2. Len(DatasetRows)' \in Nat
    BY <2>1 DEF IsSeq
  <2>3. row = 1
    BY <1>1 DEF IInv, Started
  <2>4. pc' = "datasets" => row' <= Len(DatasetRows') + 1
    BY <1>1, <2>2, <2>3
  <2>5. pc' # "bands" /\ bt_index' = 0 /\ pc' \in {"closed", "datasets"} /\ err' \in BOOLEAN
    BY <1>1, <1>2
  <2> QED BY <1>1, <1>2, <1>3, <2>4, <2>5, ZenonT(20) DEF TypeOK, IInv
<1>5. IsArray(dataset_ids)' /\ (dataset_ids.capacity # 0)' /\ IsArray(band_ids)'
  BY <1>1 DEF IInv, IsArray
<1>6. Started' /\ BandsSoFar' /\ AllBandsOrNone'
  BY <1>1, <1>2 DEF Started, BandsSoFar, AllBandsOrNone
<1> QED BY <1>4, <1>5, <1>6 DEF IInv

LEMMA SkipDatasetIInv == ASSUME IInv, SkipDataset PROVE IInv'
<1>1. /\ pc = "datasets" /\ pc' = pc /\ file' = file /\ meris_iodd_version' = meris_iodd_version
      /\ pt_index' = pt_index /\ bt_index' = bt_index
      /\ dataset_ids' = dataset_ids /\ band_ids' = band_ids /\ row' = row + 1 /\ failures' = failures /\ err' = err
      /\ row <= Len(DatasetRows)
  BY DEF SkipDataset, CreatingDatasets
<1>2. TypeOK'
  <2>1. DatasetRows' = DatasetRows
    BY <1>1, SameDatasets
  <2>2. Len(DatasetRows) \in Nat
    BY DatasetRowsFacts DEF IsSeq
  <2>3. row' \in Nat \ {0} /\ row' <= Len(DatasetRows') + 1
    BY <1>1, <2>1, <2>2 DEF IInv, TypeOK
  <2>4. bt_index' = 0
    BY <1>1 DEF IInv, Started
  <2> QED BY <1>1, <2>1, <2>3, <2>4, ZenonT(20) DEF TypeOK, IInv, DatasetIds
<1>3. IsArray(dataset_ids)' /\ (dataset_ids.capacity # 0)' /\ IsArray(band_ids)'
  BY <1>1 DEF IInv, IsArray
<1>4. Started' /\ BandsSoFar' /\ AllBandsOrNone'
  BY <1>1 DEF IInv, Started, BandsSoFar, AllBandsOrNone
<1> QED BY <1>2, <1>3, <1>4 DEF IInv

\* The elements after an append are those before and perhaps the new one.
LEMMA Appended ==
  ASSUME NEW s, IsSeq(s), NEW e, NEW t, t = s \/ t = Append(s, e)
  PROVE  Range(t) \subseteq Range(s) \cup {e}
<1>1. PICK S : s \in Seq(S)
  BY DEF IsSeq
<1>2. CASE t = s
  BY <1>2
<1>3. CASE t = Append(s, e)
  <2>1. /\ DOMAIN t = 1 .. Len(s) + 1 /\ DOMAIN s = 1 .. Len(s) /\ Len(s) \in Nat
        /\ t[Len(s) + 1] = e /\ \A i \in 1 .. Len(s) : t[i] = s[i]
    BY <1>1, <1>3
  <2>2. ASSUME NEW i \in DOMAIN t PROVE t[i] \in Range(s) \cup {e}
    <3>1. CASE i \in 1 .. Len(s)
      BY <2>1, <3>1 DEF Range
    <3>2. CASE i = Len(s) + 1
      BY <2>1, <3>2
    <3> QED BY <2>1, <2>2, <3>1, <3>2
  <2> QED BY <2>2 DEF Range
<1> QED BY <1>2, <1>3

LEMMA AddDatasetIInv == ASSUME IInv, AddDataset PROVE IInv'
<1> DEFINE r == DatasetRows[row]
           e == [row |-> row, dsd |-> Min(Matching(r))]
<1>1. /\ pc = "datasets" /\ pc' = pc /\ file' = file /\ meris_iodd_version' = meris_iodd_version
      /\ pt_index' = pt_index /\ bt_index' = bt_index
      /\ band_ids' = band_ids /\ row' = row + 1 /\ err' = err
      /\ row <= Len(DatasetRows)
      /\ Matching(r) # {}
      /\ dataset_ids' \in AddElem(dataset_ids, e)
      /\ failures' = failures + Lost(dataset_ids, dataset_ids') /\ failures' <= MaxFailures
  BY DEF AddDataset, CreatingDatasets
<1>2. Min(Matching(r)) \in DOMAIN file.dsds
  BY <1>1, MatchingFacts DEF IInv
<1> HIDE DEF r
<1>3. PICK S : dataset_ids \in Arrays(S)
  BY DEF IInv, IsArray
<1>4. Len(dataset_ids.elems) <= dataset_ids.capacity /\ dataset_ids.capacity # 0 /\ IsSeq(dataset_ids.elems)
  BY <1>3 DEF IInv, TypeOK, Arrays, IsSeq
<1>5. /\ dataset_ids' \in Arrays(S \cup {e})
      /\ dataset_ids'.capacity # 0 /\ Len(dataset_ids'.elems) <= dataset_ids'.capacity
      /\ dataset_ids'.elems = dataset_ids.elems \/ dataset_ids'.elems = Append(dataset_ids.elems, e)
  <2> HIDE DEF e
  <2>1. PICK a, b, x : a = dataset_ids /\ b = dataset_ids' /\ x = e
    OBVIOUS
  <2>2. a \in Arrays(S) /\ a.capacity # 0 /\ Len(a.elems) <= a.capacity /\ b \in AddElem(a, x)
    BY <1>1, <1>3, <1>4, <2>1
  <2>3. Added(S, a, x, b)
    BY <2>2, AddElemFacts
  <2> QED BY <2>1, <2>3 DEF Added
<1>6. DatasetIds' \subseteq DatasetIds \cup {e}
  <2> HIDE DEF e
  <2> QED BY <1>4, <1>5, Appended DEF DatasetIds
<1>7. TypeOK'
  <2>1. DatasetRows' = DatasetRows
    BY <1>1, SameDatasets
  <2>2. Len(DatasetRows) \in Nat /\ DOMAIN DatasetRows = 1 .. Len(DatasetRows)
    BY DatasetRowsFacts DEF IsSeq
  <2>3. row \in Nat \ {0} /\ row' \in Nat \ {0} /\ row' <= Len(DatasetRows') + 1 /\ row \in DOMAIN DatasetRows
    BY <1>1, <2>1, <2>2 DEF IInv, TypeOK
  <2>4. bt_index' = 0 /\ pt_index # 0
    BY <1>1 DEF IInv, Started
  <2>5. {d.row : d \in DatasetIds} \subseteq DOMAIN DatasetRows /\ {d.dsd : d \in DatasetIds} \subseteq DOMAIN file.dsds
    BY <2>4 DEF IInv, TypeOK
  <2>6. {d.row : d \in DatasetIds'} \subseteq DOMAIN DatasetRows'
    BY <1>6, <2>1, <2>3, <2>5
  <2>7. {d.dsd : d \in DatasetIds'} \subseteq DOMAIN file'.dsds
    BY <1>1, <1>2, <1>6, <2>5
  <2>8. failures' \in 0 .. MaxFailures
    BY <1>1, MaxFailuresAssumption DEF IInv, TypeOK, Lost
  <2>9. \A a \in {dataset_ids', band_ids'} : Len(a.elems) <= a.capacity
    BY <1>1, <1>5 DEF IInv, TypeOK
  <2> HIDE DEF e
  <2> QED BY <1>1, <2>3, <2>4, <2>6, <2>7, <2>8, <2>9, ZenonT(20) DEF TypeOK, IInv
<1>8. IsArray(dataset_ids)' /\ (dataset_ids.capacity # 0)' /\ IsArray(band_ids)'
  BY <1>1, <1>5 DEF IInv, IsArray
<1>9. Started' /\ BandsSoFar' /\ AllBandsOrNone'
  BY <1>1 DEF IInv, Started, BandsSoFar, AllBandsOrNone
<1> QED BY <1>7, <1>8, <1>9 DEF IInv

LEMMA StartBandsIInv == ASSUME IInv, StartBands PROVE IInv'
<1>1. /\ pc = "datasets" /\ file' = file /\ meris_iodd_version' = meris_iodd_version
      /\ pt_index' = pt_index /\ bt_index' = BandTable /\ dataset_ids' = dataset_ids /\ failures' = failures
      /\ \/ BandTable = 0 /\ pc' = "open" /\ err' = TRUE /\ band_ids' = band_ids /\ row' = row
         \/ BandTable # 0 /\ pc' = "bands" /\ err' = err /\ band_ids' = NewArray(16) /\ row' = 1
  BY DEF StartBands
<1>2. band_ids = NULL /\ ~err /\ pt_index # 0 /\ band_ids \in Arrays({}) /\ band_ids.elems = << >> /\ band_ids.capacity = 0
      /\ err \in BOOLEAN
  BY <1>1, NullFacts DEF IInv, Started, TypeOK
<1>3. band_ids' \in Arrays({}) /\ band_ids'.elems = << >> /\ Len(band_ids'.elems) <= band_ids'.capacity
  BY <1>1, <1>2, NewArrayFacts
<1>4. BandIds' = {}
  BY <1>3 DEF BandIds, Range
<1>5. TypeOK'
  <2>1. DatasetRows' = DatasetRows
    BY <1>1, SameDatasets
  <2>2. Len(BandRows)' \in Nat
    <3>1. EndsPlain(BandRows)'
      BY BandRowsFacts, PTL
    <3> QED BY <3>1 DEF EndsPlain, IsSeq
  <2>3. row' \in Nat \ {0} /\ pc' # "datasets"
    BY <1>1 DEF IInv, TypeOK
  <2>4. pc' = "bands" => row' <= Len(BandRows)' + 1
    BY <1>1, <2>2
  <2>5. pc' \in {"open", "bands"}
    BY <1>1
  <2>6. \A a \in {dataset_ids', band_ids'} : Len(a.elems) <= a.capacity
    BY <1>1, <1>3 DEF IInv, TypeOK
  <2>7. {b.row : b \in BandIds'} \subseteq DOMAIN BandRows'
    BY <1>4
  <2>8. err' \in BOOLEAN
    BY <1>1, <1>2
  <2>9. DatasetIds' = DatasetIds
    BY <1>1 DEF DatasetIds
  <2> QED BY <1>1, <2>1, <2>3, <2>4, <2>5, <2>6, <2>7, <2>8, <2>9, ZenonT(20) DEF TypeOK, IInv
<1>6. IsArray(dataset_ids)' /\ (dataset_ids.capacity # 0)' /\ IsArray(band_ids)'
  BY <1>1, <1>3 DEF IInv, IsArray
<1>7. CASE BandTable = 0
  <2>1. Started' /\ BandsSoFar' /\ AllBandsOrNone'
    BY <1>1, <1>2, <1>7 DEF Started, BandsSoFar, AllBandsOrNone
  <2> QED BY <1>5, <1>6, <2>1 DEF IInv
<1>8. CASE BandTable # 0
  <2>1. pc' = "bands" /\ bt_index' # 0 /\ ~err' /\ row' = 1 /\ band_ids'.capacity = 16 /\ band_ids'.elems = << >>
    BY <1>1, <1>2, <1>8, NewArrayFacts
  <2>2. InOrder'
    <3>1. DOMAIN << >> = {} /\ 1 .. 1 - 1 = {}
      OBVIOUS
    <3> QED BY <2>1, <3>1 DEF InOrder
  <2>3. \A i \in 1 .. row' - 1 : FALSE
    BY <2>1
  <2>4. BandsSoFar'
    BY <2>1, <2>2, <2>3 DEF BandsSoFar
  <2>5. Started' /\ AllBandsOrNone'
    BY <1>1, <1>2, <2>1 DEF Started, AllBandsOrNone
  <2> QED BY <1>5, <1>6, <2>4, <2>5 DEF IInv
<1> QED BY <1>1, <1>7, <1>8

LEMMA AppendedInOrder ==
  ASSUME NEW s, IsSeq(s), NEW e, NEW n \in Nat \ {0}, e.row = n,
         [i \in DOMAIN s |-> s[i].row] = [i \in 1 .. n - 1 |-> i]
  PROVE  LET t == Append(s, e) IN [i \in DOMAIN t |-> t[i].row] = [i \in 1 .. n |-> i]
<1> DEFINE t == Append(s, e)
           f == [i \in DOMAIN s |-> s[i].row]
           g == [i \in 1 .. n - 1 |-> i]
<1>1. PICK S : s \in Seq(S)
  BY DEF IsSeq
<1>2. DOMAIN s = 1 .. n - 1
  <2>1. DOMAIN f = DOMAIN s /\ DOMAIN g = 1 .. n - 1
    OBVIOUS
  <2> QED BY <2>1
<1>3. \A i \in 1 .. n - 1 : s[i].row = i
  <2>1. \A i \in DOMAIN s : f[i] = s[i].row
    OBVIOUS
  <2>2. \A i \in 1 .. n - 1 : g[i] = i
    OBVIOUS
  <2> QED BY <1>2, <2>1, <2>2
<1>4. Len(s) = n - 1
  <2>1. Len(s) \in Nat /\ DOMAIN s = 1 .. Len(s)
    BY <1>1
  <2> QED BY <1>2, <2>1
<1>5. DOMAIN t = 1 .. n /\ t[n] = e /\ \A i \in 1 .. n - 1 : t[i] = s[i]
  BY <1>1, <1>4
<1>6. \A i \in 1 .. n : t[i].row = i
  <2>1. ASSUME NEW i \in 1 .. n PROVE t[i].row = i
    <3>1. CASE i = n
      BY <1>5, <3>1
    <3>2. CASE i \in 1 .. n - 1
      BY <1>3, <1>5, <3>2
    <3> QED BY <3>1, <3>2
  <2> QED BY <2>1
<1> HIDE DEF t
<1> QED BY <1>5, <1>6 DEF t

LEMMA Failed ==
  ASSUME NEW r, NEW c, NEW p \in SUBSET ({x \in {"offset"} : r} \cup {x \in {"factor"} : c})
  PROVE  Cardinality(p) \in Nat
<1>1. p \subseteq {"offset", "factor"}
  OBVIOUS
<1>2. IsFiniteSet({"offset", "factor"})
  <2>1. IsFiniteSet({"offset"} \cup {"factor"})
    BY FS_Singleton, FS_AddElement
  <2>2. {"offset", "factor"} = {"offset"} \cup {"factor"}
    OBVIOUS
  <2> QED BY <2>1, <2>2
<1> QED BY <1>1, <1>2, FS_Subset, FS_CardinalityType

LEMMA AddBandIInv == ASSUME IInv, AddBand PROVE IInv'
<1> DEFINE r == BandRows[row]
           readOffset == {p \in {"offset"} : \E d \in Reads(r.offset) : HasDataset(d)}
           readFactor == {p \in {"factor"} : \E d \in Reads(r.factor) : HasDataset(d)}
<1>1. /\ pc = "bands" /\ pc' = pc /\ file' = file /\ meris_iodd_version' = meris_iodd_version
      /\ pt_index' = pt_index /\ bt_index' = bt_index
      /\ dataset_ids' = dataset_ids /\ row' = row + 1
      /\ row <= Len(BandRows)
      /\ HasDataset(BandRows[row].dataset)
      /\ err' = LastLookupFails(BandRows[row])
  BY DEF AddBand, CreatingBands
<1>2. PICK fails \in SUBSET (readOffset \cup readFactor) :
        /\ band_ids' \in AddElem(band_ids, BandId(r, fails))
        /\ failures' = failures + Cardinality(fails) + Lost(band_ids, band_ids')
        /\ failures' <= MaxFailures
  BY DEF AddBand
<1>3. Cardinality(fails) \in Nat
  BY Failed
<1> DEFINE e == BandId(r, fails)
<1>4. e.row = row
  BY DEF BandId
<1> HIDE DEF e, r
<1>5. PICK S : band_ids \in Arrays(S)
  BY DEF IInv, IsArray
<1>6. Len(band_ids.elems) <= band_ids.capacity /\ band_ids.capacity # 0 /\ IsSeq(band_ids.elems)
  BY <1>1, <1>5 DEF IInv, TypeOK, Arrays, IsSeq, BandsSoFar
<1>7. /\ band_ids' \in Arrays(S \cup {e})
      /\ band_ids'.capacity # 0 /\ Len(band_ids'.elems) <= band_ids'.capacity
      /\ band_ids'.elems = band_ids.elems \/ band_ids'.elems = Append(band_ids.elems, e)
  <2>1. PICK a, b, x : a = band_ids /\ b = band_ids' /\ x = e
    OBVIOUS
  <2>2. a \in Arrays(S) /\ a.capacity # 0 /\ Len(a.elems) <= a.capacity /\ b \in AddElem(a, x)
    BY <1>2, <1>5, <1>6, <2>1 DEF e
  <2>3. Added(S, a, x, b)
    BY <2>2, AddElemFacts
  <2> QED BY <2>1, <2>3 DEF Added
<1>8. BandIds' \subseteq BandIds \cup {e}
  BY <1>6, <1>7, Appended DEF BandIds
<1>9. row \in Nat \ {0} /\ failures \in Nat /\ bt_index # 0
  BY <1>1, MaxFailuresAssumption DEF IInv, TypeOK, BandsSoFar
<1>10. DatasetRows' = DatasetRows /\ BandRows' = BandRows /\ \A n : HasDataset(n)' <=> HasDataset(n)
  BY <1>1, SameDatasets, SameBands
<1>11. TypeOK'
  <2>1. Len(BandRows) \in Nat /\ DOMAIN BandRows = 1 .. Len(BandRows)
    BY BandRowsFacts DEF EndsPlain, IsSeq
  <2>2. row' \in Nat \ {0} /\ row' <= Len(BandRows') + 1 /\ row \in DOMAIN BandRows
    BY <1>1, <1>9, <1>10, <2>1
  <2>3. {b.row : b \in BandIds} \subseteq DOMAIN BandRows
    BY <1>9 DEF IInv, TypeOK
  <2>4. {b.row : b \in BandIds'} \subseteq DOMAIN BandRows'
    BY <1>4, <1>8, <1>10, <2>2, <2>3
  <2>5. failures' \in 0 .. MaxFailures
    BY <1>2, <1>3, <1>9, MaxFailuresAssumption DEF Lost
  <2>6. \A a \in {dataset_ids', band_ids'} : Len(a.elems) <= a.capacity
    BY <1>1, <1>7 DEF IInv, TypeOK
  <2>7. err' \in BOOLEAN
    BY <1>1 DEF LastLookupFails
  <2>8. DatasetIds' = DatasetIds
    BY <1>1 DEF DatasetIds
  <2> QED BY <1>1, <1>10, <2>2, <2>4, <2>5, <2>6, <2>7, <2>8, ZenonT(20) DEF TypeOK, IInv
<1>12. IsArray(dataset_ids)' /\ (dataset_ids.capacity # 0)' /\ IsArray(band_ids)'
  BY <1>1, <1>7 DEF IInv, IsArray
<1>13. BandsSoFar'
  <2>1. row' - 1 = row /\ row' # 1
    BY <1>1, <1>9
  <2>2. \A i \in 1 .. row' - 1 : HasDataset(BandRows[i].dataset)'
    <3>1. ASSUME NEW i \in 1 .. row PROVE HasDataset(BandRows[i].dataset)
      <4>1. CASE i = row
        BY <1>1, <4>1
      <4>2. CASE i \in 1 .. row - 1
        BY <1>1, <4>2 DEF IInv, BandsSoFar
      <4> QED BY <1>9, <4>1, <4>2
    <3> QED BY <1>10, <2>1, <3>1
  <2>3. err' => LastLookupFails(BandRows[row - 1])'
    <3>1. LastLookupFails(BandRows[row - 1])' <=> LastLookupFails(BandRows[row])
      BY <1>10, <2>1 DEF LastLookupFails
    <3> QED BY <1>1, <3>1
  <2>4. ASSUME failures' = 0 PROVE InOrder'
    <3>1. failures = 0 /\ Lost(band_ids, band_ids') = 0
      BY <1>2, <1>3, <1>9, <2>4 DEF Lost
    <3>2. band_ids'.elems = Append(band_ids.elems, e)
      BY <1>7, <3>1 DEF Lost
    <3>3. InOrder
      BY <1>1, <3>1 DEF IInv, BandsSoFar
    <3>4. PICK s, x, n : s = band_ids.elems /\ x = e /\ n = row
      OBVIOUS
    <3>5. LET t == Append(s, x) IN [i \in DOMAIN t |-> t[i].row] = [i \in 1 .. n |-> i]
      <4>1. IsSeq(s) /\ n \in Nat \ {0} /\ x.row = n /\ [i \in DOMAIN s |-> s[i].row] = [i \in 1 .. n - 1 |-> i]
        BY <1>4, <1>6, <1>9, <3>3, <3>4 DEF InOrder
      <4> QED BY <4>1, AppendedInOrder
    <3> QED BY <2>1, <3>2, <3>4, <3>5 DEF InOrder
  <2> QED BY <1>1, <1>7, <1>9, <2>1, <2>2, <2>3, <2>4 DEF BandsSoFar
<1>14. Started' /\ AllBandsOrNone'
  BY <1>1 DEF IInv, Started, AllBandsOrNone
<1> QED BY <1>11, <1>12, <1>13, <1>14 DEF IInv

\* No more bands, and none of those that were made.
LEMMA GiveUpIInv ==
  ASSUME IInv, pc = "bands", GiveUpBands, failures' \in 0 .. MaxFailures,
         failures' # 0 \/ (row \in DOMAIN BandRows /\ ~HasDataset(BandRows[row].dataset))
  PROVE  IInv'
<1>1. /\ file' = file /\ meris_iodd_version' = meris_iodd_version /\ row' = row
      /\ pt_index' = pt_index /\ bt_index' = bt_index /\ dataset_ids' = dataset_ids
      /\ band_ids' = NULL /\ err' = TRUE /\ pc' = "open"
  BY DEF GiveUpBands
<1>2. band_ids' \in Arrays({}) /\ band_ids'.elems = << >> /\ Len(band_ids'.elems) <= band_ids'.capacity
  BY <1>1, NullFacts
<1>3. BandIds' = {}
  BY <1>2 DEF BandIds, Range
<1>4. DatasetRows' = DatasetRows /\ BandRows' = BandRows /\ \A n : HasDataset(n)' <=> HasDataset(n)
  BY <1>1, SameDatasets, SameBands
<1>5. TypeOK'
  <2>1. \A a \in {dataset_ids', band_ids'} : Len(a.elems) <= a.capacity
    BY <1>1, <1>2 DEF IInv, TypeOK
  <2>2. {b.row : b \in BandIds'} \subseteq DOMAIN BandRows'
    BY <1>3
  <2>3. DatasetIds' = DatasetIds /\ pc' # "bands" /\ pc' # "datasets" /\ err' \in BOOLEAN
    BY <1>1 DEF DatasetIds
  <2> QED BY <1>1, <1>4, <2>1, <2>2, <2>3, ZenonT(20) DEF TypeOK, IInv
<1>6. IsArray(dataset_ids)' /\ (dataset_ids.capacity # 0)' /\ IsArray(band_ids)'
  BY <1>1, <1>2 DEF IInv, IsArray
<1>7. Started' /\ BandsSoFar'
  BY <1>1 DEF Started, BandsSoFar
<1>8. AllBandsOrNone'
  <2>1. failures' # 0 \/ \E i \in DOMAIN BandRows' : ~HasDataset(BandRows[i].dataset)'
    BY <1>4
  <2> QED BY <1>1, <2>1 DEF AllBandsOrNone
<1> QED BY <1>5, <1>6, <1>7, <1>8 DEF IInv

LEMMA MissingDatasetIInv == ASSUME IInv, MissingDataset PROVE IInv'
<1>1. /\ pc = "bands" /\ row <= Len(BandRows) /\ ~HasDataset(BandRows[row].dataset)
      /\ GiveUpBands /\ failures' = failures
  BY DEF MissingDataset, CreatingBands
<1>2. row \in DOMAIN BandRows
  <2>1. Len(BandRows) \in Nat /\ DOMAIN BandRows = 1 .. Len(BandRows)
    BY BandRowsFacts DEF EndsPlain, IsSeq
  <2> QED BY <1>1, <2>1 DEF IInv, TypeOK
<1>3. failures' \in 0 .. MaxFailures
  BY <1>1 DEF IInv, TypeOK
<1>4. failures' # 0 \/ (row \in DOMAIN BandRows /\ ~HasDataset(BandRows[row].dataset))
  BY <1>1, <1>2
<1>5. pc = "bands" /\ GiveUpBands
  BY <1>1
<1> QED BY <1>3, <1>4, <1>5, GiveUpIInv

LEMMA OutOfMemoryIInv == ASSUME IInv, OutOfMemory PROVE IInv'
<1>1. pc = "bands" /\ GiveUpBands /\ failures < MaxFailures /\ failures' = failures + 1
  BY DEF OutOfMemory, CreatingBands
<1>2. failures' \in 0 .. MaxFailures /\ failures' # 0
  BY <1>1, MaxFailuresAssumption DEF IInv, TypeOK
<1> QED BY <1>1, <1>2, GiveUpIInv

\* All rows are done; the last of them left no error.
LEMMA OpenedIInv == ASSUME IInv, Opened PROVE IInv'
<1>1. /\ pc = "bands" /\ row > Len(BandRows) /\ pc' = "open"
      /\ file' = file /\ meris_iodd_version' = meris_iodd_version /\ row' = row
      /\ pt_index' = pt_index /\ bt_index' = bt_index /\ dataset_ids' = dataset_ids
      /\ band_ids' = band_ids /\ err' = err /\ failures' = failures
  BY DEF Opened
<1>2. /\ Len(BandRows) \in Nat \ {0} /\ DOMAIN BandRows = 1 .. Len(BandRows)
      /\ Plain(BandRows[Len(BandRows)])
  BY BandRowsFacts DEF EndsPlain, IsSeq
<1>3. row - 1 = Len(BandRows)
  BY <1>1, <1>2 DEF IInv, TypeOK
<1>4. ~err
  <2>1. Reads(BandRows[row - 1].offset) = {} /\ Reads(BandRows[row - 1].factor) = {}
    BY <1>2, <1>3 DEF Plain, Reads
  <2>2. ~LastLookupFails(BandRows[row - 1])
    BY <2>1 DEF LastLookupFails
  <2> QED BY <1>1, <2>2 DEF IInv, BandsSoFar
<1>5. DatasetRows' = DatasetRows /\ BandRows' = BandRows /\ \A n : HasDataset(n)' <=> HasDataset(n)
  BY <1>1, SameDatasets, SameBands
<1>6. bt_index # 0 /\ band_ids.capacity # 0 /\ \A i \in DOMAIN BandRows : HasDataset(BandRows[i].dataset)
  BY <1>1, <1>2, <1>3 DEF IInv, BandsSoFar
<1>7. AllBandsOrNone'
  <2>1. band_ids' # NULL
    BY <1>1, <1>6, NullFacts
  <2>2. failures' = 0 =>
          [i \in DOMAIN band_ids'.elems |-> band_ids'.elems[i].row] = [i \in DOMAIN BandRows' |-> i]
    BY <1>1, <1>2, <1>3, <1>5 DEF IInv, BandsSoFar, InOrder
  <2>3. bt_index' # 0 /\ ~err' /\ \A i \in DOMAIN BandRows' : HasDataset(BandRows[i].dataset)'
    BY <1>1, <1>4, <1>5, <1>6
  <2> QED BY <2>1, <2>2, <2>3 DEF AllBandsOrNone
<1>8. TypeOK'
  BY <1>1, <1>5 DEF IInv, TypeOK, DatasetIds, BandIds
<1>9. IsArray(dataset_ids)' /\ (dataset_ids.capacity # 0)' /\ IsArray(band_ids)'
  BY <1>1 DEF IInv, IsArray
<1>10. Started' /\ BandsSoFar'
  BY <1>1 DEF Started, BandsSoFar
<1> QED BY <1>7, <1>8, <1>9, <1>10 DEF IInv

LEMMA StutterIInv == ASSUME IInv, UNCHANGED vars PROVE IInv'
<1>1. /\ pc' = pc /\ file' = file /\ meris_iodd_version' = meris_iodd_version /\ row' = row
      /\ pt_index' = pt_index /\ bt_index' = bt_index /\ dataset_ids' = dataset_ids
      /\ band_ids' = band_ids /\ err' = err /\ failures' = failures
  BY DEF vars
<1>2. DatasetRows' = DatasetRows /\ BandRows' = BandRows /\ \A n : HasDataset(n)' <=> HasDataset(n)
  BY <1>1, SameDatasets, SameBands
<1>3. TypeOK'
  BY <1>1, <1>2 DEF IInv, TypeOK, DatasetIds, BandIds
<1>4. IsArray(dataset_ids)' /\ (dataset_ids.capacity # 0)' /\ IsArray(band_ids)' /\ Started'
  BY <1>1 DEF IInv, IsArray, Started
<1>5. BandsSoFar'
  <2>1. LastLookupFails(BandRows[row - 1])' <=> LastLookupFails(BandRows[row - 1])
    BY <1>1, <1>2 DEF LastLookupFails
  <2>2. InOrder' <=> InOrder
    BY <1>1 DEF InOrder
  <2>3. \A i : HasDataset(BandRows[i].dataset)' <=> HasDataset(BandRows[i].dataset)
    BY <1>2
  <2> QED BY <1>1, <2>1, <2>2, <2>3 DEF IInv, BandsSoFar
<1>6. AllBandsOrNone'
  <2>1. \A i : HasDataset(BandRows[i].dataset)' <=> HasDataset(BandRows[i].dataset)
    BY <1>2
  <2> QED BY <1>1, <1>2, <2>1 DEF IInv, AllBandsOrNone
<1> QED BY <1>3, <1>4, <1>5, <1>6 DEF IInv

-----------------------------------------------------------------------------
(***************************************************************************)
(* The descriptors of the datasets.                                        *)
(***************************************************************************)

\* A name that begins the name of another descriptor does not come before it, as
\* in the files of the instruments: "MDS1 SQ ADS" is before "MDS1".
LongerFirst ==
  \A i, j \in DOMAIN file.dsds :
    i < j /\ IsPrefix(file.dsds[i].name, file.dsds[j].name) => file.dsds[i].name = file.dsds[j].name

HasRow(i) == \E d \in DatasetIds : d.row = i

\* Every identifier has the first descriptor that fits its row, and unless memory
\* ran out every row so far that a descriptor fits has an identifier.
FirstFits ==
  /\ \A d \in DatasetIds : /\ Matching(DatasetRows[d.row]) # {}
                           /\ d.dsd = Min(Matching(DatasetRows[d.row]))
  /\ failures = 0 =>
       /\ pc = "datasets" => \A i \in 1 .. row - 1 : Matching(DatasetRows[i]) # {} => HasRow(i)
       /\ pc \in {"bands", "open"} =>
            \A i \in DOMAIN DatasetRows : Matching(DatasetRows[i]) # {} => HasRow(i)

LEMMA InitFirstFits == Init => FirstFits
<1> SUFFICES ASSUME Init PROVE FirstFits
  OBVIOUS
<1>1. DatasetIds = {} /\ pc = "detect"
  BY NewArrayFacts DEF Init, DatasetIds, Range
<1> QED BY <1>1 DEF FirstFits

\* Nothing changes when no dataset is added and the loop does not end.
LEMMA SameFits ==
  ASSUME IInv, FirstFits, file' = file, pt_index' = pt_index, dataset_ids' = dataset_ids,
         failures' \in Nat, failures \in Nat, failures' = 0 => failures = 0,
         pc' # "datasets", pc' \in {"bands", "open"} => pc \in {"bands", "open"}
  PROVE  FirstFits'
<1>1. DatasetRows' = DatasetRows /\ DatasetIds' = DatasetIds
  BY SameDatasets DEF DatasetIds
<1>2. \A r : Matching(r)' = Matching(r)
  BY DEF Matching
<1>3. \A i : HasRow(i)' <=> HasRow(i)
  BY <1>1 DEF HasRow
<1> QED BY <1>1, <1>2, <1>3 DEF FirstFits

\* Before the table is chosen there are no identifiers.
LEMMA StartDatasetsFits == ASSUME IInv, StartDatasets PROVE FirstFits'
<1>1. /\ pc = "tables" /\ row' = row /\ dataset_ids' = dataset_ids /\ pc' \in {"closed", "datasets"}
  BY DEF StartDatasets
<1>2. dataset_ids.elems = << >> /\ row = 1
  BY <1>1 DEF IInv, Started
<1>3. DatasetIds' = {}
  BY <1>1, <1>2 DEF DatasetIds, Range
<1>4. \A i \in 1 .. row' - 1 : FALSE
  BY <1>1, <1>2
<1> QED BY <1>1, <1>3, <1>4 DEF FirstFits

LEMMA SkipDatasetFits == ASSUME IInv, FirstFits, SkipDataset PROVE FirstFits'
<1>1. /\ pc = "datasets" /\ pc' = pc /\ file' = file /\ pt_index' = pt_index /\ dataset_ids' = dataset_ids
      /\ row' = row + 1 /\ failures' = failures /\ Matching(DatasetRows[row]) = {}
  BY DEF SkipDataset, CreatingDatasets
<1>2. DatasetRows' = DatasetRows /\ DatasetIds' = DatasetIds
  BY <1>1, SameDatasets DEF DatasetIds
<1>3. \A r : Matching(r)' = Matching(r)
  BY <1>1 DEF Matching
<1>4. \A i : HasRow(i)' <=> HasRow(i)
  BY <1>2 DEF HasRow
<1>5. row \in Nat \ {0}
  BY DEF IInv, TypeOK
<1>6. ASSUME failures = 0, NEW i \in 1 .. row, Matching(DatasetRows[i]) # {} PROVE HasRow(i)
  <2>1. i \in 1 .. row - 1
    BY <1>1, <1>5, <1>6
  <2> QED BY <1>1, <1>6, <2>1 DEF FirstFits
<1>7. row' - 1 = row
  BY <1>1, <1>5
<1> QED BY <1>1, <1>2, <1>3, <1>4, <1>6, <1>7 DEF FirstFits

\* An element that is appended is in the range, with all those before it.
LEMMA AppendedAll ==
  ASSUME NEW s, IsSeq(s), NEW e
  PROVE  Range(Append(s, e)) = Range(s) \cup {e}
<1>1. PICK S : s \in Seq(S)
  BY DEF IsSeq
<1>2. /\ DOMAIN Append(s, e) = 1 .. Len(s) + 1 /\ DOMAIN s = 1 .. Len(s) /\ Len(s) \in Nat
      /\ Append(s, e)[Len(s) + 1] = e /\ \A i \in 1 .. Len(s) : Append(s, e)[i] = s[i]
  BY <1>1
<1>3. Range(Append(s, e)) \subseteq Range(s) \cup {e}
  BY Appended
<1>4. Len(s) + 1 \in DOMAIN Append(s, e) /\ DOMAIN s \subseteq DOMAIN Append(s, e)
  BY <1>2
<1>5. e \in Range(Append(s, e)) /\ Range(s) \subseteq Range(Append(s, e))
  BY <1>2, <1>4 DEF Range
<1> QED BY <1>3, <1>5

LEMMA AddDatasetFits == ASSUME IInv, FirstFits, AddDataset PROVE FirstFits'
<1> DEFINE r == DatasetRows[row]
           e == [row |-> row, dsd |-> Min(Matching(r))]
<1>1. /\ pc = "datasets" /\ pc' = pc /\ file' = file /\ pt_index' = pt_index
      /\ row' = row + 1 /\ Matching(r) # {}
      /\ dataset_ids' \in AddElem(dataset_ids, e)
      /\ failures' = failures + Lost(dataset_ids, dataset_ids')
  BY DEF AddDataset, CreatingDatasets
<1>2. DatasetRows' = DatasetRows /\ \A x : Matching(x)' = Matching(x)
  BY <1>1, SameDatasets DEF Matching
<1>3. e.row = row /\ e.dsd = Min(Matching(DatasetRows[e.row])) /\ Matching(DatasetRows[e.row]) # {}
  BY <1>1
<1> HIDE DEF r, e
<1>4. PICK S : dataset_ids \in Arrays(S)
  BY DEF IInv, IsArray
<1>5. Len(dataset_ids.elems) <= dataset_ids.capacity /\ dataset_ids.capacity # 0 /\ IsSeq(dataset_ids.elems)
  BY <1>4 DEF IInv, TypeOK, Arrays, IsSeq
<1>6. dataset_ids'.elems = dataset_ids.elems \/ dataset_ids'.elems = Append(dataset_ids.elems, e)
  <2>1. PICK a, b, x : a = dataset_ids /\ b = dataset_ids' /\ x = e
    OBVIOUS
  <2>2. a \in Arrays(S) /\ a.capacity # 0 /\ Len(a.elems) <= a.capacity /\ b \in AddElem(a, x)
    BY <1>1, <1>4, <1>5, <2>1
  <2>3. Added(S, a, x, b)
    BY <2>2, AddElemFacts
  <2> QED BY <2>1, <2>3 DEF Added
<1>7. DatasetIds' \subseteq DatasetIds \cup {e}
  BY <1>5, <1>6, Appended DEF DatasetIds
<1>8. \A d \in DatasetIds' : /\ Matching(DatasetRows[d.row]) # {}
                             /\ d.dsd = Min(Matching(DatasetRows[d.row]))
  BY <1>3, <1>7 DEF FirstFits
<1>9. ASSUME failures' = 0, NEW i \in 1 .. row' - 1, Matching(DatasetRows[i]) # {} PROVE HasRow(i)'
  <2>1. failures = 0 /\ Lost(dataset_ids, dataset_ids') = 0 /\ row \in Nat \ {0}
    BY <1>1, <1>9, MaxFailuresAssumption DEF IInv, TypeOK, Lost
  <2>2. dataset_ids'.elems = Append(dataset_ids.elems, e)
    BY <1>6, <2>1 DEF Lost
  <2>3. DatasetIds' = DatasetIds \cup {e}
    BY <1>5, <2>2, AppendedAll DEF DatasetIds
  <2>4. CASE i = row
    BY <1>3, <2>3, <2>4 DEF HasRow
  <2>5. CASE i \in 1 .. row - 1
    <3>1. HasRow(i)
      BY <1>1, <1>9, <2>1, <2>5 DEF FirstFits
    <3> QED BY <2>3, <3>1 DEF HasRow
  <2> QED BY <1>1, <2>1, <2>4, <2>5
<1> QED BY <1>1, <1>2, <1>8, <1>9 DEF FirstFits

\* The loop ends behind the last row.
LEMMA StartBandsFits == ASSUME IInv, FirstFits, StartBands PROVE FirstFits'
<1>1. /\ pc = "datasets" /\ row > Len(DatasetRows) /\ file' = file /\ pt_index' = pt_index
      /\ dataset_ids' = dataset_ids /\ failures' = failures /\ pc' \in {"bands", "open"}
  BY DEF StartBands
<1>2. DatasetRows' = DatasetRows /\ DatasetIds' = DatasetIds
  BY <1>1, SameDatasets DEF DatasetIds
<1>3. \A r : Matching(r)' = Matching(r)
  BY <1>1 DEF Matching
<1>4. \A i : HasRow(i)' <=> HasRow(i)
  BY <1>2 DEF HasRow
<1>5. DOMAIN DatasetRows \subseteq 1 .. row - 1
  <2>1. Len(DatasetRows) \in Nat /\ DOMAIN DatasetRows = 1 .. Len(DatasetRows)
    BY DatasetRowsFacts DEF IsSeq
  <2> QED BY <1>1, <2>1 DEF IInv, TypeOK
<1>6. failures = 0 => \A i \in DOMAIN DatasetRows : Matching(DatasetRows[i]) # {} => HasRow(i)
  BY <1>1, <1>5 DEF FirstFits
<1> QED BY <1>1, <1>2, <1>3, <1>4, <1>6 DEF FirstFits

LEMMA NextFirstFits == ASSUME IInv, FirstFits, [Next]_vars PROVE FirstFits'
<1>1. failures \in Nat
  BY MaxFailuresAssumption DEF IInv, TypeOK
<1>2. CASE Detect
  BY <1>1, <1>2, SameFits DEF Detect
<1>3. CASE StartDatasets
  BY <1>3, StartDatasetsFits
<1>4. CASE SkipDataset
  BY <1>4, SkipDatasetFits
<1>5. CASE AddDataset
  BY <1>5, AddDatasetFits
<1>6. CASE StartBands
  BY <1>6, StartBandsFits
<1>7. CASE AddBand
  <2> DEFINE r == BandRows[row]
             readOffset == {p \in {"offset"} : \E d \in Reads(r.offset) : HasDataset(d)}
             readFactor == {p \in {"factor"} : \E d \in Reads(r.factor) : HasDataset(d)}
  <2>1. PICK fails \in SUBSET (readOffset \cup readFactor) :
          failures' = failures + Cardinality(fails) + Lost(band_ids, band_ids')
    BY <1>7 DEF AddBand
  <2>2. Cardinality(fails) \in Nat
    BY Failed
  <2>3. failures' \in Nat /\ (failures' = 0 => failures = 0)
    BY <1>1, <2>1, <2>2 DEF Lost
  <2>4. pc = "bands" /\ pc' = pc /\ file' = file /\ pt_index' = pt_index /\ dataset_ids' = dataset_ids
    BY <1>7 DEF AddBand, CreatingBands
  <2> QED BY <1>1, <2>3, <2>4, SameFits
<1>8. CASE MissingDataset
  BY <1>1, <1>8, SameFits DEF MissingDataset, CreatingBands, GiveUpBands
<1>9. CASE OutOfMemory
  BY <1>1, <1>9, SameFits DEF OutOfMemory, CreatingBands, GiveUpBands
<1>10. CASE Opened
  BY <1>1, <1>10, SameFits DEF Opened
<1>11. CASE Ended \/ UNCHANGED vars
  <2>1. /\ pc' = pc /\ file' = file /\ row' = row /\ pt_index' = pt_index
        /\ dataset_ids' = dataset_ids /\ failures' = failures
    BY <1>11 DEF Ended, vars
  <2>2. DatasetRows' = DatasetRows /\ DatasetIds' = DatasetIds
    BY <2>1, SameDatasets DEF DatasetIds
  <2>3. \A r : Matching(r)' = Matching(r)
    BY <2>1 DEF Matching
  <2>4. \A i : HasRow(i)' <=> HasRow(i)
    BY <2>2 DEF HasRow
  <2> QED BY <2>1, <2>2, <2>3, <2>4 DEF FirstFits
<1> QED BY <1>2, <1>3, <1>4, <1>5, <1>6, <1>7, <1>8, <1>9, <1>10, <1>11 DEF Next

\* The first descriptor that fits a name is the one of that name, if the file has it.
LEMMA FirstIsOwn ==
  ASSUME IInv, LongerFirst, NEW r, Named(r.ds_name) # {}
  PROVE  Matching(r) # {} /\ file.dsds[Min(Matching(r))].name = r.ds_name
<1>1. DOMAIN file.dsds \subseteq Nat /\ \A i \in DOMAIN file.dsds : Len(file.dsds[i].name) \in Nat
  <2>1. file.dsds \in Seq(Range(file.dsds)) /\ \A d \in Range(file.dsds) : d.name \in Seq(Range(d.name))
    BY FilesAssumption DEF IInv, TypeOK
  <2>2. \A i \in DOMAIN file.dsds : file.dsds[i] \in Range(file.dsds)
    BY DEF Range
  <2> HIDE DEF Range
  <2>3. DOMAIN file.dsds = 1 .. Len(file.dsds)
    BY <2>1
  <2> QED BY <2>1, <2>2, <2>3
<1>2. PICK j \in DOMAIN file.dsds : file.dsds[j].name = r.ds_name
  BY DEF Named
<1>3. j \in Matching(r)
  BY <1>1, <1>2 DEF Matching, IsPrefix
<1> DEFINE i == Min(Matching(r))
<1>4. i \in Matching(r) /\ i <= j
  <2>1. Matching(r) \subseteq Nat /\ Matching(r) # {}
    BY <1>1, <1>3 DEF Matching
  <2> QED BY <1>3, <2>1, Least
<1>5. i \in DOMAIN file.dsds /\ IsPrefix(file.dsds[i].name, file.dsds[j].name)
  BY <1>2, <1>4 DEF Matching
<1> HIDE DEF i
<1>6. i = j \/ i < j
  BY <1>1, <1>4, <1>5
<1>7. file.dsds[i].name = r.ds_name
  BY <1>2, <1>5, <1>6 DEF LongerFirst
<1> QED BY <1>3, <1>7 DEF i

LEMMA RowIsFound ==
  ASSUME IInv, NEW i, HasRow(i)
  PROVE  HasDataset(DatasetRows[i].id)
<1>1. PICK k \in DOMAIN dataset_ids.elems : dataset_ids.elems[k].row = i
  BY DEF HasRow, DatasetIds, Range
<1> DEFINE S == {m \in DOMAIN dataset_ids.elems :
                   DatasetRows[dataset_ids.elems[m].row].id = DatasetRows[i].id}
<1>2. S \subseteq Nat \ {0}
  <2>1. PICK T : dataset_ids \in Arrays(T)
    BY DEF IInv, IsArray
  <2>2. dataset_ids.elems \in Seq(T)
    BY <2>1 DEF Arrays
  <2> QED BY <2>2
<1>3. k \in S
  BY <1>1
<1> HIDE DEF S
<1>4. Min(S) \in S
  BY <1>2, <1>3, Least
<1>5. First(S) # 0
  BY <1>2, <1>3, <1>4 DEF First
<1> QED BY <1>5 DEF HasDataset, DatasetId, S

LEMMA FitsAreOwn == IInv /\ FirstFits => (LongerFirst => OwnDescriptor)
<1> SUFFICES ASSUME IInv, FirstFits, LongerFirst, pc = "open" PROVE OwnDescriptor
  BY DEF OwnDescriptor
<1>1. ASSUME NEW d \in DatasetIds, Named(DatasetRows[d.row].ds_name) # {}
      PROVE  file.dsds[d.dsd].name = DatasetRows[d.row].ds_name
  BY <1>1, FirstIsOwn DEF FirstFits
<1>2. ASSUME failures = 0, NEW i \in DOMAIN DatasetRows, Named(DatasetRows[i].ds_name) # {}
      PROVE  HasDataset(DatasetRows[i].id)
  <2>1. Matching(DatasetRows[i]) # {}
    BY <1>2, FirstIsOwn
  <2>2. HasRow(i)
    BY <1>2, <2>1 DEF FirstFits
  <2> QED BY <2>2, RowIsFound
<1> QED BY <1>1, <1>2 DEF OwnDescriptor

-----------------------------------------------------------------------------
(***************************************************************************)
(* Sequences and the tuples that tables are written as.                    *)
(***************************************************************************)

LEMMA ConcatAt ==
  ASSUME NEW s, NEW t, IsSeq(s), IsSeq(t)
  PROVE  /\ Len(s) \in Nat /\ Len(t) \in Nat /\ Len(s \o t) = Len(s) + Len(t)
         /\ DOMAIN (s \o t) = 1 .. Len(s) + Len(t)
         /\ \A i \in 1 .. Len(s) : (s \o t)[i] = s[i]
         /\ \A i \in 1 .. Len(t) : (s \o t)[Len(s) + i] = t[i]
<1>1. PICK S : s \in Seq(S)
  BY DEF IsSeq
<1>2. PICK T : t \in Seq(T)
  BY DEF IsSeq
<1>3. s \in Seq(S \cup T) /\ t \in Seq(S \cup T)
  BY <1>1, <1>2
<1> QED BY <1>3

LEMMA RangeConcat ==
  ASSUME NEW s, NEW t, IsSeq(s), IsSeq(t)
  PROVE  IsSeq(s \o t) /\ Range(s \o t) = Range(s) \cup Range(t)
<1>1. PICK S : s \in Seq(S)
  BY DEF IsSeq
<1>2. PICK T : t \in Seq(T)
  BY DEF IsSeq
<1>3. s \in Seq(S \cup T) /\ t \in Seq(S \cup T)
  BY <1>1, <1>2
<1>4. /\ Len(s) \in Nat /\ Len(t) \in Nat /\ DOMAIN s = 1 .. Len(s) /\ DOMAIN t = 1 .. Len(t)
      /\ DOMAIN (s \o t) = 1 .. Len(s) + Len(t)
      /\ \A i \in 1 .. Len(s) : (s \o t)[i] = s[i]
      /\ \A i \in 1 .. Len(t) : (s \o t)[Len(s) + i] = t[i]
  BY <1>3
<1>5. ASSUME NEW i \in 1 .. Len(s) + Len(t), i \notin 1 .. Len(s) PROVE \E j \in 1 .. Len(t) : i = Len(s) + j
  <2>1. i - Len(s) \in 1 .. Len(t) /\ i = Len(s) + (i - Len(s))
    BY <1>4, <1>5
  <2> QED BY <2>1
<1>6. \A j \in 1 .. Len(t) : Len(s) + j \in 1 .. Len(s) + Len(t)
  BY <1>4
<1>7. \A i \in 1 .. Len(s) : i \in 1 .. Len(s) + Len(t)
  BY <1>4
<1>8. Range(s \o t) \subseteq Range(s) \cup Range(t)
  <2>1. ASSUME NEW i \in 1 .. Len(s) + Len(t) PROVE (s \o t)[i] \in Range(s) \cup Range(t)
    <3>1. CASE i \in 1 .. Len(s)
      BY <1>4, <3>1 DEF Range
    <3>2. CASE i \notin 1 .. Len(s)
      BY <1>4, <1>5, <3>2 DEF Range
    <3> QED BY <3>1, <3>2
  <2> QED BY <1>4, <2>1 DEF Range
<1>9. Range(s) \subseteq Range(s \o t) /\ Range(t) \subseteq Range(s \o t)
  BY <1>4, <1>6, <1>7 DEF Range
<1> QED BY <1>8, <1>9, Concatenation

LEMMA Tuple1 ==
  ASSUME NEW a
  PROVE  IsSeq(<<a>>) /\ Range(<<a>>) = {a}
<1> DEFINE s == <<a>>
<1>1. /\ DOMAIN s = 1 .. 1
      /\ s[1] = a
  OBVIOUS
<1>2. s \in Seq({a})
  OBVIOUS
<1> HIDE DEF s
<1>3. \A x : x \in 1 .. 1 <=> x = 1
  OBVIOUS
<1>4. Range(s) = {a}
  <2>1. Range(s) \subseteq {a}
    BY <1>1, <1>3 DEF Range
  <2>2. \A x \in {a} : \E y \in DOMAIN s : x = s[y]
    BY <1>1, <1>3
  <2> QED BY <2>1, <2>2 DEF Range
<1>5. IsSeq(s)
  BY <1>2 DEF IsSeq
<1> QED BY <1>4, <1>5 DEF s

LEMMA Tuple2 ==
  ASSUME NEW a, NEW b
  PROVE  IsSeq(<<a, b>>) /\ Range(<<a, b>>) = {a, b}
<1> DEFINE s == <<a, b>>
<1>1. /\ DOMAIN s = 1 .. 2
      /\ s[1] = a /\ s[2] = b
  OBVIOUS
<1>2. s \in Seq({a, b})
  OBVIOUS
<1> HIDE DEF s
<1>3. \A x : x \in 1 .. 2 <=> x = 1 \/ x = 2
  OBVIOUS
<1>4. Range(s) = {a, b}
  <2>1. Range(s) \subseteq {a, b}
    BY <1>1, <1>3 DEF Range
  <2>2. \A x \in {a, b} : \E y \in DOMAIN s : x = s[y]
    BY <1>1, <1>3
  <2> QED BY <2>1, <2>2 DEF Range
<1>5. IsSeq(s)
  BY <1>2 DEF IsSeq
<1> QED BY <1>4, <1>5 DEF s

LEMMA Tuple3 ==
  ASSUME NEW a, NEW b, NEW c
  PROVE  IsSeq(<<a, b, c>>) /\ Range(<<a, b, c>>) = {a, b, c}
<1> DEFINE s == <<a, b, c>>
<1>1. /\ DOMAIN s = 1 .. 3
      /\ s[1] = a /\ s[2] = b /\ s[3] = c
  OBVIOUS
<1>2. s \in Seq({a, b, c})
  OBVIOUS
<1> HIDE DEF s
<1>3. \A x : x \in 1 .. 3 <=> x = 1 \/ x = 2 \/ x = 3
  OBVIOUS
<1>4. Range(s) = {a, b, c}
  <2>1. Range(s) \subseteq {a, b, c}
    BY <1>1, <1>3 DEF Range
  <2>2. \A x \in {a, b, c} : \E y \in DOMAIN s : x = s[y]
    BY <1>1, <1>3
  <2> QED BY <2>1, <2>2 DEF Range
<1>5. IsSeq(s)
  BY <1>2 DEF IsSeq
<1> QED BY <1>4, <1>5 DEF s

LEMMA Tuple5 ==
  ASSUME NEW a, NEW b, NEW c, NEW d, NEW e
  PROVE  IsSeq(<<a, b, c, d, e>>) /\ Range(<<a, b, c, d, e>>) = {a, b, c, d, e}
<1> DEFINE s == <<a, b, c, d, e>>
<1>1. /\ DOMAIN s = 1 .. 5
      /\ s[1] = a /\ s[2] = b /\ s[3] = c /\ s[4] = d /\ s[5] = e
  OBVIOUS
<1>2. s \in Seq({a, b, c, d, e})
  OBVIOUS
<1> HIDE DEF s
<1>3. \A x : x \in 1 .. 5 <=> x = 1 \/ x = 2 \/ x = 3 \/ x = 4 \/ x = 5
  OBVIOUS
<1>4. Range(s) = {a, b, c, d, e}
  <2>1. Range(s) \subseteq {a, b, c, d, e}
    BY <1>1, <1>3 DEF Range
  <2>2. \A x \in {a, b, c, d, e} : \E y \in DOMAIN s : x = s[y]
    BY <1>1, <1>3
  <2> QED BY <2>1, <2>2 DEF Range
<1>5. IsSeq(s)
  BY <1>2 DEF IsSeq
<1> QED BY <1>4, <1>5 DEF s

LEMMA Tuple6 ==
  ASSUME NEW a, NEW b, NEW c, NEW d, NEW e, NEW f
  PROVE  IsSeq(<<a, b, c, d, e, f>>) /\ Range(<<a, b, c, d, e, f>>) = {a, b, c, d, e, f}
<1> DEFINE s == <<a, b, c, d, e, f>>
<1>1. /\ DOMAIN s = 1 .. 6
      /\ s[1] = a /\ s[2] = b /\ s[3] = c /\ s[4] = d /\ s[5] = e /\ s[6] = f
  OBVIOUS
<1>2. s \in Seq({a, b, c, d, e, f})
  OBVIOUS
<1> HIDE DEF s
<1>3. \A x : x \in 1 .. 6 <=> x = 1 \/ x = 2 \/ x = 3 \/ x = 4 \/ x = 5 \/ x = 6
  OBVIOUS
<1>4. Range(s) = {a, b, c, d, e, f}
  <2>1. Range(s) \subseteq {a, b, c, d, e, f}
    BY <1>1, <1>3 DEF Range
  <2>2. \A x \in {a, b, c, d, e, f} : \E y \in DOMAIN s : x = s[y]
    BY <1>1, <1>3
  <2> QED BY <2>1, <2>2 DEF Range
<1>5. IsSeq(s)
  BY <1>2 DEF IsSeq
<1> QED BY <1>4, <1>5 DEF s

LEMMA Tuple7 ==
  ASSUME NEW a, NEW b, NEW c, NEW d, NEW e, NEW f, NEW g
  PROVE  IsSeq(<<a, b, c, d, e, f, g>>) /\ Range(<<a, b, c, d, e, f, g>>) = {a, b, c, d, e, f, g}
<1> DEFINE s == <<a, b, c, d, e, f, g>>
<1>1. /\ DOMAIN s = 1 .. 7
      /\ s[1] = a /\ s[2] = b /\ s[3] = c /\ s[4] = d /\ s[5] = e /\ s[6] = f /\ s[7] = g
  OBVIOUS
<1>2. s \in Seq({a, b, c, d, e, f, g})
  OBVIOUS
<1> HIDE DEF s
<1>3. \A x : x \in 1 .. 7 <=> x = 1 \/ x = 2 \/ x = 3 \/ x = 4 \/ x = 5 \/ x = 6 \/ x = 7
  OBVIOUS
<1>4. Range(s) = {a, b, c, d, e, f, g}
  <2>1. Range(s) \subseteq {a, b, c, d, e, f, g}
    BY <1>1, <1>3 DEF Range
  <2>2. \A x \in {a, b, c, d, e, f, g} : \E y \in DOMAIN s : x = s[y]
    BY <1>1, <1>3
  <2> QED BY <2>1, <2>2 DEF Range
<1>5. IsSeq(s)
  BY <1>2 DEF IsSeq
<1> QED BY <1>4, <1>5 DEF s

LEMMA Tuple8 ==
  ASSUME NEW a, NEW b, NEW c, NEW d, NEW e, NEW f, NEW g, NEW h
  PROVE  IsSeq(<<a, b, c, d, e, f, g, h>>) /\ Range(<<a, b, c, d, e, f, g, h>>) = {a, b, c, d, e, f, g, h}
<1> DEFINE s == <<a, b, c, d, e, f, g, h>>
<1>1. /\ DOMAIN s = 1 .. 8
      /\ s[1] = a /\ s[2] = b /\ s[3] = c /\ s[4] = d /\ s[5] = e /\ s[6] = f /\ s[7] = g /\ s[8] = h
  OBVIOUS
<1>2. s \in Seq({a, b, c, d, e, f, g, h})
  OBVIOUS
<1> HIDE DEF s
<1>3. \A x : x \in 1 .. 8 <=> x = 1 \/ x = 2 \/ x = 3 \/ x = 4 \/ x = 5 \/ x = 6 \/ x = 7 \/ x = 8
  OBVIOUS
<1>4. Range(s) = {a, b, c, d, e, f, g, h}
  <2>1. Range(s) \subseteq {a, b, c, d, e, f, g, h}
    BY <1>1, <1>3 DEF Range
  <2>2. \A x \in {a, b, c, d, e, f, g, h} : \E y \in DOMAIN s : x = s[y]
    BY <1>1, <1>3
  <2> QED BY <2>1, <2>2 DEF Range
<1>5. IsSeq(s)
  BY <1>2 DEF IsSeq
<1> QED BY <1>4, <1>5 DEF s

LEMMA Tuple11 ==
  ASSUME NEW a, NEW b, NEW c, NEW d, NEW e, NEW f, NEW g, NEW h, NEW i, NEW j, NEW k
  PROVE  IsSeq(<<a, b, c, d, e, f, g, h, i, j, k>>) /\ Range(<<a, b, c, d, e, f, g, h, i, j, k>>) = {a, b, c, d, e, f, g, h, i, j, k}
<1> DEFINE s == <<a, b, c, d, e, f, g, h, i, j, k>>
<1>1. /\ DOMAIN s = 1 .. 11
      /\ s[1] = a /\ s[2] = b /\ s[3] = c /\ s[4] = d /\ s[5] = e /\ s[6] = f /\ s[7] = g /\ s[8] = h /\ s[9] = i /\ s[10] = j /\ s[11] = k
  OBVIOUS
<1>2. s \in Seq({a, b, c, d, e, f, g, h, i, j, k})
  OBVIOUS
<1> HIDE DEF s
<1>3. \A x : x \in 1 .. 11 <=> x = 1 \/ x = 2 \/ x = 3 \/ x = 4 \/ x = 5 \/ x = 6 \/ x = 7 \/ x = 8 \/ x = 9 \/ x = 10 \/ x = 11
  OBVIOUS
<1>4. Range(s) = {a, b, c, d, e, f, g, h, i, j, k}
  <2>1. Range(s) \subseteq {a, b, c, d, e, f, g, h, i, j, k}
    BY <1>1, <1>3 DEF Range
  <2>2. \A x \in {a, b, c, d, e, f, g, h, i, j, k} : \E y \in DOMAIN s : x = s[y]
    BY <1>1, <1>3
  <2> QED BY <2>1, <2>2 DEF Range
<1>5. IsSeq(s)
  BY <1>2 DEF IsSeq
<1> QED BY <1>4, <1>5 DEF s

-----------------------------------------------------------------------------
(***************************************************************************)
(* The records that bands refer to.                                        *)
(***************************************************************************)

LEMMA AfterBegin ==
  ASSUME NEW t, IsSeq(t), NEW n \in Nat, Len(t) = n
  PROVE  /\ DOMAIN (Begin \o t) = 1 .. n + 2 /\ Len(Begin \o t) = n + 2
         /\ (Begin \o t)[1] = Field(1, 12) /\ (Begin \o t)[2] = Field(1, 1)
         /\ \A i \in 1 .. n : (Begin \o t)[2 + i] = t[i]
<1>1. IsSeq(Begin) /\ Len(Begin) = 2 /\ Begin[1] = Field(1, 12) /\ Begin[2] = Field(1, 1)
  BY Tuple2 DEF Begin
<1>2. /\ DOMAIN (Begin \o t) = 1 .. 2 + n /\ Len(Begin \o t) = 2 + n
      /\ \A i \in 1 .. 2 : (Begin \o t)[i] = Begin[i]
      /\ \A i \in 1 .. n : (Begin \o t)[2 + i] = t[i]
  BY <1>1, ConcatAt
<1>3. 2 + n = n + 2 /\ 1 \in 1 .. 2 /\ 2 \in 1 .. 2
  OBVIOUS
<1> QED BY <1>1, <1>2, <1>3

\* The field of a band is in a record, with the elements it takes for each pixel
\* or tie point.
Readings(b) == {PerPixel(b) * SceneRasterWidth, TiePointGridWidth, 11}

FieldFits(b, rec) == b.field \in DOMAIN rec /\ rec[b.field].num \in Readings(b)

LEMMA PixelRecords ==
  /\ DOMAIN MER_RR__1P_MDSR_16 = 1 .. 4
  /\ MER_RR__1P_MDSR_16[3].num = SceneRasterWidth /\ MER_RR__1P_MDSR_16[4].num = SceneRasterWidth
  /\ DOMAIN MER_RR__1P_MDSR_16_IODD5 = 1 .. 3 /\ MER_RR__1P_MDSR_16_IODD5[3].num = 2 * SceneRasterWidth
  /\ DOMAIN MER_RR__1P_MDSR_1_15 = 1 .. 3 /\ MER_RR__1P_MDSR_1_15[3].num = SceneRasterWidth
  /\ DOMAIN MER_RR__2P_MDSR_1_13 = 1 .. 3 /\ MER_RR__2P_MDSR_1_13[3].num = SceneRasterWidth
  /\ DOMAIN MER_RR__2P_MDSR_14 = 1 .. 3 /\ MER_RR__2P_MDSR_14[3].num = SceneRasterWidth
  /\ DOMAIN MER_RR__2P_MDSR_16 = 1 .. 3 /\ MER_RR__2P_MDSR_16[3].num = 2 * SceneRasterWidth
  /\ DOMAIN MER_RR__2P_MDSR_20 = 1 .. 3 /\ MER_RR__2P_MDSR_20[3].num = 3 * SceneRasterWidth
  /\ DOMAIN ASAR_Image_MDSR_Gen = 1 .. 4 /\ ASAR_Image_MDSR_Gen[4].num = SceneRasterWidth
<1> USE WidthsAssumption
<1>1. ASSUME NEW x PROVE DOMAIN (Begin \o <<x>>) = 1 .. 3 /\ (Begin \o <<x>>)[3] = x
  <2>1. IsSeq(<<x>>) /\ Len(<<x>>) = 1 /\ <<x>>[1] = x
    BY Tuple1
  <2>2. 1 \in 1 .. 1 /\ 2 + 1 = 3 /\ 1 + 2 = 3
    OBVIOUS
  <2> QED BY <2>1, <2>2, AfterBegin
<1>2. ASSUME NEW x, NEW y
      PROVE  DOMAIN (Begin \o <<x, y>>) = 1 .. 4 /\ (Begin \o <<x, y>>)[3] = x /\ (Begin \o <<x, y>>)[4] = y
  <2> DEFINE t == <<x, y>>
  <2>1. IsSeq(t) /\ Len(t) = 2 /\ t[1] = x /\ t[2] = y
    BY Tuple2
  <2>2. 1 \in 1 .. 2 /\ 2 \in 1 .. 2 /\ 2 + 1 = 3 /\ 2 + 2 = 4
    OBVIOUS
  <2> HIDE DEF t
  <2>3. DOMAIN (Begin \o t) = 1 .. 2 + 2 /\ \A i \in 1 .. 2 : (Begin \o t)[2 + i] = t[i]
    BY <2>1, AfterBegin
  <2>4. DOMAIN (Begin \o t) = 1 .. 4 /\ (Begin \o t)[2 + 1] = x /\ (Begin \o t)[2 + 2] = y
    BY <2>1, <2>2, <2>3
  <2> QED BY <2>2, <2>4 DEF t
<1>3. \A n : Pixels(n).num = n * SceneRasterWidth
  BY DEF Pixels, Field
<1>4. Field(SceneRasterWidth, 2).num = SceneRasterWidth
  BY DEF Field
<1> QED BY <1>1, <1>2, <1>3, <1>4
     DEF MER_RR__1P_MDSR_16, MER_RR__1P_MDSR_16_IODD5, MER_RR__1P_MDSR_1_15, MER_RR__2P_MDSR_1_13,
         MER_RR__2P_MDSR_14, MER_RR__2P_MDSR_16, MER_RR__2P_MDSR_20, ASAR_Image_MDSR_Gen

LEMMA TiePointRecord ==
  /\ DOMAIN MER_RR__1P_ADSR_tie_pt = 1 .. 17
  /\ \A f \in 3 .. 17 : MER_RR__1P_ADSR_tie_pt[f].num = TiePointGridWidth
<1> DEFINE t == [i \in 1 .. 15 |-> Field(TiePointGridWidth, IF i < 11 THEN 4 ELSE 2)]
<1>1. IsSeq(t) /\ Len(t) = 15
  <2>1. t \in Seq({t[i] : i \in 1 .. 15}) /\ Len(t) = 15
    OBVIOUS
  <2> HIDE DEF t
  <2> QED BY <2>1 DEF IsSeq
<1>2. \A i \in 1 .. 15 : t[i].num = TiePointGridWidth
  BY DEF Field
<1> HIDE DEF t
<1>3. MER_RR__1P_ADSR_tie_pt = Begin \o t
  BY DEF MER_RR__1P_ADSR_tie_pt, t
<1>4. DOMAIN MER_RR__1P_ADSR_tie_pt = 1 .. 17 /\ \A i \in 1 .. 15 : MER_RR__1P_ADSR_tie_pt[2 + i] = t[i]
  <2>1. 15 + 2 = 17 /\ 15 \in Nat
    OBVIOUS
  <2> QED BY <1>1, <1>3, <2>1, AfterBegin
<1>5. ASSUME NEW f \in 3 .. 17 PROVE MER_RR__1P_ADSR_tie_pt[f].num = TiePointGridWidth
  <2>1. f - 2 \in 1 .. 15 /\ 2 + (f - 2) = f
    OBVIOUS
  <2> QED BY <1>2, <1>4, <2>1
<1> QED BY <1>4, <1>5

\* A number, or an element that the scaling factors have.
InRecord(s, rec) ==
  \/ IsNumber(s)
  \/ s = GADS(s[2], s[3]) /\ s[2] \in DOMAIN rec /\ s[3] \in 1 .. rec[s[2]].num

LEMMA ScalingRecords ==
  /\ DOMAIN MER_RR__1P_GADS_sfgi = 1 .. 12
  /\ \A f \in 1 .. 7 : MER_RR__1P_GADS_sfgi[f].num = 1
  /\ MER_RR__1P_GADS_sfgi[8].num = 15
  /\ DOMAIN MER_RR__2P_GADS_sfgi = 1 .. 43
  /\ \A f \in 1 .. 43 : MER_RR__2P_GADS_sfgi[f].num \in Nat \ {0}
  /\ MER_RR__2P_GADS_sfgi[8].num = 13 /\ MER_RR__2P_GADS_sfgi[22].num = 13
<1> DEFINE s == [i \in 1 .. 7 |-> Field(1, 4)]
           t == << Field(15, 4), Field(80, 1), Field(1, 4), Field(15, 4), Field(1, 60) >>
<1>1. s \in Seq({Field(1, 4)}) /\ Len(s) = 7 /\ \A f \in 1 .. 7 : s[f].num = 1
  BY DEF Field
<1>2. t \in Seq({Field(15, 4), Field(80, 1), Field(1, 4), Field(1, 60)}) /\ Len(t) = 5 /\ t[1].num = 15
  BY DEF Field
<1>3. MER_RR__1P_GADS_sfgi = s \o t
  BY DEF MER_RR__1P_GADS_sfgi
<1> HIDE DEF s, t
<1>4. IsSeq(s) /\ IsSeq(t)
  BY <1>1, <1>2 DEF IsSeq
<1>5. DOMAIN (s \o t) = 1 .. 12 /\ (\A f \in 1 .. 7 : (s \o t)[f] = s[f]) /\ (s \o t)[8] = t[1]
  <2>1. /\ DOMAIN (s \o t) = 1 .. Len(s) + Len(t)
        /\ \A i \in 1 .. Len(s) : (s \o t)[i] = s[i]
        /\ \A i \in 1 .. Len(t) : (s \o t)[Len(s) + i] = t[i]
    BY <1>4, ConcatAt
  <2>2. 7 + 5 = 12 /\ 7 + 1 = 8 /\ 1 \in 1 .. 5
    OBVIOUS
  <2> QED BY <1>1, <1>2, <2>1, <2>2
<1>6. /\ DOMAIN MER_RR__2P_GADS_sfgi = 1 .. 43
      /\ \A f \in 1 .. 43 : MER_RR__2P_GADS_sfgi[f].num \in Nat \ {0}
      /\ MER_RR__2P_GADS_sfgi[8].num = 13 /\ MER_RR__2P_GADS_sfgi[22].num = 13
  BY DEF MER_RR__2P_GADS_sfgi, Field
<1> QED BY <1>1, <1>2, <1>3, <1>5, <1>6

LEMMA GridRecord == \A f \in 7 .. 10 : f \in DOMAIN ASAR_Geo_Grid_ADSR /\ ASAR_Geo_Grid_ADSR[f].num = 11
<1> DEFINE HasGrid(s) == IsSeq(s) /\ Len(s) >= 10 /\ \A f \in 7 .. 10 : s[f].num = 11
           a == << Field(1, 4), Field(1, 4), Field(1, 4) >>
<1>1. ASSUME NEW s, NEW t, HasGrid(s), IsSeq(t) PROVE HasGrid(s \o t)
  <2>1. IsSeq(s \o t)
    BY <1>1, Concatenation
  <2>2. /\ Len(s) \in Nat /\ Len(t) \in Nat /\ Len(s \o t) = Len(s) + Len(t)
        /\ \A i \in 1 .. Len(s) : (s \o t)[i] = s[i]
    BY <1>1, ConcatAt
  <2>3. Len(s \o t) >= 10 /\ \A f \in 7 .. 10 : f \in 1 .. Len(s)
    BY <1>1, <2>2
  <2> QED BY <1>1, <2>1, <2>2, <2>3
<1>2. IsSeq(a) /\ Len(a) = 3
  BY Tuple3
<1>3. /\ IsSeq(TiePointFields) /\ Len(TiePointFields) = 5
      /\ \A i \in 1 .. 5 : TiePointFields[i].num = 11
  <2>1. TiePointFields \in Seq({Field(11, 4)}) /\ Len(TiePointFields) = 5
    BY DEF TiePointFields
  <2>2. \A i \in 1 .. 5 : TiePointFields[i] = Field(11, 4)
    BY <2>1
  <2> QED BY <2>1, <2>2 DEF IsSeq, Field
<1>4. \A n, m : IsSeq(<<Field(n, m)>>)
  BY Tuple1
<1>5. IsSeq(Begin)
  BY Tuple2 DEF Begin
<1> DEFINE b == Begin \o a
<1>6. IsSeq(b) /\ Len(b) = 5
  <2>1. 3 + 2 = 5
    OBVIOUS
  <2> QED BY <1>2, <1>5, <2>1, AfterBegin, Concatenation
<1>7. ASAR_Geo_Grid_ADSR =
        ((((b \o TiePointFields) \o <<Field(1, 22)>>) \o <<Field(1, 12)>>) \o TiePointFields) \o <<Field(1, 22)>>
  BY DEF ASAR_Geo_Grid_ADSR
<1> HIDE DEF a, b
<1>8. HasGrid(b \o TiePointFields)
  <2>1. IsSeq(b \o TiePointFields)
    BY <1>3, <1>6, Concatenation
  <2>2. /\ Len(b \o TiePointFields) = Len(b) + Len(TiePointFields)
        /\ \A i \in 1 .. Len(TiePointFields) : (b \o TiePointFields)[Len(b) + i] = TiePointFields[i]
    <3>1. IsSeq(b) /\ IsSeq(TiePointFields)
      BY <1>3, <1>6
    <3> QED BY <3>1, ConcatAt
  <2>3. \A f \in 7 .. 10 : f - 5 \in 1 .. 5 /\ 5 + (f - 5) = f
    OBVIOUS
  <2>4. Len(b \o TiePointFields) = 10 /\ \A i \in 1 .. 5 : (b \o TiePointFields)[5 + i] = TiePointFields[i]
    BY <1>3, <1>6, <2>2
  <2>5. ASSUME NEW f \in 7 .. 10 PROVE (b \o TiePointFields)[f].num = 11
    <3>1. PICK i \in 1 .. 5 : 5 + i = f
      BY <2>3
    <3>2. (b \o TiePointFields)[f] = TiePointFields[i]
      BY <2>4, <3>1
    <3> QED BY <1>3, <3>2
  <2> QED BY <2>1, <2>4, <2>5
<1> HIDE DEF HasGrid
<1>9. HasGrid(ASAR_Geo_Grid_ADSR)
  BY <1>1, <1>3, <1>4, <1>7, <1>8
<1>10. /\ Len(ASAR_Geo_Grid_ADSR) \in Nat /\ DOMAIN ASAR_Geo_Grid_ADSR = 1 .. Len(ASAR_Geo_Grid_ADSR)
       /\ Len(ASAR_Geo_Grid_ADSR) >= 10 /\ \A f \in 7 .. 10 : ASAR_Geo_Grid_ADSR[f].num = 11
  BY <1>9 DEF HasGrid, IsSeq
<1> QED BY <1>10

-----------------------------------------------------------------------------
(***************************************************************************)
(* The rows of the dataset tables.  The record of a row follows from its   *)
(* name in the library, and from its name in the file.                     *)
(***************************************************************************)

LEMMA NumberedIds ==
  /\ \A i \in 1 .. 15 : RadianceIds[i] \notin {"Quality_ADS", "Scaling_Factor_GADS", "Tie_points_ADS", "Flags"}
  /\ \A i \in 1 .. 13 : NormRhoSurfIds[i] \notin
       {"Quality_ADS", "Scaling_Factor_GADS", "Tie_points_ADS", "Vapour_Content", "Chl_1_TOAVI_CTP",
        "YS_SPM_Rect_rho", "Chl_2_BOAVI", "Press_PAR_Alb", "Alpha_OPT", "Epsilon_OPT", "Flags"}
  BY DEF RadianceIds, NormRhoSurfIds

LEMMA AnnotationRange ==
  ASSUME NEW sq, NEW gads
  PROVE  LET quality == DatasetRow("Quality_ADS", <<"Quality ADS">>, sq)
             scaling == DatasetRow("Scaling_Factor_GADS", <<"Scaling Factor GADS">>, gads)
             tiepts  == DatasetRow("Tie_points_ADS", <<"Tie points ADS">>, MER_RR__1P_ADSR_tie_pt)
         IN  IsSeq(AnnotationRows(sq, gads)) /\ Range(AnnotationRows(sq, gads)) = {quality, scaling, tiepts}
<1> DEFINE quality == DatasetRow("Quality_ADS", <<"Quality ADS">>, sq)
           scaling == DatasetRow("Scaling_Factor_GADS", <<"Scaling Factor GADS">>, gads)
           tiepts  == DatasetRow("Tie_points_ADS", <<"Tie points ADS">>, MER_RR__1P_ADSR_tie_pt)
<1>1. AnnotationRows(sq, gads) = <<quality, scaling, tiepts>>
  BY DEF AnnotationRows
<1> HIDE DEF quality, scaling, tiepts
<1>2. IsSeq(AnnotationRows(sq, gads)) /\ Range(AnnotationRows(sq, gads)) = {quality, scaling, tiepts}
  BY <1>1, Tuple3
<1> QED BY <1>2 DEF quality, scaling, tiepts

ScalingName == <<"Scaling Factor GADS">>

Level1Row(r, flags) ==
  \/ r.id = "Quality_ADS" /\ r.ds_name[1] = "Quality ADS" /\ r.rec = MER_RR__1P_ADSR_sq
  \/ /\ r.id = "Scaling_Factor_GADS" /\ r.ds_name[1] = "Scaling Factor GADS" /\ r.ds_name = ScalingName
     /\ r.rec = MER_RR__1P_GADS_sfgi
  \/ r.id = "Tie_points_ADS" /\ r.ds_name[1] = "Tie points ADS" /\ r.rec = MER_RR__1P_ADSR_tie_pt
  \/ /\ r.id \in {RadianceIds[i] : i \in 1 .. 15} /\ r.ds_name[1] = "Radiance MDS"
     /\ r.rec = MER_RR__1P_MDSR_1_15
  \/ r.id = "Flags" /\ r.ds_name = FlagsMDS16 /\ r.rec = flags

LEMMA Level1Table ==
  ASSUME NEW flags
  PROVE  /\ \A r \in Range(Level1Rows(flags)) : Level1Row(r, flags)
         /\ \E r \in Range(Level1Rows(flags)) : r.id = "Flags"
<1> DEFINE radiance(i) == DatasetRow(RadianceIds[i], <<"Radiance MDS", "(" \o ToString(i) \o ")">>,
                                     MER_RR__1P_MDSR_1_15)
           s == [i \in 1 .. 15 |-> radiance(i)]
           a == AnnotationRows(MER_RR__1P_ADSR_sq, MER_RR__1P_GADS_sfgi)
           f == <<DatasetRow("Flags", FlagsMDS16, flags)>>
<1>1. IsSeq(s)
  BY FunctionIsSeq
<1>2. ASSUME NEW r \in Range(s) PROVE Level1Row(r, flags)
  <2>1. PICK i \in 1 .. 15 : r = radiance(i)
    BY <1>2 DEF Range
  <2>2. r.id = RadianceIds[i] /\ r.ds_name[1] = "Radiance MDS" /\ r.rec = MER_RR__1P_MDSR_1_15
    BY <2>1 DEF DatasetRow
  <2> QED BY <2>2 DEF Level1Row
<1> HIDE DEF s
<1>3. IsSeq(a) /\ IsSeq(f) /\ Range(f) = {DatasetRow("Flags", FlagsMDS16, flags)}
  BY AnnotationRange, Tuple1
<1>4. Range(Level1Rows(flags)) = (Range(a) \cup Range(s)) \cup Range(f)
  <2>1. Level1Rows(flags) = (a \o s) \o f
    BY DEF Level1Rows, s
  <2> HIDE DEF a, f
  <2> QED BY <1>1, <1>3, <2>1, RangeConcat
<1>5. ASSUME NEW r \in Range(a) PROVE Level1Row(r, flags)
  <2>1. CASE r = DatasetRow("Quality_ADS", <<"Quality ADS">>, MER_RR__1P_ADSR_sq)
    BY <2>1 DEF DatasetRow, Level1Row
  <2>2. CASE r = DatasetRow("Scaling_Factor_GADS", <<"Scaling Factor GADS">>, MER_RR__1P_GADS_sfgi)
    BY <2>2 DEF DatasetRow, Level1Row, ScalingName
  <2>3. CASE r = DatasetRow("Tie_points_ADS", <<"Tie points ADS">>, MER_RR__1P_ADSR_tie_pt)
    BY <2>3 DEF DatasetRow, Level1Row
  <2> QED BY <1>5, <2>1, <2>2, <2>3, AnnotationRange
<1>6. ASSUME NEW r \in Range(f) PROVE Level1Row(r, flags) /\ r.id = "Flags"
  <2>1. r = DatasetRow("Flags", FlagsMDS16, flags)
    BY <1>3, <1>6
  <2> QED BY <2>1 DEF DatasetRow, Level1Row
<1>7. DatasetRow("Flags", FlagsMDS16, flags) \in Range(f)
  BY <1>3
<1> QED BY <1>2, <1>4, <1>5, <1>6, <1>7

\* Edition 6 calls row 19 Epsilon instead of Alpha.
Level2Row(r, id19, name19) ==
  \/ r.id = "Quality_ADS" /\ r.ds_name[1] = "Quality ADS" /\ r.rec = MER_RR__2P_ADSR_sq
  \/ /\ r.id = "Scaling_Factor_GADS" /\ r.ds_name[1] = "Scaling Factor GADS" /\ r.ds_name = ScalingName
     /\ r.rec = MER_RR__2P_GADS_sfgi
  \/ r.id = "Tie_points_ADS" /\ r.ds_name[1] = "Tie points ADS" /\ r.rec = MER_RR__1P_ADSR_tie_pt
  \/ /\ r.id \in {NormRhoSurfIds[i] : i \in 1 .. 13} /\ r.ds_name[1] = "Norm. rho_surf"
     /\ r.rec = MER_RR__2P_MDSR_1_13
  \/ r.id = "Vapour_Content"  /\ r.ds_name[1] = "Vapour Content" /\ r.rec = MER_RR__2P_MDSR_14
  \/ r.id = "Chl_1_TOAVI_CTP" /\ r.ds_name[1] = "Chl_1, TOAVI" /\ r.rec = MER_RR__2P_MDSR_14
  \/ r.id = "YS_SPM_Rect_rho" /\ r.ds_name[1] = "YS, SPM, Rect. Rho" /\ r.rec = MER_RR__2P_MDSR_16
  \/ r.id = "Chl_2_BOAVI"     /\ r.ds_name[1] = "Chl_2, BOAVI" /\ r.rec = MER_RR__2P_MDSR_14
  \/ r.id = "Press_PAR_Alb"   /\ r.ds_name[1] = "Press PAR Alb" /\ r.rec = MER_RR__2P_MDSR_14
  \/ r.id = id19 /\ r.ds_name = name19 /\ r.rec = MER_RR__2P_MDSR_16
  \/ r.id = "Flags" /\ r.ds_name[1] = "Flags" /\ r.rec = MER_RR__2P_MDSR_20

LEMMA Level2Table ==
  ASSUME NEW id19, NEW name19, NEW r \in Range(Level2Rows(id19, name19))
  PROVE  Level2Row(r, id19, name19)
<1> DEFINE reflectance(i) == DatasetRow(NormRhoSurfIds[i], <<"Norm. rho_surf", "MDS(" \o ToString(i) \o ")">>,
                                        MER_RR__2P_MDSR_1_13)
           s == [i \in 1 .. 13 |-> reflectance(i)]
           a == AnnotationRows(MER_RR__2P_ADSR_sq, MER_RR__2P_GADS_sfgi)
           vapour  == DatasetRow("Vapour_Content", <<"Vapour Content", "MDS(14)">>, MER_RR__2P_MDSR_14)
           chl1    == DatasetRow("Chl_1_TOAVI_CTP", <<"Chl_1, TOAVI", "MDS(15)">>, MER_RR__2P_MDSR_14)
           yellow  == DatasetRow("YS_SPM_Rect_rho", <<"YS, SPM, Rect. Rho", "MDS(16)">>, MER_RR__2P_MDSR_16)
           chl2    == DatasetRow("Chl_2_BOAVI", <<"Chl_2, BOAVI", "MDS(17)">>, MER_RR__2P_MDSR_14)
           press   == DatasetRow("Press_PAR_Alb", <<"Press PAR Alb", "MDS(18)">>, MER_RR__2P_MDSR_14)
           aerosol == DatasetRow(id19, name19, MER_RR__2P_MDSR_16)
           flags   == DatasetRow("Flags", <<"Flags", "MDS(20)">>, MER_RR__2P_MDSR_20)
           f == <<vapour, chl1, yellow, chl2, press, aerosol, flags>>
<1>1. IsSeq(s)
  BY FunctionIsSeq
<1>2. ASSUME NEW x \in Range(s) PROVE Level2Row(x, id19, name19)
  <2>1. PICK i \in 1 .. 13 : x = reflectance(i)
    BY <1>2 DEF Range
  <2>2. x.id = NormRhoSurfIds[i] /\ x.ds_name[1] = "Norm. rho_surf" /\ x.rec = MER_RR__2P_MDSR_1_13
    BY <2>1 DEF DatasetRow
  <2> QED BY <2>2 DEF Level2Row
<1>3. Level2Rows(id19, name19) = (a \o s) \o f
  BY DEF Level2Rows
<1>4. /\ Level2Row(vapour, id19, name19) /\ Level2Row(chl1, id19, name19)
      /\ Level2Row(yellow, id19, name19) /\ Level2Row(chl2, id19, name19)
      /\ Level2Row(press, id19, name19)  /\ Level2Row(aerosol, id19, name19)
      /\ Level2Row(flags, id19, name19)
  BY DEF DatasetRow, Level2Row
<1> HIDE DEF a, s, vapour, chl1, yellow, chl2, press, aerosol, flags
<1>5. IsSeq(a) /\ IsSeq(f) /\ Range(f) = {vapour, chl1, yellow, chl2, press, aerosol, flags}
  <2>1. IsSeq(a)
    BY AnnotationRange DEF a
  <2> QED BY <2>1, Tuple7
<1> HIDE DEF f
<1>6. Range(Level2Rows(id19, name19)) = (Range(a) \cup Range(s)) \cup Range(f)
  BY <1>1, <1>3, <1>5, RangeConcat
<1>7. ASSUME NEW x \in Range(a) PROVE Level2Row(x, id19, name19)
  <2>1. CASE x = DatasetRow("Quality_ADS", <<"Quality ADS">>, MER_RR__2P_ADSR_sq)
    BY <2>1 DEF DatasetRow, Level2Row
  <2>2. CASE x = DatasetRow("Scaling_Factor_GADS", <<"Scaling Factor GADS">>, MER_RR__2P_GADS_sfgi)
    BY <2>2 DEF DatasetRow, Level2Row, ScalingName
  <2>3. CASE x = DatasetRow("Tie_points_ADS", <<"Tie points ADS">>, MER_RR__1P_ADSR_tie_pt)
    BY <2>3 DEF DatasetRow, Level2Row
  <2> QED BY <1>7, <2>1, <2>2, <2>3, AnnotationRange DEF a
<1> QED BY <1>2, <1>4, <1>5, <1>6, <1>7

GeocodedRow(r, main) ==
  \/ /\ r.id \in {"MDS1_SQ_ADS", "MDS2_SQ_ADS"} /\ r.ds_name[1] \in {"MDS1", "MDS2"} /\ Len(r.ds_name) = 2
     /\ r.rec = ASAR_SQ1_Image_ADSR
  \/ r.id = "MAIN_PROCESSING_PARAMS_ADS" /\ r.ds_name = MainParams /\ r.rec = main
  \/ r.id = "DOP_CENTROID_COEFFS_ADS" /\ r.ds_name[1] = "DOP CENTROID COEFFS ADS" /\ r.rec = ASAR_Dop_Cen_ADSR
  \/ r.id = "SR_GR_ADS" /\ r.ds_name[1] = "SR GR ADS" /\ r.rec = ASAR_SRGR_ADSR
  \/ r.id = "CHIRP_PARAMS_ADS" /\ r.ds_name[1] = "CHIRP PARAMS ADS" /\ r.rec = ASAR_Chirp_ADSR
  \/ r.id = "ANTENNA_ELEV_PATTERN_ADS" /\ r.ds_name[1] = "ANTENNA ELEV PATTERN ADS" /\ r.rec = ASAR_Antenna_ADSR
  \/ r.id = "GEOLOCATION_GRID_ADS" /\ r.ds_name[1] = "GEOLOCATION GRID ADS" /\ r.rec = ASAR_Geo_Grid_ADSR
  \/ r.id = "MAP_PROJECTION_GADS" /\ r.ds_name[1] = "MAP PROJECTION GADS" /\ r.rec = ASAR_Map_GADS
  \/ /\ r.id \in {"MDS1", "MDS2"} /\ r.ds_name[1] \in {"MDS1", "MDS2"} /\ Len(r.ds_name) = 1
     /\ r.rec = ASAR_Image_MDSR_Gen

LEMMA GeocodedTable ==
  ASSUME NEW main, NEW r \in Range(GeocodedRows(main))
  PROVE  GeocodedRow(r, main)
<1> DEFINE quality1 == DatasetRow("MDS1_SQ_ADS", <<"MDS1", "SQ ADS">>, ASAR_SQ1_Image_ADSR)
           quality2 == DatasetRow("MDS2_SQ_ADS", <<"MDS2", "SQ ADS">>, ASAR_SQ1_Image_ADSR)
           params   == DatasetRow("MAIN_PROCESSING_PARAMS_ADS", MainParams, main)
           doppler  == DatasetRow("DOP_CENTROID_COEFFS_ADS", <<"DOP CENTROID COEFFS ADS">>, ASAR_Dop_Cen_ADSR)
           range    == DatasetRow("SR_GR_ADS", <<"SR GR ADS">>, ASAR_SRGR_ADSR)
           chirp    == DatasetRow("CHIRP_PARAMS_ADS", <<"CHIRP PARAMS ADS">>, ASAR_Chirp_ADSR)
           antenna  == DatasetRow("ANTENNA_ELEV_PATTERN_ADS", <<"ANTENNA ELEV PATTERN ADS">>, ASAR_Antenna_ADSR)
           grid     == DatasetRow("GEOLOCATION_GRID_ADS", <<"GEOLOCATION GRID ADS">>, ASAR_Geo_Grid_ADSR)
           map      == DatasetRow("MAP_PROJECTION_GADS", <<"MAP PROJECTION GADS">>, ASAR_Map_GADS)
           image1   == DatasetRow("MDS1", <<"MDS1">>, ASAR_Image_MDSR_Gen)
           image2   == DatasetRow("MDS2", <<"MDS2">>, ASAR_Image_MDSR_Gen)
<1>1. GeocodedRows(main) = <<quality1, quality2, params, doppler, range, chirp, antenna, grid, map, image1, image2>>
  BY DEF GeocodedRows
<1>2. /\ GeocodedRow(quality1, main) /\ GeocodedRow(quality2, main) /\ GeocodedRow(params, main)
      /\ GeocodedRow(doppler, main)
  BY DEF DatasetRow, GeocodedRow
<1>3. /\ GeocodedRow(range, main) /\ GeocodedRow(chirp, main) /\ GeocodedRow(antenna, main)
      /\ GeocodedRow(grid, main)
  BY DEF DatasetRow, GeocodedRow
<1>4. GeocodedRow(map, main) /\ GeocodedRow(image1, main) /\ GeocodedRow(image2, main)
  BY DEF DatasetRow, GeocodedRow
<1> HIDE DEF quality1, quality2, params, doppler, range, chirp, antenna, grid, map, image1, image2
<1>5. Range(GeocodedRows(main)) = {quality1, quality2, params, doppler, range, chirp, antenna, grid, map, image1, image2}
  BY <1>1, Tuple11
<1> QED BY <1>2, <1>3, <1>4, <1>5

-----------------------------------------------------------------------------
(***************************************************************************)
(* The rows of the band tables.                                            *)
(***************************************************************************)

Scales(b, gads) == InRecord(b.offset, gads) /\ InRecord(b.factor, gads)

LEMMA ScalingFacts ==
  /\ \A text, rec : InRecord(Number(text), rec)
  /\ \A f \in 1 .. 7 : InRecord(GADS(f, 1), MER_RR__1P_GADS_sfgi)
  /\ \A i \in 1 .. 15 : InRecord(GADS(8, i), MER_RR__1P_GADS_sfgi)
  /\ \A f \in 1 .. 43 : InRecord(GADS(f, 1), MER_RR__2P_GADS_sfgi)
  /\ \A i \in 1 .. 13 : InRecord(GADS(8, i), MER_RR__2P_GADS_sfgi) /\ InRecord(GADS(22, i), MER_RR__2P_GADS_sfgi)
<1>1. \A text, rec : InRecord(Number(text), rec)
  BY DEF InRecord, Number, IsNumber
<1>2. ASSUME NEW rec, NEW f \in DOMAIN rec, NEW e \in 1 .. rec[f].num PROVE InRecord(GADS(f, e), rec)
  BY DEF InRecord, GADS
<1>3. \A f \in 1 .. 7 : InRecord(GADS(f, 1), MER_RR__1P_GADS_sfgi)
  <2>1. \A f \in 1 .. 7 : 1 \in 1 .. MER_RR__1P_GADS_sfgi[f].num /\ f \in DOMAIN MER_RR__1P_GADS_sfgi
    BY ScalingRecords
  <2> QED BY <1>2, <2>1
<1>4. \A i \in 1 .. 15 : InRecord(GADS(8, i), MER_RR__1P_GADS_sfgi)
  <2>1. 8 \in DOMAIN MER_RR__1P_GADS_sfgi /\ \A i \in 1 .. 15 : i \in 1 .. MER_RR__1P_GADS_sfgi[8].num
    BY ScalingRecords
  <2> QED BY <1>2, <2>1
<1>5. \A f \in 1 .. 43 : InRecord(GADS(f, 1), MER_RR__2P_GADS_sfgi)
  <2>1. \A f \in 1 .. 43 : 1 \in 1 .. MER_RR__2P_GADS_sfgi[f].num /\ f \in DOMAIN MER_RR__2P_GADS_sfgi
    BY ScalingRecords
  <2> QED BY <1>2, <2>1
<1>6. \A i \in 1 .. 13 : InRecord(GADS(8, i), MER_RR__2P_GADS_sfgi) /\ InRecord(GADS(22, i), MER_RR__2P_GADS_sfgi)
  <2>1. /\ 8 \in DOMAIN MER_RR__2P_GADS_sfgi /\ 22 \in DOMAIN MER_RR__2P_GADS_sfgi
        /\ \A i \in 1 .. 13 : i \in 1 .. MER_RR__2P_GADS_sfgi[8].num /\ i \in 1 .. MER_RR__2P_GADS_sfgi[22].num
    BY ScalingRecords
  <2> QED BY <1>2, <2>1
<1> QED BY <1>1, <1>3, <1>4, <1>5, <1>6

\* What a band of a row looks up.
Looks(b, dataset, field, sample, mask) ==
  b.dataset = dataset /\ b.field = field /\ b.sample = sample /\ b.mask = mask

\* The records are the same in level 1 and 2.
LEMMA TiePointRows ==
  ASSUME NEW b \in Range(TiePointBands)
  PROVE  /\ b.dataset = "Tie_points_ADS" /\ FieldFits(b, MER_RR__1P_ADSR_tie_pt) /\ b.mask = NoMask
         /\ Scales(b, MER_RR__1P_GADS_sfgi) /\ Scales(b, MER_RR__2P_GADS_sfgi)
<1>1. PICK k \in 1 .. 15 : b = TiePointBand(k)
  BY DEF TiePointBands, Range
<1> DEFINE factor == CASE k \in {3, 4}   -> GADS(k - 2, 1)
                       [] k \in 11 .. 15 -> GADS(k - 8, 1)
                       [] OTHER          -> Number("1.0E-06")
<1>2. /\ Looks(b, "Tie_points_ADS", k + 2, "1OF1", NoMask)
      /\ b.offset = Number("0.0") /\ b.factor = factor
  <2>1. b = LinearBand(TiePointNames[k], "Tie_points_ADS", k + 2, Number("0.0"), factor, NoMask)
    BY <1>1 DEF TiePointBand
  <2> HIDE DEF factor
  <2> QED BY <2>1 DEF LinearBand, Band, Looks
<1>3. FieldFits(b, MER_RR__1P_ADSR_tie_pt)
  <2>1. k + 2 \in 3 .. 17 /\ k + 2 \in 1 .. 17
    OBVIOUS
  <2> QED BY <1>2, <2>1, TiePointRecord DEF Looks, FieldFits, Readings
<1>4. \A rec \in {MER_RR__1P_GADS_sfgi, MER_RR__2P_GADS_sfgi} : InRecord(factor, rec)
  <2>1. CASE k \in {3, 4}
    <3>1. k - 2 \in 1 .. 7 /\ k - 2 \in 1 .. 43 /\ factor = GADS(k - 2, 1)
      BY <2>1
    <3> QED BY <3>1, ScalingFacts
  <2>2. CASE k \in 11 .. 15
    <3>1. k - 8 \in 1 .. 7 /\ k - 8 \in 1 .. 43 /\ factor = GADS(k - 8, 1)
      BY <2>2
    <3> QED BY <3>1, ScalingFacts
  <2>3. CASE k \notin {3, 4} /\ k \notin 11 .. 15
    <3>1. factor = Number("1.0E-06")
      BY <2>3
    <3> QED BY <3>1, ScalingFacts
  <2> QED BY <2>1, <2>2, <2>3
<1> HIDE DEF factor
<1>5. Scales(b, MER_RR__1P_GADS_sfgi) /\ Scales(b, MER_RR__2P_GADS_sfgi)
  BY <1>2, <1>4, ScalingFacts DEF Scales
<1> QED BY <1>2, <1>3, <1>5 DEF Looks

Level1Masks == {NoMask, <<"!", "l1_flags", "INVALID">>}

Level1Band(b, flags) ==
  /\ Scales(b, MER_RR__1P_GADS_sfgi)
  /\ b.mask \in Level1Masks
  /\ \/ b.dataset = "Tie_points_ADS" /\ FieldFits(b, MER_RR__1P_ADSR_tie_pt)
     \/ b.dataset \in {RadianceIds[i] : i \in 1 .. 15} /\ FieldFits(b, MER_RR__1P_MDSR_1_15)
     \/ b.dataset = "Flags" /\ FieldFits(b, flags)

\* A table has the band that its masks refer to, with the flags they name.
HasFlags(bands, id, flags) ==
  \E f \in Range(bands) : f.id = id /\ flags \subseteq DOMAIN FlagCoding(f.flags)

LEMMA RadianceRows ==
  ASSUME NEW b \in Range(RadianceBands), NEW flags
  PROVE  Level1Band(b, flags)
<1>1. PICK i \in 1 .. 15 :
        b = LinearBand("radiance_" \o ToString(i), RadianceIds[i], 3, Number("0.0"), GADS(8, i),
                       <<"!", "l1_flags", "INVALID">>)
  BY DEF RadianceBands, Range
<1>2. /\ Looks(b, RadianceIds[i], 3, "1OF1", <<"!", "l1_flags", "INVALID">>)
      /\ b.offset = Number("0.0") /\ b.factor = GADS(8, i)
  BY <1>1 DEF LinearBand, Band, Looks
<1>3. Scales(b, MER_RR__1P_GADS_sfgi)
  BY <1>2, ScalingFacts DEF Scales
<1>4. FieldFits(b, MER_RR__1P_MDSR_1_15)
  BY <1>2, PixelRecords, WidthsAssumption DEF Looks, FieldFits, Readings, PerPixel
<1>5. b.dataset \in {RadianceIds[j] : j \in 1 .. 15} /\ b.mask \in Level1Masks
  BY <1>2 DEF Looks, Level1Masks
<1> QED BY <1>3, <1>4, <1>5 DEF Level1Band

LEMMA Level1FlagCoding == "INVALID" \in DOMAIN FlagCoding("MER_RR__1P_flags")
  BY DEF FlagCoding, NoFlags, dddb_flag_coding_tables, MER_RR__1P_flags_data

\* The band of the flags and the other band of the last dataset, in a table of level 1.
LEMMA Level1Tables ==
  ASSUME NEW b1, NEW b2, NEW rec, Level1Band(b1, rec), Level1Band(b2, rec),
         b1.id = "l1_flags", b1.flags = "MER_RR__1P_flags"
  PROVE  LET bands == TiePointBands \o RadianceBands \o <<b1, b2>>
         IN  /\ \A b \in Range(bands) : Level1Band(b, rec)
             /\ HasFlags(bands, "l1_flags", {"INVALID"})
<1> DEFINE bands == TiePointBands \o RadianceBands \o <<b1, b2>>
<1>1. Range(bands) = (Range(TiePointBands) \cup Range(RadianceBands)) \cup {b1, b2}
  BY BandPieces, RangeConcat, Tuple2
<1> HIDE DEF bands
<1>2. ASSUME NEW b \in Range(TiePointBands) PROVE Level1Band(b, rec)
  BY <1>2, TiePointRows DEF Level1Band, Level1Masks
<1>3. \A b \in Range(bands) : Level1Band(b, rec)
  BY <1>1, <1>2, RadianceRows
<1>4. HasFlags(bands, "l1_flags", {"INVALID"})
  <2>1. b1 \in Range(bands)
    BY <1>1
  <2> QED BY <2>1, Level1FlagCoding DEF HasFlags
<1> QED BY <1>3, <1>4 DEF bands

LEMMA Level1BandTables ==
  /\ \A b \in Range(MER_RR__1P_band_data) : Level1Band(b, MER_RR__1P_MDSR_16)
  /\ \A b \in Range(MER_RR__1P_IODD5_band_data) : Level1Band(b, MER_RR__1P_MDSR_16_IODD5)
  /\ HasFlags(MER_RR__1P_band_data, "l1_flags", {"INVALID"})
  /\ HasFlags(MER_RR__1P_IODD5_band_data, "l1_flags", {"INVALID"})
<1>1. ASSUME NEW b, NEW rec, Plain(b), b.mask = NoMask, b.dataset = "Flags", FieldFits(b, rec)
      PROVE  Level1Band(b, rec)
  BY <1>1 DEF Level1Band, Level1Masks, Plain, Scales, InRecord
<1> DEFINE l1_flags == PlainBand("l1_flags", "Flags", 3, "1OF1", "uchar", NoMask, "MER_RR__1P_flags")
           detector_index == PlainBand("detector_index", "Flags", 4, "1OF1", "short", NoMask, NoFlags)
           l1_flags_5 == PlainBand("l1_flags", "Flags", 3, "1OF2", "uchar", NoMask, "MER_RR__1P_flags")
           ssi == PlainBand("ssi", "Flags", 3, "2OF2", "uchar", NoMask, NoFlags)
<1>2. /\ MER_RR__1P_band_data = TiePointBands \o RadianceBands \o <<l1_flags, detector_index>>
      /\ MER_RR__1P_IODD5_band_data = TiePointBands \o RadianceBands \o <<l1_flags_5, ssi>>
  BY DEF MER_RR__1P_band_data, MER_RR__1P_IODD5_band_data
<1>3. Plain(l1_flags) /\ Plain(detector_index) /\ Plain(l1_flags_5) /\ Plain(ssi)
  BY PlainBands
<1>4. /\ Looks(l1_flags, "Flags", 3, "1OF1", NoMask) /\ Looks(detector_index, "Flags", 4, "1OF1", NoMask)
      /\ Looks(l1_flags_5, "Flags", 3, "1OF2", NoMask) /\ Looks(ssi, "Flags", 3, "2OF2", NoMask)
      /\ l1_flags.id = "l1_flags" /\ l1_flags.flags = "MER_RR__1P_flags"
      /\ l1_flags_5.id = "l1_flags" /\ l1_flags_5.flags = "MER_RR__1P_flags"
  BY DEF PlainBand, Band, Looks
<1> HIDE DEF l1_flags, detector_index, l1_flags_5, ssi
<1>5. /\ FieldFits(l1_flags, MER_RR__1P_MDSR_16) /\ FieldFits(detector_index, MER_RR__1P_MDSR_16)
      /\ FieldFits(l1_flags_5, MER_RR__1P_MDSR_16_IODD5) /\ FieldFits(ssi, MER_RR__1P_MDSR_16_IODD5)
  BY <1>4, PixelRecords, WidthsAssumption DEF Looks, FieldFits, Readings, PerPixel
<1>6. /\ Level1Band(l1_flags, MER_RR__1P_MDSR_16) /\ Level1Band(detector_index, MER_RR__1P_MDSR_16)
      /\ Level1Band(l1_flags_5, MER_RR__1P_MDSR_16_IODD5) /\ Level1Band(ssi, MER_RR__1P_MDSR_16_IODD5)
  BY <1>1, <1>3, <1>4, <1>5 DEF Looks
<1> QED BY <1>2, <1>4, <1>6, Level1Tables

MaskFlags   == {"WATER", "LAND", "CLOUD"}
Level2Masks == {NoMask} \cup {Is(f) : f \in MaskFlags} \cup {Not(f) : f \in MaskFlags}

\* The datasets with one and with two values of each pixel; the second of two
\* is named by the edition.
OneValue        == {"Vapour_Content", "Chl_1_TOAVI_CTP", "Chl_2_BOAVI", "Press_PAR_Alb"}
TwoValues(id19) == {"YS_SPM_Rect_rho", id19}

Level2Band(b, id19) ==
  /\ Scales(b, MER_RR__2P_GADS_sfgi)
  /\ b.mask \in Level2Masks
  /\ \/ b.dataset = "Tie_points_ADS" /\ FieldFits(b, MER_RR__1P_ADSR_tie_pt)
     \/ b.dataset \in {NormRhoSurfIds[i] : i \in 1 .. 13} /\ FieldFits(b, MER_RR__2P_MDSR_1_13)
     \/ b.dataset \in OneValue /\ FieldFits(b, MER_RR__2P_MDSR_14)
     \/ b.dataset \in TwoValues(id19) /\ FieldFits(b, MER_RR__2P_MDSR_16)
     \/ b.dataset = "Flags" /\ FieldFits(b, MER_RR__2P_MDSR_20)

LEMMA ReflectanceRows ==
  ASSUME NEW b \in Range(ReflectanceBands), NEW id19
  PROVE  Level2Band(b, id19)
<1>1. PICK i \in 1 .. 13 :
        b = LinearBand("reflec_" \o ToString(IF i > 10 THEN i + 1 ELSE i), NormRhoSurfIds[i], 3,
                       GADS(22, i), GADS(8, i), NoMask)
  BY DEF ReflectanceBands, Range
<1>2. /\ Looks(b, NormRhoSurfIds[i], 3, "1OF1", NoMask)
      /\ b.offset = GADS(22, i) /\ b.factor = GADS(8, i)
  BY <1>1 DEF LinearBand, Band, Looks
<1>3. Scales(b, MER_RR__2P_GADS_sfgi)
  BY <1>2, ScalingFacts DEF Scales
<1>4. FieldFits(b, MER_RR__2P_MDSR_1_13)
  BY <1>2, PixelRecords, WidthsAssumption DEF Looks, FieldFits, Readings, PerPixel
<1>5. b.dataset \in {NormRhoSurfIds[j] : j \in 1 .. 13} /\ b.mask \in Level2Masks
  BY <1>2 DEF Looks, Level2Masks
<1> QED BY <1>3, <1>4, <1>5 DEF Level2Band

LEMMA PixelBands ==
  ASSUME NEW b, NEW id19, b.field = 3, b.mask \in Level2Masks, Scales(b, MER_RR__2P_GADS_sfgi),
         \/ b.dataset \in OneValue /\ b.sample = "1OF1"
         \/ b.dataset \in TwoValues(id19) /\ b.sample \in {"1OF2", "2OF2"}
         \/ b.dataset = "Flags" /\ b.sample = "3TOI"
  PROVE  Level2Band(b, id19)
  BY PixelRecords, WidthsAssumption DEF Level2Band, FieldFits, Readings, PerPixel

\* A scaled band is of level 2 whatever its name and its method.
LEMMA ScaledBands ==
  ASSUME NEW id, NEW dataset, NEW sample, NEW method, NEW offset \in 1 .. 43, NEW factor \in 1 .. 43,
         NEW mask \in Level2Masks, NEW id19,
         \/ dataset \in OneValue /\ sample = "1OF1"
         \/ dataset \in TwoValues(id19) /\ sample \in {"1OF2", "2OF2"}
  PROVE  Level2Band(Scaled(id, dataset, sample, method, offset, factor, mask), id19)
<1> DEFINE b == Scaled(id, dataset, sample, method, offset, factor, mask)
<1>1. Looks(b, dataset, 3, sample, mask) /\ b.offset = GADS(offset, 1) /\ b.factor = GADS(factor, 1)
  BY DEF Scaled, Band, Looks
<1> HIDE DEF b
<1>2. Scales(b, MER_RR__2P_GADS_sfgi)
  BY <1>1, ScalingFacts DEF Scales
<1>3. Level2Band(b, id19)
  BY <1>1, <1>2, PixelBands DEF Looks
<1> QED BY <1>3 DEF b

LEMMA MaskFacts ==
  /\ "Vapour_Content" \in OneValue /\ "Chl_1_TOAVI_CTP" \in OneValue
  /\ "Chl_2_BOAVI" \in OneValue /\ "Press_PAR_Alb" \in OneValue
  /\ \A id19 : "YS_SPM_Rect_rho" \in TwoValues(id19) /\ id19 \in TwoValues(id19)
  /\ NoMask \in Level2Masks
  /\ \A f \in MaskFlags : Is(f) \in Level2Masks /\ Not(f) \in Level2Masks
  /\ "WATER" \in MaskFlags /\ "LAND" \in MaskFlags /\ "CLOUD" \in MaskFlags
  BY DEF Level2Masks, MaskFlags, OneValue, TwoValues

LEMMA WaterRows ==
  ASSUME NEW yellow, NEW id19, NEW b \in Range(WaterBands(yellow))
  PROVE  Level2Band(b, id19)
<1> DEFINE water_vapour == Scaled("water_vapour", "Vapour_Content",  "1OF1", "lin",  30, 16, NoMask)
           algal_1      == Scaled("algal_1",      "Chl_1_TOAVI_CTP", "1OF1", "log",  23, 9,  Is("WATER"))
           algal_2      == Scaled("algal_2",      "Chl_2_BOAVI",     "1OF1", "log",  23, 9,  Is("WATER"))
           yellow_subs  == Scaled("yellow_subs",  "YS_SPM_Rect_rho", "1OF2", yellow, 24, 10, Is("WATER"))
           total_susp   == Scaled("total_susp",   "YS_SPM_Rect_rho", "2OF2", "log",  25, 11, Is("WATER"))
           photosyn_rad == Scaled("photosyn_rad", "Press_PAR_Alb",   "1OF1", "lin",  31, 17, Is("WATER"))
           toa_veg      == Scaled("toa_veg",      "Chl_1_TOAVI_CTP", "1OF1", "lin",  32, 18, Is("LAND"))
           boa_veg      == Scaled("boa_veg",      "Chl_2_BOAVI",     "1OF1", "lin",  33, 19, Is("LAND"))
<1>1. WaterBands(yellow) =
        <<water_vapour, algal_1, algal_2, yellow_subs, total_susp, photosyn_rad, toa_veg, boa_veg>>
  BY DEF WaterBands
<1>0. /\ 9 \in 1 .. 43 /\ 10 \in 1 .. 43 /\ 11 \in 1 .. 43 /\ 16 \in 1 .. 43 /\ 17 \in 1 .. 43
      /\ 18 \in 1 .. 43 /\ 19 \in 1 .. 43 /\ 23 \in 1 .. 43 /\ 24 \in 1 .. 43 /\ 25 \in 1 .. 43
      /\ 30 \in 1 .. 43 /\ 31 \in 1 .. 43 /\ 32 \in 1 .. 43 /\ 33 \in 1 .. 43
  OBVIOUS
<1>2. Level2Band(water_vapour, id19)
  BY <1>0, ScaledBands, MaskFacts
<1>3. Level2Band(algal_1, id19)
  BY <1>0, ScaledBands, MaskFacts
<1>4. Level2Band(algal_2, id19)
  BY <1>0, ScaledBands, MaskFacts
<1>5. Level2Band(yellow_subs, id19)
  BY <1>0, ScaledBands, MaskFacts
<1>6. Level2Band(total_susp, id19)
  BY <1>0, ScaledBands, MaskFacts
<1>7. Level2Band(photosyn_rad, id19)
  BY <1>0, ScaledBands, MaskFacts
<1>8. Level2Band(toa_veg, id19)
  BY <1>0, ScaledBands, MaskFacts
<1>9. Level2Band(boa_veg, id19)
  BY <1>0, ScaledBands, MaskFacts
<1> HIDE DEF water_vapour, algal_1, algal_2, yellow_subs, total_susp, photosyn_rad, toa_veg, boa_veg
<1>10. b \in {water_vapour, algal_1, algal_2, yellow_subs, total_susp, photosyn_rad, toa_veg, boa_veg}
  BY <1>1, Tuple8
<1> QED BY <1>2, <1>3, <1>4, <1>5, <1>6, <1>7, <1>8, <1>9, <1>10

LEMMA LandRows ==
  ASSUME NEW first, NEW second, NEW id19, NEW b \in Range(LandBands(first, second))
  PROVE  Level2Band(b, id19)
<1> DEFINE red        == Scaled(first,        "YS_SPM_Rect_rho", "1OF2", "lin", 40, 39, Is("LAND"))
           nir        == Scaled(second,       "YS_SPM_Rect_rho", "2OF2", "lin", 42, 41, Is("LAND"))
           surf_press == Scaled("surf_press", "Press_PAR_Alb",   "1OF1", "lin", 29, 15, Is("LAND"))
<1>1. LandBands(first, second) = <<red, nir, surf_press>>
  BY DEF LandBands
<1>0. /\ 15 \in 1 .. 43 /\ 29 \in 1 .. 43 /\ 39 \in 1 .. 43 /\ 40 \in 1 .. 43 /\ 41 \in 1 .. 43
      /\ 42 \in 1 .. 43
  OBVIOUS
<1>2. Level2Band(red, id19)
  BY <1>0, ScaledBands, MaskFacts
<1>3. Level2Band(nir, id19)
  BY <1>0, ScaledBands, MaskFacts
<1>4. Level2Band(surf_press, id19)
  BY <1>0, ScaledBands, MaskFacts
<1> HIDE DEF red, nir, surf_press
<1>5. b \in {red, nir, surf_press}
  BY <1>1, Tuple3
<1> QED BY <1>2, <1>3, <1>4, <1>5

LEMMA CloudRows ==
  ASSUME NEW id19, NEW flags
  PROVE  /\ \A b \in Range(CloudBands(id19, flags)) : Level2Band(b, id19)
         /\ \E f \in Range(CloudBands(id19, flags)) : f.id = "l2_flags" /\ f.flags = flags
<1> DEFINE cloud_albedo    == Scaled("cloud_albedo",    "Press_PAR_Alb",   "1OF1", "lin", 34, 20, Is("CLOUD"))
           cloud_opt_thick == Scaled("cloud_opt_thick", id19,              "2OF2", "lin", 28, 14, Is("CLOUD"))
           cloud_top_press == Scaled("cloud_top_press", "Chl_1_TOAVI_CTP", "1OF1", "lin", 35, 21, Is("CLOUD"))
           cloud_type      == PlainBand("cloud_type", id19, 3, "1OF2", "uchar", Is("CLOUD"), NoFlags)
           l2_flags        == PlainBand("l2_flags", "Flags", 3, "3TOI", "uint", NoMask, flags)
<1>1. CloudBands(id19, flags) = <<cloud_albedo, cloud_opt_thick, cloud_top_press, cloud_type, l2_flags>>
  BY DEF CloudBands
<1>0. /\ 14 \in 1 .. 43 /\ 20 \in 1 .. 43 /\ 21 \in 1 .. 43 /\ 28 \in 1 .. 43 /\ 34 \in 1 .. 43
      /\ 35 \in 1 .. 43
  OBVIOUS
<1>2. Level2Band(cloud_albedo, id19)
  BY <1>0, ScaledBands, MaskFacts
<1>3. Level2Band(cloud_opt_thick, id19)
  BY <1>0, ScaledBands, MaskFacts
<1>4. Level2Band(cloud_top_press, id19)
  BY <1>0, ScaledBands, MaskFacts
<1>5. ASSUME NEW x, Plain(x) PROVE Scales(x, MER_RR__2P_GADS_sfgi)
  BY <1>5 DEF Plain, Scales, InRecord
<1>6. /\ Looks(cloud_type, id19, 3, "1OF2", Is("CLOUD")) /\ Plain(cloud_type)
      /\ Looks(l2_flags, "Flags", 3, "3TOI", NoMask) /\ Plain(l2_flags)
      /\ l2_flags.id = "l2_flags" /\ l2_flags.flags = flags
  BY PlainBands DEF PlainBand, Band, Looks
<1> HIDE DEF cloud_albedo, cloud_opt_thick, cloud_top_press, cloud_type, l2_flags
<1>7. Level2Band(cloud_type, id19)
  BY <1>5, <1>6, PixelBands, MaskFacts DEF Looks, TwoValues
<1>8. Level2Band(l2_flags, id19)
  BY <1>5, <1>6, PixelBands, MaskFacts DEF Looks
<1>9. Range(CloudBands(id19, flags)) = {cloud_albedo, cloud_opt_thick, cloud_top_press, cloud_type, l2_flags}
  BY <1>1, Tuple5
<1> QED BY <1>2, <1>3, <1>4, <1>6, <1>7, <1>8, <1>9

LEMMA AerosolRows ==
  /\ \A b \in Range(<< Scaled("aero_alpha",         "Alpha_OPT", "1OF2", "lin", 26, 12, Not("CLOUD")),
                       Scaled("aero_opt_thick_443", "Alpha_OPT", "2OF2", "lin", 27, 13, Not("LAND")),
                       Scaled("aero_opt_thick_865", "Alpha_OPT", "2OF2", "lin", 27, 13, Not("WATER")) >>) :
       Level2Band(b, "Alpha_OPT")
  /\ \A b \in Range(<< Scaled("aero_epsilon",   "Epsilon_OPT", "1OF2", "lin", 26, 12, Not("CLOUD")),
                       Scaled("aero_opt_thick", "Epsilon_OPT", "2OF2", "lin", 27, 13, Not("CLOUD")) >>) :
       Level2Band(b, "Epsilon_OPT")
<1> DEFINE alpha     == Scaled("aero_alpha",         "Alpha_OPT", "1OF2", "lin", 26, 12, Not("CLOUD"))
           thick_443 == Scaled("aero_opt_thick_443", "Alpha_OPT", "2OF2", "lin", 27, 13, Not("LAND"))
           thick_865 == Scaled("aero_opt_thick_865", "Alpha_OPT", "2OF2", "lin", 27, 13, Not("WATER"))
           epsilon   == Scaled("aero_epsilon",   "Epsilon_OPT", "1OF2", "lin", 26, 12, Not("CLOUD"))
           thick     == Scaled("aero_opt_thick", "Epsilon_OPT", "2OF2", "lin", 27, 13, Not("CLOUD"))
<1>1. 12 \in 1 .. 43 /\ 13 \in 1 .. 43 /\ 26 \in 1 .. 43 /\ 27 \in 1 .. 43
  OBVIOUS
<1>2. Level2Band(alpha, "Alpha_OPT")
  BY <1>1, ScaledBands, MaskFacts
<1>3. Level2Band(thick_443, "Alpha_OPT")
  BY <1>1, ScaledBands, MaskFacts
<1>4. Level2Band(thick_865, "Alpha_OPT")
  BY <1>1, ScaledBands, MaskFacts
<1>5. Level2Band(epsilon, "Epsilon_OPT")
  BY <1>1, ScaledBands, MaskFacts
<1>6. Level2Band(thick, "Epsilon_OPT")
  BY <1>1, ScaledBands, MaskFacts
<1> HIDE DEF alpha, thick_443, thick_865, epsilon, thick
<1>7. /\ Range(<<alpha, thick_443, thick_865>>) = {alpha, thick_443, thick_865}
      /\ Range(<<epsilon, thick>>) = {epsilon, thick}
  BY Tuple2, Tuple3
<1>8. /\ \A b \in Range(<<alpha, thick_443, thick_865>>) : Level2Band(b, "Alpha_OPT")
      /\ \A b \in Range(<<epsilon, thick>>) : Level2Band(b, "Epsilon_OPT")
  BY <1>2, <1>3, <1>4, <1>5, <1>6, <1>7
<1> QED BY <1>8 DEF alpha, thick_443, thick_865, epsilon, thick

LEMMA Level2FlagCoding ==
  \A coding \in {"MER_RR__2P_flags", "MER_RR__2P_flags_IODD6"} : MaskFlags \subseteq DOMAIN FlagCoding(coding)
<1>1. MaskFlags \subseteq DOMAIN CommonFlags
  BY DEF MaskFlags, CommonFlags
<1>2. \A own : DOMAIN CommonFlags \subseteq DOMAIN WithCommon(own)
  BY DEF WithCommon
<1>3. MaskFlags \subseteq DOMAIN MER_RR__2P_flags_data /\ MaskFlags \subseteq DOMAIN MER_RR__2P_flags_IODD6_data
  BY <1>1, <1>2 DEF MER_RR__2P_flags_data, MER_RR__2P_flags_IODD6_data
<1>4. /\ FlagCoding("MER_RR__2P_flags") = MER_RR__2P_flags_data
      /\ FlagCoding("MER_RR__2P_flags_IODD6") = MER_RR__2P_flags_IODD6_data
  BY DEF FlagCoding, NoFlags, dddb_flag_coding_tables
<1> QED BY <1>3, <1>4

\* The bands of a table of level 2, put together.
LEMMA Level2Tables ==
  ASSUME NEW yellow, NEW first, NEW second, NEW aerosol, NEW id19,
         NEW coding \in {"MER_RR__2P_flags", "MER_RR__2P_flags_IODD6"},
         IsSeq(aerosol), \A b \in Range(aerosol) : Level2Band(b, id19)
  PROVE  LET bands == TiePointBands \o ReflectanceBands \o WaterBands(yellow) \o
                        LandBands(first, second) \o aerosol \o CloudBands(id19, coding)
         IN  /\ \A b \in Range(bands) : Level2Band(b, id19)
             /\ HasFlags(bands, "l2_flags", MaskFlags)
<1> DEFINE w == WaterBands(yellow)
           l == LandBands(first, second)
           c == CloudBands(id19, coding)
           s2 == TiePointBands \o ReflectanceBands
           s3 == s2 \o w
           s4 == s3 \o l
           s5 == s4 \o aerosol
           bands == s5 \o c
<1>1. IsSeq(w) /\ IsSeq(l) /\ IsSeq(c)
  BY BandPieces DEF EndsPlain
<1>2. \A b \in Range(TiePointBands) : Level2Band(b, id19)
  BY TiePointRows, MaskFacts DEF Level2Band
<1>3. \A b \in Range(ReflectanceBands) : Level2Band(b, id19)
  BY ReflectanceRows
<1>4. (\A b \in Range(w) : Level2Band(b, id19)) /\ (\A b \in Range(l) : Level2Band(b, id19))
  BY WaterRows, LandRows
<1>5. /\ \A b \in Range(c) : Level2Band(b, id19)
      /\ \E f \in Range(c) : f.id = "l2_flags" /\ f.flags = coding
  BY CloudRows
<1> HIDE DEF w, l, c
<1>6. IsSeq(s2) /\ Range(s2) = Range(TiePointBands) \cup Range(ReflectanceBands)
  BY BandPieces, RangeConcat
<1> HIDE DEF s2
<1>7. IsSeq(s3) /\ Range(s3) = Range(s2) \cup Range(w)
  BY <1>1, <1>6, RangeConcat
<1> HIDE DEF s3
<1>8. IsSeq(s4) /\ Range(s4) = Range(s3) \cup Range(l)
  BY <1>1, <1>7, RangeConcat
<1> HIDE DEF s4
<1>9. IsSeq(s5) /\ Range(s5) = Range(s4) \cup Range(aerosol)
  BY <1>8, RangeConcat
<1> HIDE DEF s5
<1>10. Range(bands) = Range(s5) \cup Range(c)
  BY <1>1, <1>9, RangeConcat
<1> HIDE DEF bands
<1>11. \A b \in Range(bands) : Level2Band(b, id19)
  BY <1>2, <1>3, <1>4, <1>5, <1>6, <1>7, <1>8, <1>9, <1>10
<1>12. HasFlags(bands, "l2_flags", MaskFlags)
  BY <1>5, <1>10, Level2FlagCoding DEF HasFlags
<1> QED BY <1>11, <1>12 DEF bands, s5, s4, s3, s2, w, l, c

LEMMA Level2BandTables ==
  /\ \A b \in Range(MER_RR__2P_band_data) : Level2Band(b, "Alpha_OPT")
  /\ \A b \in Range(MER_RR__2P_IODD6_band_data) : Level2Band(b, "Epsilon_OPT")
  /\ HasFlags(MER_RR__2P_band_data, "l2_flags", MaskFlags)
  /\ HasFlags(MER_RR__2P_IODD6_band_data, "l2_flags", MaskFlags)
<1> DEFINE alpha == << Scaled("aero_alpha",         "Alpha_OPT", "1OF2", "lin", 26, 12, Not("CLOUD")),
                       Scaled("aero_opt_thick_443", "Alpha_OPT", "2OF2", "lin", 27, 13, Not("LAND")),
                       Scaled("aero_opt_thick_865", "Alpha_OPT", "2OF2", "lin", 27, 13, Not("WATER")) >>
           epsilon == << Scaled("aero_epsilon",   "Epsilon_OPT", "1OF2", "lin", 26, 12, Not("CLOUD")),
                         Scaled("aero_opt_thick", "Epsilon_OPT", "2OF2", "lin", 27, 13, Not("CLOUD")) >>
<1>1. /\ MER_RR__2P_band_data =
           TiePointBands \o ReflectanceBands \o WaterBands("log") \o
           LandBands("rect_refl_red", "rect_refl_nir") \o alpha \o CloudBands("Alpha_OPT", "MER_RR__2P_flags")
      /\ MER_RR__2P_IODD6_band_data =
           TiePointBands \o ReflectanceBands \o WaterBands("lin") \o
           LandBands("rect_refl_nir", "rect_refl_red") \o epsilon \o
           CloudBands("Epsilon_OPT", "MER_RR__2P_flags_IODD6")
  BY DEF MER_RR__2P_band_data, MER_RR__2P_IODD6_band_data, Level2Bands
<1>2. IsSeq(alpha) /\ IsSeq(epsilon)
  <2>1. \A a, b, c : IsSeq(<<a, b, c>>)
    BY Tuple3
  <2>2. \A a, b : IsSeq(<<a, b>>)
    BY Tuple2
  <2> QED BY <2>1, <2>2
<1>3. (\A b \in Range(alpha) : Level2Band(b, "Alpha_OPT")) /\ (\A b \in Range(epsilon) : Level2Band(b, "Epsilon_OPT"))
  BY AerosolRows
<1> HIDE DEF alpha, epsilon
<1> QED BY <1>1, <1>2, <1>3, Level2Tables

\* The geocoded image has no masks, and no scaling in the file.
GeocodedBand(b) ==
  /\ Plain(b) /\ b.mask = NoMask
  /\ \/ b.dataset = "GEOLOCATION_GRID_ADS" /\ FieldFits(b, ASAR_Geo_Grid_ADSR)
     \/ b.dataset \in {"MDS1", "MDS2"} /\ FieldFits(b, ASAR_Image_MDSR_Gen)

LEMMA GeocodedBandTable == \A b \in Range(ASA_APG_1P_band_data) : GeocodedBand(b)
<1> DEFINE Grid(id, field, factor) ==
             LinearBand(id, "GEOLOCATION_GRID_ADS", field, Number("0.0"), Number(factor), NoMask)
           Data(id, dataset) == LinearBand(id, dataset, 4, Number("0.0"), Number("1.0"), NoMask)
<1>1. ASSUME NEW id, NEW field \in 7 .. 10, NEW factor PROVE GeocodedBand(Grid(id, field, factor))
  <2> DEFINE b == Grid(id, field, factor)
  <2>1. Looks(b, "GEOLOCATION_GRID_ADS", field, "1OF1", NoMask) /\ Plain(b)
    BY DEF LinearBand, Band, Looks, Plain, Number, IsNumber
  <2> HIDE DEF b
  <2>2. FieldFits(b, ASAR_Geo_Grid_ADSR)
    BY <2>1, GridRecord DEF Looks, FieldFits, Readings
  <2>3. GeocodedBand(b)
    BY <2>1, <2>2 DEF Looks, GeocodedBand
  <2> QED BY <2>3 DEF b
<1>2. ASSUME NEW id, NEW dataset \in {"MDS1", "MDS2"} PROVE GeocodedBand(Data(id, dataset))
  <2> DEFINE b == Data(id, dataset)
  <2>1. Looks(b, dataset, 4, "1OF1", NoMask) /\ Plain(b)
    BY DEF LinearBand, Band, Looks, Plain, Number, IsNumber
  <2> HIDE DEF b
  <2>2. FieldFits(b, ASAR_Image_MDSR_Gen)
    BY <2>1, PixelRecords, WidthsAssumption DEF Looks, FieldFits, Readings, PerPixel
  <2>3. GeocodedBand(b)
    BY <2>1, <2>2 DEF Looks, GeocodedBand
  <2> QED BY <2>3 DEF b
<1> DEFINE slant_range_time == Grid("slant_range_time", 7, "1.0")
           incident_angle   == Grid("incident_angle", 8, "1.0")
           latitude         == Grid("latitude", 9, "1.0E-06")
           longitude        == Grid("longitude", 10, "1.0E-06")
           proc_data_1      == Data("proc_data_1", "MDS1")
           proc_data_2      == Data("proc_data_2", "MDS2")
<1>3. ASA_APG_1P_band_data =
        <<slant_range_time, incident_angle, latitude, longitude, proc_data_1, proc_data_2>>
  BY DEF ASA_APG_1P_band_data
<1> HIDE DEF Grid, Data
<1>4. 7 \in 7 .. 10 /\ 8 \in 7 .. 10 /\ 9 \in 7 .. 10 /\ 10 \in 7 .. 10
  OBVIOUS
<1>5. /\ GeocodedBand(slant_range_time) /\ GeocodedBand(incident_angle)
      /\ GeocodedBand(latitude) /\ GeocodedBand(longitude)
  BY <1>1, <1>4
<1>6. GeocodedBand(proc_data_1) /\ GeocodedBand(proc_data_2)
  BY <1>2
<1> HIDE DEF slant_range_time, incident_angle, latitude, longitude, proc_data_1, proc_data_2
<1>7. Range(ASA_APG_1P_band_data) =
        {slant_range_time, incident_angle, latitude, longitude, proc_data_1, proc_data_2}
  BY <1>3, Tuple6
<1> QED BY <1>5, <1>6, <1>7

-----------------------------------------------------------------------------
(***************************************************************************)
(* The tables that are chosen.                                             *)
(***************************************************************************)

LEMMA Tuple15 ==
  ASSUME NEW a, NEW b, NEW c, NEW d, NEW e, NEW f, NEW g, NEW h, NEW i, NEW j, NEW k, NEW l, NEW m, NEW n, NEW o
  PROVE  LET s == <<a, b, c, d, e, f, g, h, i, j, k, l, m, n, o>>
         IN  /\ IsSeq(s) /\ Len(s) = 15
             /\ s[1] = a /\ s[2] = b /\ s[3] = c /\ s[4] = d /\ s[5] = e /\ s[6] = f /\ s[7] = g /\ s[8] = h
             /\ s[9] = i /\ s[10] = j /\ s[11] = k /\ s[12] = l /\ s[13] = m /\ s[14] = n /\ s[15] = o
<1> DEFINE s == <<a, b, c, d, e, f, g, h, i, j, k, l, m, n, o>>
<1>1. /\ s \in Seq({a, b, c, d, e, f, g, h, i, j, k, l, m, n, o}) /\ Len(s) = 15
      /\ s[1] = a /\ s[2] = b /\ s[3] = c /\ s[4] = d /\ s[5] = e /\ s[6] = f /\ s[7] = g /\ s[8] = h
      /\ s[9] = i /\ s[10] = j /\ s[11] = k /\ s[12] = l /\ s[13] = m /\ s[14] = n /\ s[15] = o
  OBVIOUS
<1> HIDE DEF s
<1>2. IsSeq(s)
  BY <1>1 DEF IsSeq
<1> QED BY <1>1, <1>2 DEF s

\* Entries of the lists with the edition 5 or 6 are of MERIS, and come behind the
\* entry of the same type without an edition.
Early == {"IODD5", "IODD6"}

Listed(s) ==
  /\ IsSeq(s)
  /\ \A j \in DOMAIN s : s[j].edition \in Early =>
       \E i \in DOMAIN s : i < j /\ s[i].type = s[j].type

LEMMA MerisListed == Listed(Meris)
<1> DEFINE fr1  == Table("MER", "FR_", "1P", "")
           frs1 == Table("MER", "FRS", "1P", "")
           fr15 == Table("MER", "FR_", "1P", "IODD5")
           fr2  == Table("MER", "FR_", "2P", "")
           frs2 == Table("MER", "FRS", "2P", "")
           fr27 == Table("MER", "FR_", "2P", "IODD7")
           fr26 == Table("MER", "FR_", "2P", "IODD6")
           lrc2 == Table("MER", "LRC", "2P", "")
           rrc2 == Table("MER", "RRC", "2P", "")
           rrv2 == Table("MER", "RRV", "2P", "")
           rr1  == Table("MER", "RR_", "1P", "")
           rr15 == Table("MER", "RR_", "1P", "IODD5")
           rr2  == Table("MER", "RR_", "2P", "")
           rr27 == Table("MER", "RR_", "2P", "IODD7")
           rr26 == Table("MER", "RR_", "2P", "IODD6")
<1>1. Meris = <<fr1, frs1, fr15, fr2, frs2, fr27, fr26, lrc2, rrc2, rrv2, rr1, rr15, rr2, rr27, rr26>>
  BY DEF Meris
<1>2. /\ fr1.edition \notin Early /\ frs1.edition \notin Early /\ fr2.edition \notin Early
      /\ frs2.edition \notin Early /\ fr27.edition \notin Early /\ lrc2.edition \notin Early
      /\ rrc2.edition \notin Early /\ rrv2.edition \notin Early /\ rr1.edition \notin Early
      /\ rr2.edition \notin Early /\ rr27.edition \notin Early
  BY DEF Table, Early
<1>3. fr15.type = fr1.type /\ fr26.type = fr2.type /\ rr15.type = rr1.type /\ rr26.type = rr2.type
  BY DEF Table
<1> HIDE DEF fr1, frs1, fr15, fr2, frs2, fr27, fr26, lrc2, rrc2, rrv2, rr1, rr15, rr2, rr27, rr26
<1>4. /\ IsSeq(Meris) /\ Len(Meris) = 15
      /\ Meris[1] = fr1 /\ Meris[2] = frs1 /\ Meris[3] = fr15 /\ Meris[4] = fr2 /\ Meris[5] = frs2
      /\ Meris[6] = fr27 /\ Meris[7] = fr26 /\ Meris[8] = lrc2 /\ Meris[9] = rrc2 /\ Meris[10] = rrv2
      /\ Meris[11] = rr1 /\ Meris[12] = rr15 /\ Meris[13] = rr2 /\ Meris[14] = rr27 /\ Meris[15] = rr26
  BY <1>1, Tuple15
<1>5. DOMAIN Meris = 1 .. 15
  BY <1>4 DEF IsSeq
<1>6. ASSUME NEW j \in 1 .. 15, Meris[j].edition \in Early PROVE j \in {3, 7, 12, 15}
  BY <1>2, <1>4, <1>6
<1>7. ASSUME NEW j \in {3, 7, 12, 15} PROVE \E i \in 1 .. 15 : i < j /\ Meris[i].type = Meris[j].type
  <2>1. CASE j = 3
    BY <1>3, <1>4, <2>1
  <2>2. CASE j = 7
    BY <1>3, <1>4, <2>2
  <2>3. CASE j = 12
    BY <1>3, <1>4, <2>3
  <2>4. CASE j = 15
    BY <1>3, <1>4, <2>4
  <2> QED BY <2>1, <2>2, <2>3, <2>4
<1> QED BY <1>4, <1>5, <1>6, <1>7 DEF Listed

LEMMA ConcatListed ==
  ASSUME NEW s, NEW t, Listed(s), Listed(t)
  PROVE  Listed(s \o t)
<1>1. /\ Len(s) \in Nat /\ Len(t) \in Nat
      /\ DOMAIN (s \o t) = 1 .. Len(s) + Len(t)
      /\ \A i \in 1 .. Len(s) : (s \o t)[i] = s[i]
      /\ \A i \in 1 .. Len(t) : (s \o t)[Len(s) + i] = t[i]
      /\ IsSeq(s \o t)
  BY ConcatAt, Concatenation DEF Listed
<1>2. DOMAIN s = 1 .. Len(s) /\ DOMAIN t = 1 .. Len(t)
  BY DEF Listed, IsSeq
<1> DEFINE u == s \o t
<1> HIDE DEF u
<1>3. ASSUME NEW j \in 1 .. Len(s) + Len(t), u[j].edition \in Early
      PROVE  \E i \in 1 .. Len(s) + Len(t) : i < j /\ u[i].type = u[j].type
  <2>1. CASE j \in 1 .. Len(s)
    <3>1. u[j] = s[j]
      BY <1>1, <2>1 DEF u
    <3>2. PICK i \in 1 .. Len(s) : i < j /\ s[i].type = s[j].type
      BY <1>2, <1>3, <2>1, <3>1 DEF Listed
    <3>3. u[i] = s[i] /\ i \in 1 .. Len(s) + Len(t)
      BY <1>1, <3>2 DEF u
    <3> QED BY <3>1, <3>2, <3>3
  <2>2. CASE j \notin 1 .. Len(s)
    <3>1. j - Len(s) \in 1 .. Len(t) /\ j = Len(s) + (j - Len(s))
      BY <1>1, <2>2
    <3>2. u[j] = t[j - Len(s)]
      BY <1>1, <3>1 DEF u
    <3>3. PICK i \in 1 .. Len(t) : i < j - Len(s) /\ t[i].type = t[j - Len(s)].type
      BY <1>2, <1>3, <3>1, <3>2 DEF Listed
    <3>4. u[Len(s) + i] = t[i] /\ Len(s) + i \in 1 .. Len(s) + Len(t) /\ Len(s) + i < j
      BY <1>1, <3>1, <3>3 DEF u
    <3> QED BY <3>2, <3>3, <3>4
  <2> QED BY <2>1, <2>2
<1> QED BY <1>1, <1>3 DEF Listed, u

LEMMA ModesListed ==
  ASSUME NEW sensor, NEW modes, NEW level, NEW editions, IsSeq(modes), IsSeq(editions), Len(editions) # 0,
         \A k \in 1 .. Len(editions) : editions[k] \notin Early
  PROVE  Listed(Modes(sensor, modes, level, editions))
<1> DEFINE n == Len(editions)
           N == Len(modes) * n
           m == Modes(sensor, modes, level, editions)
<1>1. n \in Nat /\ N \in Nat
  BY DEF IsSeq
<1>2. m = [k \in 1 .. N |-> Table(sensor, modes[((k - 1) \div n) + 1], level, editions[((k - 1) % n) + 1])]
  BY DEF Modes
<1>3. ASSUME NEW k \in 1 .. N PROVE m[k].edition \notin Early
  <2>1. (k - 1) % n \in 0 .. n - 1
    BY <1>1
  <2>2. ((k - 1) % n) + 1 \in 1 .. n
    BY <1>1, <2>1
  <2>3. m[k].edition = editions[((k - 1) % n) + 1]
    BY <1>2 DEF Table
  <2> QED BY <2>2, <2>3
<1> HIDE DEF m, n, N
<1>4. IsSeq(m) /\ DOMAIN m = 1 .. N
  BY <1>1, <1>2, FunctionIsSeq
<1>5. Listed(m)
  BY <1>3, <1>4 DEF Listed
<1> QED BY <1>5 DEF m

LEMMA ListsListed == Listed(dddb_product_tables) /\ Listed(dddb_band_tables)
<1> DEFINE Old == <<"">>
           Both == <<"", "602">>
           Some(e) == IsSeq(e) /\ Len(e) # 0 /\ \A k \in 1 .. Len(e) : e[k] \notin Early
<1>1. Some(Old) /\ Some(Both)
  <2>1. ASSUME NEW x, NEW y, x \notin Early, y \notin Early PROVE Some(<<x>>) /\ Some(<<x, y>>)
    <3>1. /\ \A i \in 1 .. 1 : <<x>>[i] = x
          /\ \A i \in 1 .. 2 : <<x, y>>[i] \in {x, y}
          /\ Len(<<x>>) = 1 /\ Len(<<x, y>>) = 2
      OBVIOUS
    <3>2. IsSeq(<<x>>) /\ IsSeq(<<x, y>>)
      BY Tuple1, Tuple2
    <3> QED BY <2>1, <3>1, <3>2
  <2>2. "" \notin Early /\ "602" \notin Early
    BY DEF Early
  <2> HIDE DEF Some
  <2> QED BY <2>1, <2>2
<1> HIDE DEF Old, Both
<1>2. ASSUME NEW sensor, NEW modes, NEW level, IsSeq(modes)
      PROVE  Listed(Modes(sensor, modes, level, Old)) /\ Listed(Modes(sensor, modes, level, Both))
  BY <1>1, <1>2, ModesListed
<1>3. /\ \A a : IsSeq(<<a>>)
      /\ \A a, b : IsSeq(<<a, b>>)
      /\ \A a, b, c : IsSeq(<<a, b, c>>)
      /\ \A a, b, c, d : IsSeq(<<a, b, c, d>>)
  <2>1. \A a, b, c, d : <<a, b, c, d>> \in Seq({a, b, c, d})
    OBVIOUS
  <2>2. \A a, b, c, d : IsSeq(<<a, b, c, d>>)
    BY <2>1 DEF IsSeq
  <2> QED BY <2>2, Tuple1, Tuple2, Tuple3
<1>4. IsSeq(<< >>) /\ Listed(<< >>)
  <2>1. << >> \in Seq({}) /\ DOMAIN << >> = {}
    OBVIOUS
  <2> QED BY <2>1 DEF IsSeq, Listed
<1> DEFINE Radar(s, global, wide) ==
             Modes(s, <<"APG", "APM", "APP", "APS">>, "1P", Both) \o Modes(s, <<"AP_">>, "BP", Old) \o
             Modes(s, global \o <<"IMG", "IMM", "IMP", "IMS">>, "1P", Both) \o
             Modes(s, <<"IM_">>, "BP", Old) \o
             Modes(s, wide, "1P", Both) \o (IF wide = << >> THEN << >> ELSE Modes(s, <<"WS_">>, "BP", Old)) \o
             Modes(s, <<"WVI", "WVS">>, "1P", Old) \o Modes(s, <<"WVW">>, "2P", Old)
           Radiometer(s) ==
             Modes(s, <<"AR_", "MET", "NR_">>, "2P", Old) \o Modes(s, <<"TOA">>, "1P", Old)
           BandRadar(s, wide) ==
             Modes(s, <<"APG", "APM", "APP", "APS">>, "1P", Old) \o Modes(s, <<"AP_">>, "BP", Old) \o
             Modes(s, <<"IMG", "IMM", "IMP", "IMS">>, "1P", Old) \o Modes(s, <<"IM_">>, "BP", Old) \o
             Modes(s, wide, "1P", Old) \o (IF wide = << >> THEN << >> ELSE Modes(s, <<"WS_">>, "BP", Old))
           BandRadiometer(s) == Modes(s, <<"NR_">>, "2P", Old) \o Modes(s, <<"TOA">>, "1P", Old)
<1>5. ASSUME NEW s, NEW global, NEW wide, IsSeq(global), IsSeq(wide) PROVE Listed(Radar(s, global, wide))
  <2>1. IsSeq(global \o <<"IMG", "IMM", "IMP", "IMS">>)
    BY <1>3, <1>5, Concatenation
  <2> DEFINE ws == IF wide = << >> THEN << >> ELSE Modes(s, <<"WS_">>, "BP", Old)
  <2>2. Listed(ws)
    BY <1>2, <1>3, <1>4
  <2> HIDE DEF ws
  <2>3. /\ Listed(Modes(s, <<"APG", "APM", "APP", "APS">>, "1P", Both)) /\ Listed(Modes(s, <<"AP_">>, "BP", Old))
        /\ Listed(Modes(s, global \o <<"IMG", "IMM", "IMP", "IMS">>, "1P", Both))
        /\ Listed(Modes(s, <<"IM_">>, "BP", Old)) /\ Listed(Modes(s, wide, "1P", Both))
        /\ Listed(Modes(s, <<"WVI", "WVS">>, "1P", Old)) /\ Listed(Modes(s, <<"WVW">>, "2P", Old))
    BY <1>2, <1>3, <1>5, <2>1
  <2>4. Radar(s, global, wide) =
          Modes(s, <<"APG", "APM", "APP", "APS">>, "1P", Both) \o Modes(s, <<"AP_">>, "BP", Old) \o
          Modes(s, global \o <<"IMG", "IMM", "IMP", "IMS">>, "1P", Both) \o
          Modes(s, <<"IM_">>, "BP", Old) \o Modes(s, wide, "1P", Both) \o ws \o
          Modes(s, <<"WVI", "WVS">>, "1P", Old) \o Modes(s, <<"WVW">>, "2P", Old)
    BY DEF ws
  <2> HIDE DEF Radar
  <2> QED BY <2>2, <2>3, <2>4, ConcatListed
<1>6. ASSUME NEW s PROVE Listed(Radiometer(s)) /\ Listed(BandRadiometer(s))
  BY <1>2, <1>3, ConcatListed
<1>7. ASSUME NEW s, NEW wide, IsSeq(wide) PROVE Listed(BandRadar(s, wide))
  <2> DEFINE ws == IF wide = << >> THEN << >> ELSE Modes(s, <<"WS_">>, "BP", Old)
  <2>1. Listed(ws)
    BY <1>2, <1>3, <1>4
  <2> HIDE DEF ws
  <2>2. /\ Listed(Modes(s, <<"APG", "APM", "APP", "APS">>, "1P", Old)) /\ Listed(Modes(s, <<"AP_">>, "BP", Old))
        /\ Listed(Modes(s, <<"IMG", "IMM", "IMP", "IMS">>, "1P", Old))
        /\ Listed(Modes(s, <<"IM_">>, "BP", Old)) /\ Listed(Modes(s, wide, "1P", Old))
    BY <1>2, <1>3, <1>7
  <2>3. BandRadar(s, wide) =
          Modes(s, <<"APG", "APM", "APP", "APS">>, "1P", Old) \o Modes(s, <<"AP_">>, "BP", Old) \o
          Modes(s, <<"IMG", "IMM", "IMP", "IMS">>, "1P", Old) \o Modes(s, <<"IM_">>, "BP", Old) \o
          Modes(s, wide, "1P", Old) \o ws
    BY DEF ws
  <2> HIDE DEF BandRadar
  <2> QED BY <2>1, <2>2, <2>3, ConcatListed
<1>8. /\ dddb_product_tables =
           Radar("ASA", <<"GM1">>, <<"WSM">>) \o Radiometer("ATS") \o Radiometer("AT2") \o
           Meris \o Radar("SAR", << >>, << >>)
      /\ dddb_band_tables =
           BandRadar("ASA", <<"WSM">>) \o BandRadiometer("ATS") \o BandRadiometer("AT2") \o
           Meris \o BandRadar("SAR", << >>)
  BY DEF dddb_product_tables, dddb_band_tables, Old, Both
<1> HIDE DEF Radar, Radiometer, BandRadar, BandRadiometer
<1>9. Listed(Radar("ASA", <<"GM1">>, <<"WSM">>)) /\ Listed(Radar("SAR", << >>, << >>))
  BY <1>3, <1>4, <1>5
<1>10. Listed(BandRadar("ASA", <<"WSM">>)) /\ Listed(BandRadar("SAR", << >>))
  BY <1>3, <1>4, <1>7
<1> QED BY <1>6, <1>8, <1>9, <1>10, MerisListed, ConcatListed

\* The edition that was detected is that of the file, and the tables are those
\* of its type and the edition.
Tables ==
  /\ pc # "detect" =>
       meris_iodd_version = IF Sensor = "MER" THEN epr_detect_meris_iodd_version ELSE 0
  /\ pc \in {"datasets", "bands", "open"} => pt_index # 0 /\ pt_index = ProductTable
  /\ bt_index # 0 => bt_index = BandTable

LEMMA SameTables ==
  ASSUME file' = file
  PROVE  /\ Sensor' = Sensor /\ epr_detect_meris_iodd_version' = epr_detect_meris_iodd_version
         /\ meris_iodd_version' = meris_iodd_version => ProductTable' = ProductTable /\ BandTable' = BandTable
<1>1. Sensor' = Sensor /\ \A name : Named(name)' = Named(name)
  BY DEF Sensor, Named
<1>2. \A name : SizeOf(name)' = SizeOf(name)
  BY <1>1 DEF SizeOf
<1>3. epr_detect_meris_iodd_version' = epr_detect_meris_iodd_version
  BY <1>1, <1>2 DEF epr_detect_meris_iodd_version, TwoEditions
<1>4. epr_detect_asar_sw_version' = epr_detect_asar_sw_version
  BY <1>1, <1>2 DEF epr_detect_asar_sw_version
<1>5. \A tables : OfType(tables)' = OfType(tables)
  BY DEF OfType
<1>6. ASSUME meris_iodd_version' = meris_iodd_version PROVE \A tables, i : IODD(tables, i)' <=> IODD(tables, i)
  BY <1>6 DEF IODD
<1>7. ASSUME meris_iodd_version' = meris_iodd_version PROVE BandTable' = BandTable
  BY <1>5, <1>6, <1>7 DEF BandTable
<1>8. ASSUME meris_iodd_version' = meris_iodd_version PROVE ProductTable' = ProductTable
  BY <1>4, <1>5, <1>8, ZenonT(60) DEF ProductTable, IODD
<1> QED BY <1>1, <1>3, <1>7, <1>8

LEMMA InitTables == Init => Tables
  BY DEF Init, Tables

LEMMA NextTables == ASSUME IInv, Tables, [Next]_vars PROVE Tables'
<1>1. CASE Detect
  BY <1>1, SameTables DEF Detect, Tables, IInv, Started
<1>2. CASE StartDatasets
  <2>1. /\ file' = file /\ meris_iodd_version' = meris_iodd_version /\ pc = "tables"
        /\ bt_index' = bt_index /\ pt_index' = ProductTable
        /\ pc' \in {"datasets", "bands", "open"} => ProductTable # 0
    BY <1>2 DEF StartDatasets
  <2> QED BY <2>1, SameTables DEF Tables
<1>3. CASE StartBands
  <2>1. /\ file' = file /\ meris_iodd_version' = meris_iodd_version /\ pc = "datasets"
        /\ bt_index' = BandTable /\ pt_index' = pt_index
    BY <1>3 DEF StartBands
  <2> QED BY <2>1, SameTables DEF Tables
<1>4. CASE SkipDataset \/ AddDataset \/ AddBand \/ MissingDataset \/ OutOfMemory \/ Opened \/ Ended \/ UNCHANGED vars
  <2>1. /\ file' = file /\ meris_iodd_version' = meris_iodd_version /\ bt_index' = bt_index
        /\ pt_index' = pt_index
        /\ pc # "detect" \/ pc' = pc
        /\ pc' \in {"datasets", "bands", "open"} => pc \in {"datasets", "bands", "open"}
    BY <1>4 DEF SkipDataset, AddDataset, AddBand, MissingDataset, OutOfMemory, Opened, Ended, vars,
                CreatingDatasets, CreatingBands, GiveUpBands
  <2> QED BY <2>1, SameTables DEF Tables
<1> QED BY <1>1, <1>2, <1>3, <1>4 DEF Next

\* The tables with datasets, by kind of product.
RadarTypes         == {<<"ASA", "APG", "1P">>, <<"SAR", "APG", "1P">>}
MerisTypes(level) == {<<"MER", "RR_", level>>, <<"MER", "FR_", level>>, <<"MER", "FRS", level>>}

AlphaMDS19 == <<"Alpha, OPT", "MDS(19)">>

LEMMA Kinds ==
  file.type \in Described =>
    \/ file.type \in RadarTypes /\ Sensor # "MER"
    \/ file.type \in MerisTypes("1P") /\ Sensor = "MER"
    \/ file.type \in MerisTypes("2P") /\ Sensor = "MER"
  BY DEF Described, RadarTypes, MerisTypes, Sensor

LEMMA RowsOfKind ==
  ASSUME NEW edition
  PROVE  /\ file.type \notin Described => EditionRows(edition) = << >>
         /\ file.type \in RadarTypes =>
              EditionRows(edition) = GeocodedRows(IF edition = "602" THEN ASAR_Main_ADSR_602 ELSE ASAR_Main_ADSR)
         /\ file.type \in MerisTypes("1P") =>
              EditionRows(edition) =
                Level1Rows(IF edition = "IODD5" THEN MER_RR__1P_MDSR_16_IODD5 ELSE MER_RR__1P_MDSR_16)
         /\ file.type \in MerisTypes("2P") =>
              EditionRows(edition) = IF edition = "IODD6" THEN Level2Rows("Epsilon_OPT", EpsilonMDS19)
                                                          ELSE Level2Rows("Alpha_OPT", AlphaMDS19)
<1>1. file.type \notin Described => EditionRows(edition) = << >>
  BY DEF EditionRows
<1>2. ASSUME file.type \in RadarTypes
      PROVE  EditionRows(edition) = GeocodedRows(IF edition = "602" THEN ASAR_Main_ADSR_602 ELSE ASAR_Main_ADSR)
  <2>1. file.type \in Described /\ Sensor # "MER"
    BY <1>2 DEF RadarTypes, Described, Sensor
  <2> QED BY <2>1 DEF EditionRows, ASA_APG_1P_602_dataset_data, ASA_APG_1P_dataset_data
<1>3. ASSUME file.type \in MerisTypes("1P")
      PROVE  EditionRows(edition) =
               Level1Rows(IF edition = "IODD5" THEN MER_RR__1P_MDSR_16_IODD5 ELSE MER_RR__1P_MDSR_16)
  <2>1. file.type \in Described /\ Sensor = "MER" /\ file.type[3] = "1P"
    BY <1>3 DEF MerisTypes, Described, Sensor
  <2> QED BY <2>1 DEF EditionRows, MER_RR__1P_IODD5_dataset_data, MER_RR__1P_dataset_data,
                      MER_FR__1P_IODD5_dataset_data, MER_FR__1P_dataset_data
<1>4. ASSUME file.type \in MerisTypes("2P")
      PROVE  EditionRows(edition) = IF edition = "IODD6" THEN Level2Rows("Epsilon_OPT", EpsilonMDS19)
                                                         ELSE Level2Rows("Alpha_OPT", AlphaMDS19)
  <2>1. file.type \in Described /\ Sensor = "MER" /\ file.type[3] = "2P"
    BY <1>4 DEF MerisTypes, Described, Sensor
  <2> QED BY <2>1 DEF EditionRows, MER_RR__2P_IODD6_dataset_data, MER_RR__2P_dataset_data,
                      MER_FR__2P_IODD6_dataset_data, MER_FR__2P_dataset_data, AlphaMDS19
<1> QED BY <1>1, <1>2, <1>3, <1>4

LEMMA BandsOfKind ==
  LET edition == dddb_band_tables[bt_index].edition
  IN  /\ file.type \in RadarTypes => BandRows = ASA_APG_1P_band_data
      /\ file.type \in MerisTypes("1P") =>
           BandRows = IF edition = "IODD5" THEN MER_RR__1P_IODD5_band_data ELSE MER_RR__1P_band_data
      /\ file.type \in MerisTypes("2P") =>
           BandRows = IF edition = "IODD6" THEN MER_RR__2P_IODD6_band_data ELSE MER_RR__2P_band_data
<1>1. ASSUME file.type \in RadarTypes PROVE BandRows = ASA_APG_1P_band_data
  <2>1. Sensor # "MER"
    BY <1>1 DEF RadarTypes, Sensor
  <2> QED BY <2>1 DEF BandRows
<1> DEFINE edition == dddb_band_tables[bt_index].edition
<1>2. ASSUME file.type \in MerisTypes("1P")
      PROVE  BandRows = IF edition = "IODD5" THEN MER_RR__1P_IODD5_band_data ELSE MER_RR__1P_band_data
  <2>1. Sensor = "MER" /\ file.type[3] = "1P"
    BY <1>2 DEF MerisTypes, Sensor
  <2> QED BY <2>1 DEF BandRows, MER_FR__1P_IODD5_band_data, MER_FR__1P_band_data
<1>3. ASSUME file.type \in MerisTypes("2P")
      PROVE  BandRows = IF edition = "IODD6" THEN MER_RR__2P_IODD6_band_data ELSE MER_RR__2P_band_data
  <2>1. Sensor = "MER" /\ file.type[3] = "2P"
    BY <1>3 DEF MerisTypes, Sensor
  <2> QED BY <2>1 DEF BandRows, MER_FR__2P_IODD6_band_data, MER_FR__2P_band_data
<1> QED BY <1>1, <1>2, <1>3

LEMMA IndexFacts == DOMAIN dddb_product_tables \subseteq Nat /\ DOMAIN dddb_band_tables \subseteq Nat
<1>1. ASSUME NEW s, IsSeq(s) PROVE DOMAIN s \subseteq Nat
  BY <1>1 DEF IsSeq
<1> QED BY <1>1, ListsListed DEF Listed

LEMMA FirstOf ==
  ASSUME NEW S, S \subseteq Nat, First(S) # 0
  PROVE  First(S) \in S /\ \A y \in S : First(S) <= y
  BY Least DEF First

\* Both tables are of the edition that was detected, or of none.
LEMMA ChosenProduct ==
  ASSUME Tables, pt_index # 0, pc = "open"
  PROVE  LET edition == dddb_product_tables[pt_index].edition
         IN  /\ meris_iodd_version = 5 => edition = "IODD5"
             /\ meris_iodd_version = 6 => edition = "IODD6"
             /\ meris_iodd_version \notin {5, 6} =>
                  edition = IF epr_detect_asar_sw_version >= 602 THEN "602" ELSE ""
<1> DEFINE own == IF epr_detect_asar_sw_version >= 602 THEN "602" ELSE ""
           Fits(i) == \/ IODD(dddb_product_tables, i)
                      \/ meris_iodd_version \notin {5, 6} /\ dddb_product_tables[i].edition = own
           S == {i \in OfType(dddb_product_tables) : Fits(i)}
<1>1. pt_index = First(S)
  BY DEF Tables, ProductTable
<1> HIDE DEF own, Fits
<1>2. S \subseteq Nat
  BY IndexFacts DEF OfType
<1> HIDE DEF S
<1>3. pt_index \in S
  BY <1>1, <1>2, FirstOf
<1>4. Fits(pt_index)
  BY <1>3 DEF S
<1>5. /\ meris_iodd_version = 5 => dddb_product_tables[pt_index].edition = "IODD5"
      /\ meris_iodd_version = 6 => dddb_product_tables[pt_index].edition = "IODD6"
      /\ meris_iodd_version \notin {5, 6} => dddb_product_tables[pt_index].edition = own
  BY <1>4 DEF Fits, IODD
<1> QED BY <1>5 DEF own

LEMMA ChosenBands ==
  ASSUME Tables, bt_index # 0
  PROVE  LET edition == dddb_band_tables[bt_index].edition
         IN  /\ meris_iodd_version = 5 => edition = "IODD5"
             /\ meris_iodd_version = 6 => edition = "IODD6"
             /\ meris_iodd_version \notin {5, 6} => edition \notin Early
<1> DEFINE S == {i \in OfType(dddb_band_tables) :
                   meris_iodd_version \in {5, 6} => IODD(dddb_band_tables, i)}
<1>1. S \subseteq Nat
  BY IndexFacts DEF OfType
<1>2. bt_index = First(S)
  BY DEF Tables, BandTable
<1> HIDE DEF S
<1>3. bt_index \in S /\ \A y \in S : bt_index <= y
  BY <1>1, <1>2, FirstOf
<1>4. CASE meris_iodd_version \in {5, 6}
  BY <1>3, <1>4 DEF S, IODD
<1>5. CASE meris_iodd_version \notin {5, 6}
  <2>1. S = OfType(dddb_band_tables)
    BY <1>5 DEF S, OfType
  <2>2. ASSUME dddb_band_tables[bt_index].edition \in Early PROVE FALSE
    <3>1. bt_index \in DOMAIN dddb_band_tables /\ dddb_band_tables[bt_index].type = file.type
      BY <1>3, <2>1 DEF OfType
    <3>2. PICK i \in DOMAIN dddb_band_tables :
            i < bt_index /\ dddb_band_tables[i].type = dddb_band_tables[bt_index].type
      BY <2>2, <3>1, ListsListed DEF Listed
    <3>3. i \in S
      BY <2>1, <3>1, <3>2 DEF OfType
    <3>4. i \in Nat /\ bt_index \in Nat /\ bt_index <= i
      BY <1>1, <1>3, <3>3
    <3> QED BY <3>2, <3>4
  <2> QED BY <1>5, <2>2
<1> QED BY <1>4, <1>5

\* The tables of the datasets and of the bands of a MERIS product have one edition.
LEMMA OneEdition ==
  ASSUME Tables, pc = "open", bt_index # 0
  PROVE  LET p == dddb_product_tables[pt_index].edition
             b == dddb_band_tables[bt_index].edition
         IN  (p = "IODD5" <=> b = "IODD5") /\ (p = "IODD6" <=> b = "IODD6")
<1>1. pt_index # 0
  BY DEF Tables
<1> QED BY <1>1, ChosenProduct, ChosenBands DEF Early

-----------------------------------------------------------------------------
(***************************************************************************)
(* Bands and their datasets.                                               *)
(***************************************************************************)

\* The dataset that is looked up is the first with its name.
LEMMA FoundDataset ==
  ASSUME IInv, NEW n, HasDataset(n)
  PROVE  LET d == dataset_ids.elems[DatasetId(n)]
         IN  /\ d \in DatasetIds /\ DatasetRows[d.row].id = n
             /\ pt_index # 0 => DatasetRows[d.row] \in Range(DatasetRows)
<1> DEFINE S == {i \in DOMAIN dataset_ids.elems : DatasetRows[dataset_ids.elems[i].row].id = n}
           d == dataset_ids.elems[DatasetId(n)]
<1>1. S \subseteq Nat
  <2>1. PICK T : dataset_ids \in Arrays(T)
    BY DEF IInv, IsArray
  <2>2. dataset_ids.elems \in Seq(T)
    BY <2>1 DEF Arrays
  <2> QED BY <2>2
<1>2. DatasetId(n) = First(S) /\ First(S) # 0
  BY DEF DatasetId, HasDataset
<1> HIDE DEF S
<1>3. DatasetId(n) \in S
  BY <1>1, <1>2, FirstOf
<1>4. d \in DatasetIds /\ DatasetRows[d.row].id = n
  BY <1>3 DEF S, DatasetIds, Range
<1> HIDE DEF d
<1>5. ASSUME pt_index # 0 PROVE DatasetRows[d.row] \in Range(DatasetRows)
  <2>1. d.row \in DOMAIN DatasetRows
    BY <1>4, <1>5 DEF IInv, TypeOK
  <2> QED BY <2>1 DEF Range
<1> QED BY <1>4, <1>5 DEF d

LEMMA NoRows == Range(<< >>) = {}
  BY DEF Range

\* The row of a band and that of the dataset it names, in tables of one edition.
LEMMA BandFits ==
  ASSUME Tables, pc = "open", bt_index # 0,
         NEW r \in Range(BandRows), NEW x \in Range(DatasetRows), x.id = r.dataset
  PROVE  FieldFits(r, x.rec)
<1> DEFINE p == dddb_product_tables[pt_index].edition
           b == dddb_band_tables[bt_index].edition
<1>1. (p = "IODD5" <=> b = "IODD5") /\ (p = "IODD6" <=> b = "IODD6")
  BY OneEdition
<1>2. DatasetRows = EditionRows(p)
  BY DEF DatasetRows
<1> HIDE DEF p
<1>3. file.type \in Described
  BY <1>2, RowsOfKind, NoRows
<1>4. CASE file.type \in RadarTypes
  <2>1. GeocodedBand(r)
    BY <1>4, BandsOfKind, GeocodedBandTable
  <2>2. PICK main : GeocodedRow(x, main)
    <3>1. PICK main : DatasetRows = GeocodedRows(main)
      BY <1>2, <1>4, RowsOfKind
    <3> QED BY <3>1, GeocodedTable
  <2> QED BY <2>1, <2>2 DEF GeocodedBand, GeocodedRow
<1>5. CASE file.type \in MerisTypes("1P")
  <2> DEFINE flags == IF b = "IODD5" THEN MER_RR__1P_MDSR_16_IODD5 ELSE MER_RR__1P_MDSR_16
  <2>1. Level1Band(r, flags)
    BY <1>5, BandsOfKind, Level1BandTables
  <2>2. DatasetRows = Level1Rows(flags)
    BY <1>1, <1>2, <1>5, RowsOfKind
  <2> HIDE DEF flags
  <2>3. Level1Row(x, flags)
    BY <2>2, Level1Table
  <2> QED BY <2>1, <2>3, NumberedIds DEF Level1Band, Level1Row
<1>6. CASE file.type \in MerisTypes("2P")
  <2> DEFINE id19 == IF b = "IODD6" THEN "Epsilon_OPT" ELSE "Alpha_OPT"
             name19 == IF b = "IODD6" THEN EpsilonMDS19 ELSE AlphaMDS19
  <2>1. Level2Band(r, id19)
    BY <1>6, BandsOfKind, Level2BandTables
  <2>2. DatasetRows = Level2Rows(id19, name19)
    BY <1>1, <1>2, <1>6, RowsOfKind
  <2>3. id19 \in {"Epsilon_OPT", "Alpha_OPT"}
    OBVIOUS
  <2> HIDE DEF id19, name19
  <2>4. Level2Row(x, id19, name19)
    BY <2>2, Level2Table
  <2> QED BY <2>1, <2>3, <2>4, NumberedIds DEF Level2Band, Level2Row, OneValue, TwoValues
<1> QED BY <1>3, <1>4, <1>5, <1>6, Kinds

LEMMA OpenBands ==
  ASSUME IInv, pc = "open", NEW b \in BandIds
  PROVE  /\ bt_index # 0 /\ BandRows[b.row] \in Range(BandRows)
         /\ HasDataset(BandRows[b.row].dataset)
<1>1. band_ids # NULL
  BY NullFacts DEF BandIds, Range
<1>2. bt_index # 0 /\ \A i \in DOMAIN BandRows : HasDataset(BandRows[i].dataset)
  BY <1>1 DEF IInv, AllBandsOrNone
<1>3. b.row \in DOMAIN BandRows
  BY <1>2 DEF IInv, TypeOK
<1> QED BY <1>2, <1>3 DEF Range

\* Without failures every row of the table has its band.
LEMMA EveryRow ==
  ASSUME IInv, pc = "open", BandIds # {}, failures = 0, NEW i \in DOMAIN BandRows
  PROVE  \E f \in BandIds : f.row = i
<1>1. band_ids # NULL
  BY NullFacts DEF BandIds, Range
<1> DEFINE rows == [k \in DOMAIN band_ids.elems |-> band_ids.elems[k].row]
<1>2. rows = [k \in DOMAIN BandRows |-> k]
  BY <1>1 DEF IInv, AllBandsOrNone
<1>3. i \in DOMAIN band_ids.elems /\ band_ids.elems[i].row = i
  <2>1. DOMAIN rows = DOMAIN BandRows /\ rows[i] = i
    BY <1>2
  <2> QED BY <2>1
<1> QED BY <1>3 DEF BandIds, Range

\* A mask of the table names a flag that a band of the table defines.
LEMMA MaskResolves ==
  ASSUME NEW r \in Range(BandRows), r.mask # NoMask, file.type \in Described
  PROVE  \E i \in DOMAIN BandRows : /\ BandRows[i].id = r.mask[2]
                                    /\ r.mask[3] \in DOMAIN FlagCoding(BandRows[i].flags)
<1>1. CASE file.type \in RadarTypes
  BY <1>1, BandsOfKind, GeocodedBandTable DEF GeocodedBand
<1>2. CASE file.type \in MerisTypes("1P")
  <2>1. (\E rec : Level1Band(r, rec)) /\ HasFlags(BandRows, "l1_flags", {"INVALID"})
    BY <1>2, BandsOfKind, Level1BandTables
  <2>2. r.mask[2] = "l1_flags" /\ r.mask[3] = "INVALID"
    BY <2>1 DEF Level1Band, Level1Masks
  <2> QED BY <2>1, <2>2 DEF HasFlags, Range
<1>3. CASE file.type \in MerisTypes("2P")
  <2>1. (\E id19 : Level2Band(r, id19)) /\ HasFlags(BandRows, "l2_flags", MaskFlags)
    BY <1>3, BandsOfKind, Level2BandTables
  <2>2. PICK f \in MaskFlags : r.mask = Is(f) \/ r.mask = Not(f)
    BY <2>1 DEF Level2Band, Level2Masks
  <2>3. /\ Is(f)[2] = "l2_flags" /\ Is(f)[3] = f
        /\ Not(f)[2] = "l2_flags" /\ Not(f)[3] = f
    BY DEF Is, Not
  <2>4. r.mask[2] = "l2_flags" /\ r.mask[3] = f
    BY <2>2, <2>3
  <2> QED BY <2>1, <2>4 DEF HasFlags, Range
<1> QED BY <1>1, <1>2, <1>3, Kinds

LEMMA TablesResolve == IInv /\ Tables => BandsResolve
<1> SUFFICES ASSUME IInv, Tables, pc = "open", NEW b \in BandIds
             PROVE  LET r == BandRows[b.row]
                        rec == Fields(dataset_ids.elems[DatasetId(r.dataset)])
                    IN  /\ HasDataset(r.dataset)
                        /\ r.field \in DOMAIN rec
                        /\ rec[r.field].num \in {PerPixel(r) * SceneRasterWidth, TiePointGridWidth, 11}
                        /\ failures = 0 /\ r.mask # NoMask =>
                             \E f \in BandIds :
                               /\ BandRows[f.row].id = r.mask[2]
                               /\ r.mask[3] \in DOMAIN FlagCoding(BandRows[f.row].flags)
  BY DEF BandsResolve
<1> DEFINE r == BandRows[b.row]
           d == dataset_ids.elems[DatasetId(r.dataset)]
<1>1. bt_index # 0 /\ r \in Range(BandRows) /\ HasDataset(r.dataset)
  BY OpenBands
<1>2. pt_index # 0
  BY DEF Tables
<1>3. DatasetRows[d.row] \in Range(DatasetRows) /\ DatasetRows[d.row].id = r.dataset
  BY <1>1, <1>2, FoundDataset
<1>4. FieldFits(r, Fields(d))
  BY <1>1, <1>3, BandFits DEF Fields
<1>5. file.type \in Described
  BY <1>3, RowsOfKind, NoRows DEF DatasetRows
<1>6. ASSUME failures = 0, r.mask # NoMask
      PROVE  \E f \in BandIds : /\ BandRows[f.row].id = r.mask[2]
                                /\ r.mask[3] \in DOMAIN FlagCoding(BandRows[f.row].flags)
  <2>1. PICK i \in DOMAIN BandRows : /\ BandRows[i].id = r.mask[2]
                                     /\ r.mask[3] \in DOMAIN FlagCoding(BandRows[i].flags)
    BY <1>1, <1>5, <1>6, MaskResolves
  <2>2. PICK f \in BandIds : f.row = i
    BY <1>6, EveryRow
  <2> QED BY <2>1, <2>2
<1> QED BY <1>1, <1>4, <1>6 DEF FieldFits, Readings

-----------------------------------------------------------------------------
(***************************************************************************)
(* The sizes of records.                                                   *)
(***************************************************************************)

LEMMA SetInduction ==
  ASSUME NEW S, 0 \in S, \A n \in Nat : n \in S => n + 1 \in S
  PROVE  Nat \subseteq S
<1> SUFFICES ASSUME Nat \ S # {} PROVE FALSE
  OBVIOUS
<1> DEFINE x == Min(Nat \ S)
<1>1. x \in Nat \ S /\ \A y \in Nat \ S : x <= y
  BY Least
<1> HIDE DEF x
<1>2. x # 0 /\ x - 1 \in Nat /\ (x - 1) + 1 = x /\ ~(x <= x - 1)
  BY <1>1
<1> QED BY <1>1, <1>2

\* The sum in TotSize is what its definition says it is.
LEMMA SumExists ==
  ASSUME NEW b, NEW L \in Nat, \A n \in 1 .. L : b[n] \in Nat
  PROVE  \E g : g = [n \in 0 .. L |-> IF n = 0 THEN 0 ELSE g[n - 1] + b[n]]
<1> DEFINE Sum(g, m) == g[0] = 0 /\ \A n \in 1 .. m : g[n] = g[n - 1] + b[n]
           S == {m \in Nat : m <= L => \E g \in [0 .. m -> Nat] : Sum(g, m)}
<1>1. 0 \in S
  <2>1. Sum([n \in 0 .. 0 |-> 0], 0)
    OBVIOUS
  <2> QED BY <2>1
<1>2. ASSUME NEW m \in Nat, m \in S PROVE m + 1 \in S
  <2> SUFFICES ASSUME m + 1 <= L PROVE \E g \in [0 .. m + 1 -> Nat] : Sum(g, m + 1)
    OBVIOUS
  <2>1. PICK g \in [0 .. m -> Nat] : Sum(g, m)
    BY <1>2
  <2> DEFINE h == [n \in 0 .. m + 1 |-> IF n = m + 1 THEN g[m] + b[m + 1] ELSE g[n]]
  <2>2. h \in [0 .. m + 1 -> Nat]
    OBVIOUS
  <2>3. Sum(h, m + 1)
    BY <2>1
  <2> HIDE DEF h
  <2> QED BY <2>2, <2>3
<1>3. L \in S
  <2> HIDE DEF S
  <2> QED BY <1>1, <1>2, SetInduction
<1>4. PICK g \in [0 .. L -> Nat] : Sum(g, L)
  <2>1. L <= L => \E g \in [0 .. L -> Nat] : Sum(g, L)
    <3> HIDE DEF Sum
    <3> QED BY <1>3
  <2> HIDE DEF Sum
  <2> QED BY <2>1
<1>5. g = [n \in 0 .. L |-> IF n = 0 THEN 0 ELSE g[n - 1] + b[n]]
  BY <1>4
<1> QED BY <1>5

LEMMA SizeIsSum ==
  ASSUME NEW rec, Len(rec) \in Nat, \A n \in 1 .. Len(rec) : rec[n].num * rec[n].size \in Nat
  PROVE  \E g : /\ g[0] = 0 /\ TotSize(rec) = g[Len(rec)]
                /\ \A n \in 1 .. Len(rec) : g[n] = g[n - 1] + rec[n].num * rec[n].size
<1> DEFINE L == Len(rec)
           b == [n \in 1 .. L |-> rec[n].num * rec[n].size]
           IsSum(g) == g = [n \in 0 .. L |-> IF n = 0 THEN 0 ELSE g[n - 1] + rec[n].num * rec[n].size]
           sum == CHOOSE g : IsSum(g)
<1>1. \E g : IsSum(g)
  <2>1. \E g : g = [n \in 0 .. L |-> IF n = 0 THEN 0 ELSE g[n - 1] + b[n]]
    <3>1. \A n \in 1 .. L : b[n] \in Nat
      OBVIOUS
    <3> HIDE DEF b
    <3> QED BY <3>1, SumExists
  <2>2. \A n \in 1 .. L : b[n] = rec[n].num * rec[n].size
    OBVIOUS
  <2> HIDE DEF b
  <2>3. PICK g : g = [n \in 0 .. L |-> IF n = 0 THEN 0 ELSE g[n - 1] + b[n]]
    BY <2>1
  <2>4. \A n \in 0 .. L : (IF n = 0 THEN 0 ELSE g[n - 1] + b[n]) =
                            IF n = 0 THEN 0 ELSE g[n - 1] + rec[n].num * rec[n].size
    BY <2>2
  <2>5. [n \in 0 .. L |-> IF n = 0 THEN 0 ELSE g[n - 1] + b[n]] =
          [n \in 0 .. L |-> IF n = 0 THEN 0 ELSE g[n - 1] + rec[n].num * rec[n].size]
    BY <2>4
  <2> QED BY <2>3, <2>5
<1>2. TotSize(rec) = sum[L]
  BY DEF TotSize
<1> HIDE DEF IsSum
<1>3. IsSum(sum)
  BY <1>1
<1> HIDE DEF sum
<1>4. sum[0] = 0 /\ \A n \in 1 .. L : sum[n] = sum[n - 1] + rec[n].num * rec[n].size
  BY <1>3 DEF IsSum
<1> QED BY <1>2, <1>4

\* The sizes that tell the editions apart.
LEMMA FlagSizes ==
  /\ TotSize(MER_RR__1P_MDSR_16) = 13 + 3 * SceneRasterWidth
  /\ TotSize(MER_RR__1P_MDSR_16_IODD5) = 13 + 2 * SceneRasterWidth
<1> DEFINE W == SceneRasterWidth
<1> USE WidthsAssumption
<1>1. ASSUME NEW t, IsSeq(t), NEW rec, rec = Begin \o t
      PROVE  /\ Len(rec) = Len(t) + 2
             /\ rec[1].num * rec[1].size = 12 /\ rec[2].num * rec[2].size = 1
             /\ \A i \in 1 .. Len(t) : rec[2 + i] = t[i]
  <2>1. Len(t) \in Nat
    BY <1>1 DEF IsSeq
  <2>2. /\ Len(rec) = Len(t) + 2 /\ rec[1] = Field(1, 12) /\ rec[2] = Field(1, 1)
        /\ \A i \in 1 .. Len(t) : rec[2 + i] = t[i]
    BY <1>1, <2>1, AfterBegin
  <2>3. \A a, b : Field(a, b).num = a /\ Field(a, b).size = b
    BY DEF Field
  <2>4. rec[1].num * rec[1].size = 12 /\ rec[2].num * rec[2].size = 1
    BY <2>2, <2>3
  <2> QED BY <2>2, <2>4
<1>2. TotSize(MER_RR__1P_MDSR_16) = 13 + 3 * W
  <2> DEFINE rec == MER_RR__1P_MDSR_16
             a == Pixels(1)
             b == Field(W, 2)
             t == <<a, b>>
  <2>1. a.num * a.size = W /\ b.num * b.size = 2 * W
    BY DEF Pixels, Field
  <2>2. IsSeq(t) /\ Len(t) = 2 /\ t[1] = a /\ t[2] = b
    BY Tuple2
  <2>3. rec = Begin \o t
    BY DEF MER_RR__1P_MDSR_16
  <2> HIDE DEF rec, a, b, t
  <2>4. /\ Len(rec) = Len(t) + 2
        /\ rec[1].num * rec[1].size = 12 /\ rec[2].num * rec[2].size = 1
        /\ \A i \in 1 .. Len(t) : rec[2 + i] = t[i]
    BY <2>2, <2>3, <1>1
  <2>5. /\ Len(rec) = 4 /\ rec[1].num * rec[1].size = 12 /\ rec[2].num * rec[2].size = 1
        /\ rec[3].num * rec[3].size = W /\ rec[4].num * rec[4].size = 2 * W
    <3>1. rec[2 + 1] = t[1] /\ rec[2 + 2] = t[2]
      BY <2>2, <2>4
    <3>2. rec[3] = a /\ rec[4] = b
      BY <2>2, <3>1
    <3> QED BY <2>1, <2>2, <2>4, <3>2
  <2>6. Len(rec) \in Nat /\ \A n \in 1 .. Len(rec) : rec[n].num * rec[n].size \in Nat
    <3>1. W \in Nat /\ 2 * W \in Nat
      OBVIOUS
    <3> QED BY <2>5, <3>1
  <2>7. PICK g : /\ g[0] = 0 /\ TotSize(rec) = g[Len(rec)]
                 /\ \A n \in 1 .. Len(rec) : g[n] = g[n - 1] + rec[n].num * rec[n].size
    BY <2>6, SizeIsSum
  <2>8. g[1] = 12 /\ g[2] = 12 + 1 /\ g[3] = 13 + W /\ g[4] = (13 + W) + 2 * W
    BY <2>5, <2>7
  <2> QED BY <2>5, <2>7, <2>8 DEF rec
<1>3. TotSize(MER_RR__1P_MDSR_16_IODD5) = 13 + 2 * W
  <2> DEFINE rec == MER_RR__1P_MDSR_16_IODD5
             a == Pixels(2)
             t == <<a>>
  <2>1. a.num * a.size = 2 * W
    BY DEF Pixels, Field
  <2>2. IsSeq(t) /\ Len(t) = 1 /\ t[1] = a
    BY Tuple1
  <2>3. rec = Begin \o t
    BY DEF MER_RR__1P_MDSR_16_IODD5
  <2> HIDE DEF rec, a, t
  <2>4. /\ Len(rec) = Len(t) + 2
        /\ rec[1].num * rec[1].size = 12 /\ rec[2].num * rec[2].size = 1
        /\ \A i \in 1 .. Len(t) : rec[2 + i] = t[i]
    BY <2>2, <2>3, <1>1
  <2>5. /\ Len(rec) = 3 /\ rec[1].num * rec[1].size = 12 /\ rec[2].num * rec[2].size = 1
        /\ rec[3].num * rec[3].size = 2 * W
    <3>1. rec[2 + 1] = t[1]
      BY <2>2, <2>4
    <3> QED BY <2>1, <2>2, <2>4, <3>1
  <2>6. Len(rec) \in Nat /\ \A n \in 1 .. Len(rec) : rec[n].num * rec[n].size \in Nat
    <3>1. 2 * W \in Nat
      OBVIOUS
    <3> QED BY <2>5, <3>1
  <2>7. PICK g : /\ g[0] = 0 /\ TotSize(rec) = g[Len(rec)]
                 /\ \A n \in 1 .. Len(rec) : g[n] = g[n - 1] + rec[n].num * rec[n].size
    BY <2>6, SizeIsSum
  <2>8. g[1] = 12 /\ g[2] = 12 + 1 /\ g[3] = 13 + 2 * W
    BY <2>5, <2>7
  <2> QED BY <2>5, <2>7, <2>8 DEF rec
<1> QED BY <1>2, <1>3

LEMMA MainSizes == TotSize(ASAR_Main_ADSR) = 2009 /\ TotSize(ASAR_Main_ADSR_602) = 10069
<1>1. TotSize(ASAR_Main_ADSR) = 2009
  <2> DEFINE rec == ASAR_Main_ADSR
  <2>1. /\ Len(rec) = 3 /\ rec[1].num * rec[1].size = 51 /\ rec[2].num * rec[2].size = 6
        /\ rec[3].num * rec[3].size = 1952
    BY DEF ASAR_Main_ADSR, MainRest, Field
  <2> HIDE DEF rec
  <2>2. Len(rec) \in Nat /\ \A n \in 1 .. Len(rec) : rec[n].num * rec[n].size \in Nat
    BY <2>1
  <2>3. PICK g : /\ g[0] = 0 /\ TotSize(rec) = g[Len(rec)]
                 /\ \A n \in 1 .. Len(rec) : g[n] = g[n - 1] + rec[n].num * rec[n].size
    BY <2>2, SizeIsSum
  <2>4. g[1] = 51 /\ g[2] = 57 /\ g[3] = 2009
    BY <2>1, <2>3
  <2> QED BY <2>1, <2>3, <2>4 DEF rec
<1>2. TotSize(ASAR_Main_ADSR_602) = 10069
  <2> DEFINE rec == ASAR_Main_ADSR_602
  <2>1. /\ Len(rec) = 8
        /\ rec[1].num * rec[1].size = 12 /\ rec[2].num * rec[2].size = 39
        /\ rec[3].num * rec[3].size = 1 /\ rec[4].num * rec[4].size = 5
        /\ rec[5].num * rec[5].size = 1952 /\ rec[6].num * rec[6].size = 20
        /\ rec[7].num * rec[7].size = 4020 /\ rec[8].num * rec[8].size = 4020
    BY DEF ASAR_Main_ADSR_602, MainRest, Field
  <2> HIDE DEF rec
  <2>2. Len(rec) \in Nat /\ \A n \in 1 .. Len(rec) : rec[n].num * rec[n].size \in Nat
    BY <2>1
  <2>3. PICK g : /\ g[0] = 0 /\ TotSize(rec) = g[Len(rec)]
                 /\ \A n \in 1 .. Len(rec) : g[n] = g[n - 1] + rec[n].num * rec[n].size
    BY <2>2, SizeIsSum
  <2>4. g[1] = 12 /\ g[2] = 51 /\ g[3] = 52 /\ g[4] = 57
    BY <2>1, <2>3
  <2>5. g[5] = 2009 /\ g[6] = 2029 /\ g[7] = 6049 /\ g[8] = 10069
    BY <2>1, <2>3, <2>4
  <2> QED BY <2>1, <2>3, <2>5 DEF rec
<1> QED BY <1>1, <1>2

-----------------------------------------------------------------------------
(***************************************************************************)
(* Records and the edition of the file.                                    *)
(***************************************************************************)

\* The editions a table may have, and those of files without one of their own.
Editions == {"", "602", "IODD5", "IODD6"}

\* A descriptor has a name; if any table for the type has that name, the file has
\* the record that the table of its own edition has.
OwnRecords ==
  \A i \in DOMAIN file.dsds :
    LET d == file.dsds[i]
    IN  /\ d.name # << >>
        /\ \A e \in Editions : \A r \in Range(EditionRows(e)) :
             d.name = r.ds_name =>
               \E own \in Range(EditionRows(file.edition)) :
                 own.ds_name = d.name /\ d.dsr_size = TotSize(own.rec)

\* The size of the flags tells edition 5 of level 1 from the others: its lines have
\* one of two widths, and those of the others none that gives the same size.
WidthTells ==
  file.type \in MerisTypes("1P") =>
    /\ file.edition = "IODD5" => TwoEditions("1P") /\ SceneRasterWidth \in {1121, 2241}
    /\ SceneRasterWidth # 1494

Conforming == OwnRecords /\ WidthTells

\* The edition of the file's table, as the kinds of product have it.
LEMMA OpenEdition ==
  ASSUME Tables, pc = "open"
  PROVE  LET edition == dddb_product_tables[pt_index].edition
         IN  /\ edition \in Editions
             /\ Sensor = "MER" => (edition = "IODD5" <=> epr_detect_meris_iodd_version = 5)
             /\ Sensor # "MER" => (edition = "602" <=> epr_detect_asar_sw_version = 602)
<1> DEFINE edition == dddb_product_tables[pt_index].edition
           sw == epr_detect_asar_sw_version
<1>1. pt_index # 0 /\ meris_iodd_version = IF Sensor = "MER" THEN epr_detect_meris_iodd_version ELSE 0
  BY DEF Tables
<1>2. sw \in {0, 602} /\ (Sensor = "MER" => sw = 0)
  BY DEF epr_detect_asar_sw_version
<1>3. sw >= 602 <=> sw = 602
  BY <1>2
<1>4. /\ meris_iodd_version = 5 => edition = "IODD5"
      /\ meris_iodd_version = 6 => edition = "IODD6"
      /\ meris_iodd_version \notin {5, 6} => edition = IF sw = 602 THEN "602" ELSE ""
  BY <1>1, <1>3, ChosenProduct
<1> HIDE DEF edition, sw
<1>5. edition \in Editions
  BY <1>4 DEF Editions
<1>6. Sensor = "MER" => (edition = "IODD5" <=> epr_detect_meris_iodd_version = 5)
  BY <1>1, <1>4
<1>7. Sensor # "MER" => (edition = "602" <=> sw = 602)
  <2>1. Sensor # "MER" => meris_iodd_version = 0
    BY <1>1
  <2>2. meris_iodd_version = 0 => edition = IF sw = 602 THEN "602" ELSE ""
    <3>1. 0 \notin {5, 6}
      OBVIOUS
    <3> QED BY <1>4, <3>1
  <2> QED BY <2>1, <2>2
<1> QED BY <1>5, <1>6, <1>7 DEF edition, sw

\* A name determines the record, except for the one record of a kind that the
\* editions have in different sizes.
LEMMA Level1Records ==
  ASSUME NEW r, NEW s, NEW f, NEW g, Level1Row(r, f), Level1Row(s, g), r.ds_name = s.ds_name
  PROVE  \/ r.rec = s.rec
         \/ r.ds_name = FlagsMDS16 /\ r.rec = f /\ s.rec = g
<1>1. FlagsMDS16[1] = "Flags MDS"
  BY DEF FlagsMDS16
<1> QED BY <1>1 DEF Level1Row

Level2Names == {"Alpha, OPT", "Epsilon, OPT"}

LEMMA Level2Records ==
  ASSUME NEW r, NEW s, NEW i, NEW j, NEW m, NEW n, Level2Row(r, i, m), Level2Row(s, j, n),
         m[1] \in Level2Names, n[1] \in Level2Names, r.ds_name = s.ds_name
  PROVE  r.rec = s.rec
  BY DEF Level2Row, Level2Names

LEMMA GeocodedRecords ==
  ASSUME NEW r, NEW s, NEW f, NEW g, GeocodedRow(r, f), GeocodedRow(s, g), r.ds_name = s.ds_name
  PROVE  \/ r.rec = s.rec
         \/ r.ds_name = MainParams /\ r.rec = f /\ s.rec = g
<1>1. MainParams[1] = "MAIN PROCESSING PARAMS ADS" /\ 1 # 2
  BY DEF MainParams
<1>2. r.ds_name[1] = s.ds_name[1] /\ Len(r.ds_name) = Len(s.ds_name)
  OBVIOUS
<1> QED BY <1>1, <1>2 DEF GeocodedRow

LEMMA Descriptors == IInv => DOMAIN file.dsds \subseteq Nat
<1> SUFFICES ASSUME IInv PROVE DOMAIN file.dsds \subseteq Nat
  OBVIOUS
<1>1. file.dsds \in Seq(Range(file.dsds))
  BY FilesAssumption DEF IInv, TypeOK
<1> HIDE DEF Range
<1> QED BY <1>1

\* The size that the detection looks at is that of the edition's own record.
LEMMA FirstSize ==
  ASSUME IInv, OwnRecords, NEW e \in Editions, NEW r \in Range(EditionRows(e)), Named(r.ds_name) # {}
  PROVE  \E own \in Range(EditionRows(file.edition)) :
           own.ds_name = r.ds_name /\ SizeOf(r.ds_name) = TotSize(own.rec)
<1>1. Named(r.ds_name) \subseteq Nat
  BY Descriptors DEF Named
<1>2. Min(Named(r.ds_name)) \in Named(r.ds_name)
  BY <1>1, Least
<1>3. PICK i \in DOMAIN file.dsds : file.dsds[i].name = r.ds_name /\ SizeOf(r.ds_name) = file.dsds[i].dsr_size
  BY <1>2 DEF Named, SizeOf
<1> QED BY <1>3 DEF OwnRecords

LEMMA RecordOfEdition ==
  ASSUME IInv, Tables, Conforming, pc = "open",
         NEW i \in DOMAIN file.dsds, NEW r \in Range(DatasetRows), file.dsds[i].name = r.ds_name
  PROVE  TotSize(r.rec) = file.dsds[i].dsr_size
<1> DEFINE e == dddb_product_tables[pt_index].edition
<1>1. /\ e \in Editions
      /\ Sensor = "MER" => (e = "IODD5" <=> epr_detect_meris_iodd_version = 5)
      /\ Sensor # "MER" => (e = "602" <=> epr_detect_asar_sw_version = 602)
  BY OpenEdition
<1>2. DatasetRows = EditionRows(e)
  BY DEF DatasetRows
<1> HIDE DEF e
<1>3. r \in Range(EditionRows(e)) /\ file.type \in Described
  BY <1>2, RowsOfKind, NoRows
<1>4. PICK own \in Range(EditionRows(file.edition)) :
        own.ds_name = r.ds_name /\ file.dsds[i].dsr_size = TotSize(own.rec)
  BY <1>1, <1>3 DEF Conforming, OwnRecords
<1>5. PICK first \in Range(EditionRows(file.edition)) :
        first.ds_name = r.ds_name /\ SizeOf(r.ds_name) = TotSize(first.rec)
  <2>1. i \in Named(r.ds_name)
    BY DEF Named
  <2> QED BY <1>1, <1>3, <2>1, FirstSize DEF Conforming
<1>6. CASE file.type \in RadarTypes
  <2> DEFINE Main(x) == IF x = "602" THEN ASAR_Main_ADSR_602 ELSE ASAR_Main_ADSR
             mine == Main(e)
             its == Main(file.edition)
  <2>1. GeocodedRow(r, mine) /\ GeocodedRow(own, its) /\ GeocodedRow(first, its)
    <3>1. EditionRows(e) = GeocodedRows(mine) /\ EditionRows(file.edition) = GeocodedRows(its)
      BY <1>6, RowsOfKind
    <3> HIDE DEF mine, its
    <3> QED BY <1>3, <3>1, GeocodedTable
  <2>2. Sensor # "MER" /\ Sensor \in {"ASA", "SAR"}
    BY <1>6 DEF RadarTypes, Sensor
  <2> HIDE DEF mine, its
  <2>3. r.rec = own.rec \/ (r.ds_name = MainParams /\ r.rec = mine /\ own.rec = its)
    BY <1>4, <2>1, GeocodedRecords
  <2>4. ASSUME r.ds_name = MainParams, r.rec = mine, own.rec = its PROVE mine = its
    <3>1. first.rec = its
      BY <1>4, <1>5, <2>1, <2>4, GeocodedRecords
    <3>2. SizeOf(MainParams) = 10069 <=> file.edition = "602"
      BY <1>5, <2>4, <3>1, MainSizes DEF its
    <3>3. e = "602" <=> file.edition = "602"
      BY <1>1, <2>2, <3>2 DEF epr_detect_asar_sw_version
    <3> QED BY <3>3 DEF mine, its
  <2> QED BY <1>4, <2>3, <2>4
<1>7. CASE file.type \in MerisTypes("1P")
  <2> DEFINE Flags(x) == IF x = "IODD5" THEN MER_RR__1P_MDSR_16_IODD5 ELSE MER_RR__1P_MDSR_16
             mine == Flags(e)
             its == Flags(file.edition)
  <2>1. Level1Row(r, mine) /\ Level1Row(own, its) /\ Level1Row(first, its)
    <3>1. EditionRows(e) = Level1Rows(mine) /\ EditionRows(file.edition) = Level1Rows(its)
      BY <1>7, RowsOfKind
    <3> HIDE DEF mine, its
    <3> QED BY <1>3, <3>1, Level1Table
  <2>2. Sensor = "MER" /\ ~TwoEditions("2P")
    BY <1>7 DEF MerisTypes, Sensor, TwoEditions
  <2> HIDE DEF mine, its
  <2>3. r.rec = own.rec \/ (r.ds_name = FlagsMDS16 /\ r.rec = mine /\ own.rec = its)
    BY <1>4, <2>1, Level1Records
  <2>4. ASSUME r.ds_name = FlagsMDS16, r.rec = mine, own.rec = its PROVE mine = its
    <3>1. first.rec = its
      BY <1>4, <1>5, <2>1, <2>4, Level1Records
    <3>2. SizeOf(FlagsMDS16) = IF file.edition = "IODD5" THEN 13 + 2 * SceneRasterWidth
                                                         ELSE 13 + 3 * SceneRasterWidth
      BY <1>5, <2>4, <3>1, FlagSizes DEF its
    <3>3. /\ file.edition = "IODD5" => TwoEditions("1P") /\ SceneRasterWidth \in {1121, 2241}
          /\ SceneRasterWidth # 1494
      BY <1>7 DEF Conforming, WidthTells
    <3>4. file.edition = "IODD5" => TwoEditions("1P") /\ SizeOf(FlagsMDS16) \in {2255, 4495}
      BY <3>2, <3>3
    <3>5. file.edition # "IODD5" => SizeOf(FlagsMDS16) \notin {2255, 4495}
      BY <3>2, <3>3, WidthsAssumption
    <3>6. epr_detect_meris_iodd_version = 5 <=> TwoEditions("1P") /\ SizeOf(FlagsMDS16) \in {2255, 4495}
      BY <2>2 DEF epr_detect_meris_iodd_version
    <3>7. e = "IODD5" <=> file.edition = "IODD5"
      BY <1>1, <2>2, <3>4, <3>5, <3>6
    <3> QED BY <3>7 DEF mine, its
  <2> QED BY <1>4, <2>3, <2>4
<1>8. CASE file.type \in MerisTypes("2P")
  <2> DEFINE Id(x) == IF x = "IODD6" THEN "Epsilon_OPT" ELSE "Alpha_OPT"
             Name(x) == IF x = "IODD6" THEN EpsilonMDS19 ELSE AlphaMDS19
  <2>1. ASSUME NEW x PROVE EditionRows(x) = Level2Rows(Id(x), Name(x)) /\ Name(x)[1] \in Level2Names
    BY <1>8, RowsOfKind DEF Level2Names, EpsilonMDS19, AlphaMDS19
  <2> DEFINE a == Id(e)
             b == Id(file.edition)
             m == Name(e)
             n == Name(file.edition)
  <2>2. Level2Row(r, a, m) /\ Level2Row(own, b, n) /\ m[1] \in Level2Names /\ n[1] \in Level2Names
    <3>1. /\ EditionRows(e) = Level2Rows(a, m) /\ m[1] \in Level2Names
          /\ EditionRows(file.edition) = Level2Rows(b, n) /\ n[1] \in Level2Names
      BY <2>1
    <3> HIDE DEF a, b, m, n
    <3> QED BY <1>3, <3>1, Level2Table
  <2> HIDE DEF a, b, m, n
  <2>3. r.rec = own.rec
    BY <1>4, <2>2, Level2Records
  <2> QED BY <1>4, <2>3
<1> QED BY <1>3, <1>6, <1>7, <1>8, Kinds

LEMMA EditionFits == IInv /\ Tables => (Conforming => RecordsFit)
<1> SUFFICES ASSUME IInv, Tables, Conforming, pc = "open", NEW d \in DatasetIds,
                    file.dsds[d.dsd].name = DatasetRows[d.row].ds_name
             PROVE  TotSize(Fields(d)) = file.dsds[d.dsd].dsr_size
  BY DEF RecordsFit
<1>1. pt_index # 0
  BY DEF Tables
<1>2. d.dsd \in DOMAIN file.dsds /\ d.row \in DOMAIN DatasetRows
  BY <1>1 DEF IInv, TypeOK
<1>3. DatasetRows[d.row] \in Range(DatasetRows)
  BY <1>2 DEF Range
<1> QED BY <1>2, <1>3, RecordOfEdition DEF Fields

-----------------------------------------------------------------------------
(***************************************************************************)
(* Scalings.                                                               *)
(***************************************************************************)

\* The scalings of the bands so far are what the reads gave.
ScalingsRead ==
  \A b \in BandIds : \E o, f \in BOOLEAN :
    /\ b.scaling_offset = epr_get_scaling_params(BandRows[b.row].offset, o)
    /\ b.scaling_factor = epr_get_scaling_params(BandRows[b.row].factor, f)
    /\ o \/ f => failures > 0

LEMMA NoScalings == BandIds = {} => ScalingsRead
  BY DEF ScalingsRead

LEMMA SameScalings ==
  ASSUME file' = file, pt_index' = pt_index, dataset_ids' = dataset_ids
  PROVE  \A s, o : epr_get_scaling_params(s, o)' = epr_get_scaling_params(s, o)
<1>1. DatasetRows' = DatasetRows /\ (\A n : HasDataset(n)' <=> HasDataset(n)) /\ \A n : DatasetId(n)' = DatasetId(n)
  BY SameDatasets DEF DatasetId
<1>2. \A d : Fields(d)' = Fields(d)
  BY <1>1 DEF Fields
<1>3. \A d : Readable(d)' <=> Readable(d)
  BY <1>2 DEF Readable
<1>4. \A d, f, e : Element(d, f, e)' = Element(d, f, e)
  BY <1>2 DEF Element
<1>5. ASSUME NEW s, NEW o PROVE epr_get_scaling_params(s, o)' = epr_get_scaling_params(s, o)
  BY <1>1, <1>3, <1>4 DEF epr_get_scaling_params
<1> QED BY <1>5

LEMMA AddBandScalings == ASSUME IInv, ScalingsRead, AddBand PROVE ScalingsRead'
<1> DEFINE r == BandRows[row]
           readOffset == {p \in {"offset"} : \E d \in Reads(r.offset) : HasDataset(d)}
           readFactor == {p \in {"factor"} : \E d \in Reads(r.factor) : HasDataset(d)}
<1>1. /\ pc = "bands" /\ file' = file /\ pt_index' = pt_index /\ bt_index' = bt_index
      /\ dataset_ids' = dataset_ids
  BY DEF AddBand, CreatingBands
<1>2. PICK fails \in SUBSET (readOffset \cup readFactor) :
        /\ band_ids' \in AddElem(band_ids, BandId(r, fails))
        /\ failures' = failures + Cardinality(fails) + Lost(band_ids, band_ids')
  BY DEF AddBand
<1>3. Cardinality(fails) \in Nat /\ (fails # {} => Cardinality(fails) > 0)
  <2>1. fails \subseteq {"offset"} \cup {"factor"}
    BY <1>2
  <2>2. IsFiniteSet({"offset"} \cup {"factor"})
    BY FS_Singleton, FS_AddElement
  <2>3. IsFiniteSet(fails)
    BY <2>1, <2>2, FS_Subset
  <2>4. Cardinality(fails) \in Nat /\ (Cardinality(fails) = 0 <=> fails = {})
    BY <2>3, FS_CardinalityType, FS_EmptySet
  <2>5. PICK c : c = Cardinality(fails)
    OBVIOUS
  <2>6. c \in Nat /\ (fails # {} => c # 0)
    BY <2>4, <2>5
  <2>7. c \in Nat /\ (fails # {} => c > 0)
    BY <2>6
  <2> QED BY <2>5, <2>7
<1>4. failures \in Nat /\ Lost(band_ids, band_ids') \in Nat
  BY MaxFailuresAssumption DEF IInv, TypeOK, Lost
<1> DEFINE e == BandId(r, fails)
<1>5. BandIds' \subseteq BandIds \cup {e}
  <2> HIDE DEF e
  <2>1. PICK S : band_ids \in Arrays(S)
    BY DEF IInv, IsArray
  <2>2. Len(band_ids.elems) <= band_ids.capacity /\ band_ids.capacity # 0 /\ IsSeq(band_ids.elems)
    BY <1>1, <2>1 DEF IInv, TypeOK, Arrays, IsSeq, BandsSoFar
  <2>3. PICK a, b, x : a = band_ids /\ b = band_ids' /\ x = e
    OBVIOUS
  <2>4. a \in Arrays(S) /\ a.capacity # 0 /\ Len(a.elems) <= a.capacity /\ b \in AddElem(a, x)
    BY <1>2, <2>1, <2>2, <2>3 DEF e
  <2>5. Added(S, a, x, b)
    BY <2>4, AddElemFacts
  <2>6. b.elems = a.elems \/ b.elems = Append(a.elems, x)
    BY <2>5 DEF Added
  <2> QED BY <2>2, <2>3, <2>6, Appended DEF BandIds
<1>6. BandRows' = BandRows /\ \A s, o : epr_get_scaling_params(s, o)' = epr_get_scaling_params(s, o)
  BY <1>1, SameBands, SameScalings
<1>7. failures' \in Nat /\ (failures > 0 \/ fails # {} => failures' > 0)
  BY <1>2, <1>3, <1>4
<1>8. ASSUME NEW b \in BandIds'
      PROVE  \E o, f \in BOOLEAN :
               /\ b.scaling_offset = epr_get_scaling_params(BandRows[b.row].offset, o)
               /\ b.scaling_factor = epr_get_scaling_params(BandRows[b.row].factor, f)
               /\ o \/ f => failures' > 0
  <2>1. CASE b \in BandIds
    BY <1>7, <2>1 DEF ScalingsRead
  <2>2. CASE b = e
    <3> DEFINE o == "offset" \in fails
               f == "factor" \in fails
    <3>1. /\ b.row = row
          /\ b.scaling_offset = epr_get_scaling_params(BandRows[row].offset, o)
          /\ b.scaling_factor = epr_get_scaling_params(BandRows[row].factor, f)
      BY <2>2 DEF BandId
    <3>2. o \in BOOLEAN /\ f \in BOOLEAN /\ (o \/ f => fails # {})
      OBVIOUS
    <3> HIDE DEF o, f
    <3> QED BY <1>7, <3>1, <3>2
  <2> QED BY <1>5, <2>1, <2>2
<1> QED BY <1>6, <1>8 DEF ScalingsRead

LEMMA NextScalings == ASSUME IInv, ScalingsRead, [Next]_vars PROVE ScalingsRead'
<1>1. CASE AddBand
  BY <1>1, AddBandScalings
<1>2. ASSUME band_ids'.elems = << >> PROVE ScalingsRead'
  <2>1. BandIds' = {}
    BY <1>2 DEF BandIds, Range
  <2> QED BY <2>1 DEF ScalingsRead
<1>3. NULL.elems = << >> /\ NewArray(16).elems = << >>
  BY NullFacts, NewArrayFacts
<1>4. CASE Detect \/ StartDatasets \/ SkipDataset \/ AddDataset
  <2>1. band_ids' = band_ids /\ pc \in {"detect", "tables", "datasets"}
    BY <1>4 DEF Detect, StartDatasets, SkipDataset, AddDataset, CreatingDatasets
  <2>2. band_ids = NULL
    BY <2>1 DEF IInv, Started
  <2> QED BY <1>2, <1>3, <2>1, <2>2
<1>5. CASE StartBands
  <2>1. pc = "datasets" /\ (band_ids' = band_ids \/ band_ids' = NewArray(16))
    BY <1>5 DEF StartBands
  <2>2. band_ids = NULL
    BY <2>1 DEF IInv, Started
  <2> QED BY <1>2, <1>3, <2>1, <2>2
<1>6. CASE MissingDataset \/ OutOfMemory
  <2>1. band_ids' = NULL
    BY <1>6 DEF MissingDataset, OutOfMemory, GiveUpBands
  <2> QED BY <1>2, <1>3, <2>1
<1>7. CASE Opened \/ Ended \/ UNCHANGED vars
  <2>1. /\ file' = file /\ pt_index' = pt_index /\ bt_index' = bt_index /\ dataset_ids' = dataset_ids
        /\ band_ids' = band_ids /\ failures' = failures
    BY <1>7 DEF Opened, Ended, vars
  <2>2. BandIds' = BandIds /\ BandRows' = BandRows
    BY <2>1, SameBands DEF BandIds
  <2>3. \A s, o : epr_get_scaling_params(s, o)' = epr_get_scaling_params(s, o)
    BY <2>1, SameScalings
  <2> QED BY <2>1, <2>2, <2>3 DEF ScalingsRead
<1> QED BY <1>1, <1>4, <1>5, <1>6, <1>7 DEF Next

\* A scaling from the file is an element that the record of the scaling factors has.
LEMMA ScalingElement ==
  ASSUME IInv, Tables, pc = "open", bt_index # 0,
         NEW r \in Range(BandRows), NEW s \in {r.offset, r.factor}, ~IsNumber(s),
         NEW x \in Range(DatasetRows)
  PROVE  /\ s[1] = "Scaling_Factor_GADS"
         /\ x.id = s[1] => /\ s[2] \in DOMAIN x.rec /\ s[3] \in 1 .. x.rec[s[2]].num
                           /\ x.ds_name = ScalingName
<1> DEFINE e == dddb_product_tables[pt_index].edition
           b == dddb_band_tables[bt_index].edition
<1>1. DatasetRows = EditionRows(e)
  BY DEF DatasetRows
<1> HIDE DEF e
<1>2. file.type \in Described
  BY <1>1, RowsOfKind, NoRows
<1>3. ASSUME NEW rec, InRecord(s, rec)
      PROVE  s[1] = "Scaling_Factor_GADS" /\ s[2] \in DOMAIN rec /\ s[3] \in 1 .. rec[s[2]].num
  <2>1. s = GADS(s[2], s[3]) /\ s[2] \in DOMAIN rec /\ s[3] \in 1 .. rec[s[2]].num
    BY <1>3 DEF InRecord
  <2>2. \A f, n : GADS(f, n)[1] = "Scaling_Factor_GADS"
    BY DEF GADS
  <2> QED BY <2>1, <2>2
<1>4. CASE file.type \in RadarTypes
  BY <1>4, BandsOfKind, GeocodedBandTable DEF GeocodedBand, Plain
<1>5. CASE file.type \in MerisTypes("1P")
  <2>1. PICK flags : Level1Band(r, flags)
    BY <1>5, BandsOfKind, Level1BandTables
  <2>2. InRecord(s, MER_RR__1P_GADS_sfgi)
    BY <2>1 DEF Level1Band, Scales
  <2>3. PICK rec : DatasetRows = Level1Rows(rec)
    BY <1>1, <1>5, RowsOfKind
  <2>4. Level1Row(x, rec)
    BY <2>3, Level1Table
  <2>5. x.id = "Scaling_Factor_GADS" => x.rec = MER_RR__1P_GADS_sfgi /\ x.ds_name = ScalingName
    BY <2>4, NumberedIds DEF Level1Row
  <2> QED BY <1>3, <2>2, <2>5
<1>6. CASE file.type \in MerisTypes("2P")
  <2>1. PICK id : Level2Band(r, id)
    BY <1>6, BandsOfKind, Level2BandTables
  <2>2. InRecord(s, MER_RR__2P_GADS_sfgi)
    BY <2>1 DEF Level2Band, Scales
  <2>3. PICK id19, name19 : DatasetRows = Level2Rows(id19, name19) /\ id19 \in {"Epsilon_OPT", "Alpha_OPT"}
    BY <1>1, <1>6, RowsOfKind
  <2>4. Level2Row(x, id19, name19)
    BY <2>3, Level2Table
  <2>5. x.id = "Scaling_Factor_GADS" => x.rec = MER_RR__2P_GADS_sfgi /\ x.ds_name = ScalingName
    BY <2>3, <2>4, NumberedIds DEF Level2Row
  <2> QED BY <1>3, <2>2, <2>5
<1> QED BY <1>2, <1>4, <1>5, <1>6, Kinds

\* A name of a descriptor that begins a name of one word is that name.
LEMMA OneWord ==
  ASSUME IInv, NEW i \in DOMAIN file.dsds, file.dsds[i].name # << >>, IsPrefix(file.dsds[i].name, ScalingName)
  PROVE  file.dsds[i].name = ScalingName
<1> DEFINE name == file.dsds[i].name
           word == "Scaling Factor GADS"
<1>1. name \in Seq(Range(name))
  <2>1. file.dsds[i] \in Range(file.dsds)
    BY DEF Range
  <2> QED BY <2>1, FilesAssumption DEF IInv, TypeOK
<1>2. Len(name) <= Len(<<word>>) /\ SubSeq(name, 1, Len(name)) = SubSeq(<<word>>, 1, Len(name))
  BY DEF IsPrefix, ScalingName
<1> HIDE DEF name, word
<1>3. ASSUME NEW S, NEW s \in Seq(S), s # << >>, Len(s) <= Len(<<word>>),
             SubSeq(s, 1, Len(s)) = SubSeq(<<word>>, 1, Len(s))
      PROVE  s = <<word>>
  <2>1. Len(s) = 1
    BY <1>3
  <2>2. SubSeq(s, 1, 1)[1] = s[1] /\ SubSeq(<<word>>, 1, 1)[1] = word
    BY <2>1
  <2> QED BY <1>3, <2>1, <2>2
<1>4. name # << >>
  BY DEF name
<1>5. name = <<word>>
  BY <1>1, <1>2, <1>3, <1>4
<1> QED BY <1>5 DEF name, word, ScalingName

\* What the dataset of the scaling factors is for the reads.
LEMMA ScalingDataset ==
  ASSUME IInv, Tables, FirstFits, Conforming, pc = "open", bt_index # 0,
         NEW r \in Range(BandRows), NEW s \in {r.offset, r.factor}, ~IsNumber(s), HasDataset(s[1])
  PROVE  LET d == dataset_ids.elems[DatasetId(s[1])]
         IN  /\ file.dsds[d.dsd].num_dsr \in Nat
             /\ Readable(d) <=> file.dsds[d.dsd].num_dsr # 0
             /\ Element(d, s[2], s[3]) = <<"file", d.dsd, s[2], s[3]>>
<1> DEFINE d == dataset_ids.elems[DatasetId(s[1])]
           x == DatasetRows[d.row]
           f == file.dsds[d.dsd]
<1>1. pt_index # 0
  BY DEF Tables
<1>2. d \in DatasetIds /\ x \in Range(DatasetRows) /\ x.id = s[1]
  BY <1>1, FoundDataset
<1>3. s[2] \in DOMAIN x.rec /\ s[3] \in 1 .. x.rec[s[2]].num /\ x.ds_name = ScalingName
  <2> HIDE DEF x
  <2> QED BY <1>2, ScalingElement
<1>4. d.dsd \in DOMAIN file.dsds /\ IsPrefix(f.name, x.ds_name)
  <2>1. d.dsd = Min(Matching(x)) /\ Matching(x) # {}
    BY <1>2 DEF FirstFits
  <2>2. Matching(x) \subseteq Nat
    BY Descriptors DEF Matching
  <2>3. d.dsd \in Matching(x)
    BY <2>1, <2>2, Least
  <2> QED BY <2>3 DEF Matching
<1>5. f.name = x.ds_name
  <2>1. f.name # << >>
    BY <1>4 DEF Conforming, OwnRecords
  <2> QED BY <1>3, <1>4, <2>1, OneWord
<1>6. f.dsr_size = TotSize(Fields(d))
  BY <1>2, <1>4, <1>5, RecordOfEdition DEF Fields
<1>7. f.num_dsr \in Nat
  <2>1. f \in Range(file.dsds)
    BY <1>4 DEF Range
  <2> QED BY <2>1, FilesAssumption DEF IInv, TypeOK
<1>8. Readable(d) <=> f.num_dsr # 0
  BY <1>6, <1>7 DEF Readable
<1>9. Element(d, s[2], s[3]) = <<"file", d.dsd, s[2], s[3]>>
  BY <1>3 DEF Element, Fields
<1> QED BY <1>7, <1>8, <1>9

LEMMA ReadsFit == IInv /\ Tables /\ FirstFits /\ ScalingsRead => (Conforming => ScalingFromFile)
<1> DEFINE Given(s, v) ==
             LET owner == DatasetId(s[1])
                 empty == owner # 0 /\ file.dsds[dataset_ids.elems[owner].dsd].num_dsr = 0
             IN  CASE owner = 0 -> v = Sentinel
                   [] empty     -> v = Zero
                   [] OTHER     -> \/ v = <<"file", dataset_ids.elems[owner].dsd, s[2], s[3]>>
                                   \/ v = Zero /\ failures > 0
<1> SUFFICES ASSUME IInv, Tables, FirstFits, ScalingsRead, Conforming, pc = "open", NEW b \in BandIds
             PROVE  \A s \in {<<BandRows[b.row].offset, b.scaling_offset>>,
                              <<BandRows[b.row].factor, b.scaling_factor>>} :
                      ~IsNumber(s[1]) => Given(s[1], s[2])
  BY DEF ScalingFromFile
<1> DEFINE r == BandRows[b.row]
<1>1. bt_index # 0 /\ r \in Range(BandRows)
  BY OpenBands
<1>2. PICK o, f \in BOOLEAN :
        /\ b.scaling_offset = epr_get_scaling_params(r.offset, o)
        /\ b.scaling_factor = epr_get_scaling_params(r.factor, f)
        /\ o \/ f => failures > 0
  BY DEF ScalingsRead
<1> HIDE DEF r
<1>3. ASSUME NEW s \in {r.offset, r.factor}, ~IsNumber(s), NEW fails \in BOOLEAN, fails => failures > 0,
             NEW v, v = epr_get_scaling_params(s, fails)
      PROVE  Given(s, v)
  <2> DEFINE d == dataset_ids.elems[DatasetId(s[1])]
  <2>1. CASE DatasetId(s[1]) = 0
    <3>1. v = Sentinel
      BY <1>3, <2>1 DEF epr_get_scaling_params, HasDataset
    <3> QED BY <2>1, <3>1
  <2>2. CASE DatasetId(s[1]) # 0
    <3>1. HasDataset(s[1])
      BY <2>2 DEF HasDataset
    <3>2. v = IF Readable(d) /\ ~fails THEN Element(d, s[2], s[3]) ELSE Zero
      BY <1>3, <3>1 DEF epr_get_scaling_params
    <3>3. /\ Readable(d) <=> file.dsds[d.dsd].num_dsr # 0
          /\ Element(d, s[2], s[3]) = <<"file", d.dsd, s[2], s[3]>>
      BY <1>1, <1>3, <3>1, ScalingDataset
    <3>4. CASE file.dsds[d.dsd].num_dsr = 0
      BY <2>2, <3>2, <3>3, <3>4
    <3>5. CASE file.dsds[d.dsd].num_dsr # 0
      BY <1>3, <2>2, <3>2, <3>3, <3>5
    <3> QED BY <3>4, <3>5
  <2> QED BY <2>1, <2>2
<1> HIDE DEF Given
<1>4. (o => failures > 0) /\ (f => failures > 0)
  BY <1>2
<1>5. ~IsNumber(r.offset) => Given(r.offset, b.scaling_offset)
  BY <1>2, <1>3, <1>4
<1>6. ~IsNumber(r.factor) => Given(r.factor, b.scaling_factor)
  BY <1>2, <1>3, <1>4
<1>7. \A s, v : <<s, v>>[1] = s /\ <<s, v>>[2] = v
  OBVIOUS
<1>8. ASSUME NEW s \in {<<r.offset, b.scaling_offset>>, <<r.factor, b.scaling_factor>>}, ~IsNumber(s[1])
      PROVE  Given(s[1], s[2])
  BY <1>5, <1>6, <1>7, <1>8
<1> QED BY <1>8 DEF r

-----------------------------------------------------------------------------
(***************************************************************************)
(* Theorems.                                                               *)
(***************************************************************************)

\* The invariant holds from the detection of the edition to the open product.
THEOREM Invariance == Spec => []IInv
<1>1. ASSUME IInv, [Next]_vars PROVE IInv'
  <2>1. CASE Detect
    BY <1>1, <2>1, DetectIInv
  <2>2. CASE StartDatasets
    BY <1>1, <2>2, StartDatasetsIInv
  <2>3. CASE SkipDataset
    BY <1>1, <2>3, SkipDatasetIInv
  <2>4. CASE AddDataset
    BY <1>1, <2>4, AddDatasetIInv
  <2>5. CASE StartBands
    BY <1>1, <2>5, StartBandsIInv
  <2>6. CASE AddBand
    BY <1>1, <2>6, AddBandIInv
  <2>7. CASE MissingDataset
    BY <1>1, <2>7, MissingDatasetIInv
  <2>8. CASE OutOfMemory
    BY <1>1, <2>8, OutOfMemoryIInv
  <2>9. CASE Opened
    BY <1>1, <2>9, OpenedIInv
  <2>10. CASE Ended \/ UNCHANGED vars
    BY <1>1, <2>10, StutterIInv DEF Ended
  <2> QED BY <1>1, <2>1, <2>2, <2>3, <2>4, <2>5, <2>6, <2>7, <2>8, <2>9, <2>10 DEF Next
<1> QED BY <1>1, InitIInv, PTL DEF Spec

\* Identifiers come from rows of the tables and descriptors of the file, for any
\* file, and no array is longer than it has room for.
THEOREM TypeCorrect == Spec => []TypeOK
<1>1. IInv => TypeOK
  BY DEF IInv
<1> QED BY <1>1, Invariance, PTL

\* epr_create_band_ids makes all bands of the table in its order or none, and
\* leaves an error code exactly when it makes none, although it clears the code
\* again and again on the way.
THEOREM BandsAreAllOrNone == Spec => []AllBandsOrNone
<1>1. IInv => AllBandsOrNone
  BY DEF IInv
<1> QED BY <1>1, Invariance, PTL

\* epr_create_dataset_ids gives every dataset of the table the descriptor of its
\* own name when the file has one, for any descriptors in which no name that begins
\* another comes before it; a file in another order gets a wrong descriptor.
THEOREM DescriptorsAreOwn == Spec => [](LongerFirst => OwnDescriptor)
<1>1. IInv /\ FirstFits /\ [Next]_vars => FirstFits'
  BY NextFirstFits
<1>2. Spec => []FirstFits
  BY <1>1, InitFirstFits, Invariance, PTL DEF Spec
<1> QED BY <1>2, FitsAreOwn, Invariance, PTL

\* Every band of an open product can be read, whatever the file: its field is in
\* the record of its dataset with the elements that its sample model takes, and the
\* flag of its mask is one of a band of the product, since the datasets and the
\* bands come from tables of one edition.
THEOREM BandsCanBeRead == Spec => []BandsResolve
<1>1. IInv /\ Tables /\ [Next]_vars => Tables'
  BY NextTables
<1>2. Spec => []Tables
  BY <1>1, InitTables, Invariance, PTL DEF Spec
<1> QED BY <1>2, TablesResolve, Invariance, PTL

\* In a file whose descriptors are those of its edition, every dataset whose name
\* the file has gets the description of the file's records: the edition is guessed
\* right as far as records differ, from the size of a few records, at any width of
\* a line that the instruments have.
THEOREM RecordsAreFit == Spec => [](Conforming => RecordsFit)
<1>1. IInv /\ Tables /\ [Next]_vars => Tables'
  BY NextTables
<1>2. Spec => []Tables
  BY <1>1, InitTables, Invariance, PTL DEF Spec
<1> QED BY <1>2, EditionFits, Invariance, PTL

\* In such a file a scaling that the table takes from the file is the element that
\* it names, 0 when there is no record or the read failed, and the sentinel when
\* there is no dataset.
THEOREM ScalingsAreRead == Spec => [](Conforming => ScalingFromFile)
<1>1. IInv /\ Tables /\ [Next]_vars => Tables'
  BY NextTables
<1>2. Spec => []Tables
  BY <1>1, InitTables, Invariance, PTL DEF Spec
<1>3. IInv /\ FirstFits /\ [Next]_vars => FirstFits'
  BY NextFirstFits
<1>4. Spec => []FirstFits
  BY <1>3, InitFirstFits, Invariance, PTL DEF Spec
<1>5. IInv /\ ScalingsRead /\ [Next]_vars => ScalingsRead'
  BY NextScalings
<1>6. Init => ScalingsRead
  <2>1. ASSUME Init PROVE BandIds = {}
    BY <2>1, NullFacts DEF Init, BandIds, Range
  <2> QED BY <2>1, NoScalings
<1>7. Spec => []ScalingsRead
  BY <1>5, <1>6, Invariance, PTL DEF Spec
<1> QED BY <1>2, <1>4, <1>7, ReadsFit, Invariance, PTL
=============================================================================
