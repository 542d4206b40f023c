----------------------------- MODULE EprCatalog -----------------------------
(***************************************************************************)
(* What epr_open_product makes of the dataset descriptors (DSDs) of a file *)
(* and the tables of the database: it guesses the edition of the format    *)
(* from the descriptors (epr_dsd.c), creates an identifier for every       *)
(* dataset of the table that the file has (epr_dataset.c), and one for     *)
(* every band, whose scaling may be an element of a dataset that is read   *)
(* at once (epr_band.c).                                                   *)
(*                                                                         *)
(* Reading a record or growing an array may fail, MaxFailures times in     *)
(* all.  A value read from the file is the place it is read from.          *)
(***************************************************************************)
EXTENDS EprDddb, EprPtrArray, FiniteSets

CONSTANTS
  Files,       \* the files: type, edition, and dsds with name, dsr_size, num_dsr
  MaxFailures  \* bound: failing reads and allocations

ASSUME FilesAssumption ==
  \A f \in Files :
    /\ f.dsds \in Seq(Range(f.dsds))
    /\ \A d \in Range(f.dsds) :
         d.name \in Seq(Range(d.name)) /\ d.dsr_size \in Nat \ {0} /\ d.num_dsr \in Nat

ASSUME MaxFailuresAssumption == MaxFailures \in Nat

VARIABLES
  file,                \* the file that is opened
  meris_iodd_version,
  pt_index, bt_index,  \* the places of the product and the band table, or 0
  dataset_ids,         \* array: the row of the table, and the DSD
  band_ids,            \* array, or NULL: the row of the table, and what is not in it
  row,                 \* the next row of the table
  err,                 \* an error code is set
  failures,            \* reads and allocations that failed
  pc                   \* "detect", "tables", "datasets", "bands", "open" or "closed"

vars == <<file, meris_iodd_version, pt_index, bt_index, dataset_ids, band_ids, row, err, failures, pc>>

NULL == [capacity |-> 0, elems |-> << >>]

-----------------------------------------------------------------------------
(***************************************************************************)
(* The edition of the format.                                              *)
(***************************************************************************)

Named(name) == {i \in DOMAIN file.dsds : file.dsds[i].name = name}

\* The record size of the first descriptor with a name, or 0.
SizeOf(name) == IF Named(name) = {} THEN 0 ELSE file.dsds[Min(Named(name))].dsr_size

Sensor == file.type[1]

\* Both resolutions; the full swath product has one edition only.
TwoEditions(level) == file.type \in {<<"MER", "RR_", level>>, <<"MER", "FR_", level>>}

\* Mutant of epr_detect_meris_iodd_version: the size at reduced resolution is missing.
MutDetect ==
  CASE TwoEditions("1P") /\ SizeOf(FlagsMDS16) = 4495 -> 5
    [] TwoEditions("2P") /\ Named(EpsilonMDS19) # {} -> 6
    [] OTHER -> 8

\* Edition 7 is never detected.
epr_detect_meris_iodd_version ==
  CASE TwoEditions("1P") /\ SizeOf(FlagsMDS16) \in {2255, 4495} -> 5
    [] TwoEditions("2P") /\ Named(EpsilonMDS19) # {} -> 6
    [] OTHER -> 8

epr_detect_asar_sw_version ==
  IF Sensor \in {"ASA", "SAR"} /\ SizeOf(MainParams) = 10069 THEN 602 ELSE 0

-----------------------------------------------------------------------------
(***************************************************************************)
(* The table of the type and the edition, as its place in the list or 0.   *)
(***************************************************************************)

First(S) == IF S = {} THEN 0 ELSE Min(S)

IODD(tables, i) ==
  CASE meris_iodd_version = 5 -> tables[i].edition = "IODD5"
    [] meris_iodd_version = 6 -> tables[i].edition = "IODD6"
    [] OTHER                  -> FALSE

OfType(tables) == {i \in DOMAIN tables : tables[i].type = file.type}

ProductTable ==
  LET Fits(i) ==
        \/ IODD(dddb_product_tables, i)
        \/ /\ meris_iodd_version \notin {5, 6}
           /\ dddb_product_tables[i].edition =
                (IF epr_detect_asar_sw_version >= 602 THEN "602" ELSE "")
  IN  First({i \in OfType(dddb_product_tables) : Fits(i)})

\* Mutant of BandTable: the edition is not looked at.
MutBandTable == First(OfType(dddb_band_tables))

\* The first table of the type unless the edition is known to be 5 or 6.
BandTable ==
  First({i \in OfType(dddb_band_tables) :
           meris_iodd_version \in {5, 6} => IODD(dddb_band_tables, i)})

\* The descriptors of the types that this model has the tables of.
Described == {<<"MER", "RR_", "1P">>, <<"MER", "FR_", "1P">>, <<"MER", "FRS", "1P">>,
              <<"MER", "RR_", "2P">>, <<"MER", "FR_", "2P">>, <<"MER", "FRS", "2P">>,
              <<"ASA", "APG", "1P">>, <<"SAR", "APG", "1P">>}

\* The datasets of the file's type in an edition.
EditionRows(edition) ==
  LET full == file.type[2] \in {"FR_", "FRS"}
  IN  IF file.type \notin Described THEN << >>
      ELSE CASE Sensor # "MER" -> IF edition = "602" THEN ASA_APG_1P_602_dataset_data
                                                     ELSE ASA_APG_1P_dataset_data
             [] Sensor = "MER" /\ file.type[3] = "1P" /\ ~full ->
                  IF edition = "IODD5" THEN MER_RR__1P_IODD5_dataset_data ELSE MER_RR__1P_dataset_data
             [] Sensor = "MER" /\ file.type[3] = "1P" /\ full ->
                  IF edition = "IODD5" THEN MER_FR__1P_IODD5_dataset_data ELSE MER_FR__1P_dataset_data
             [] Sensor = "MER" /\ file.type[3] = "2P" /\ ~full ->
                  IF edition = "IODD6" THEN MER_RR__2P_IODD6_dataset_data ELSE MER_RR__2P_dataset_data
             [] OTHER ->
                  IF edition = "IODD6" THEN MER_FR__2P_IODD6_dataset_data ELSE MER_FR__2P_dataset_data

DatasetRows == EditionRows(dddb_product_tables[pt_index].edition)

BandRows ==
  LET t == dddb_band_tables[bt_index]
      full == file.type[2] \in {"FR_", "FRS"}
  IN  CASE Sensor # "MER" -> ASA_APG_1P_band_data
        [] Sensor = "MER" /\ file.type[3] = "1P" /\ ~full ->
             IF t.edition = "IODD5" THEN MER_RR__1P_IODD5_band_data ELSE MER_RR__1P_band_data
        [] Sensor = "MER" /\ file.type[3] = "1P" /\ full ->
             IF t.edition = "IODD5" THEN MER_FR__1P_IODD5_band_data ELSE MER_FR__1P_band_data
        [] Sensor = "MER" /\ file.type[3] = "2P" /\ ~full ->
             IF t.edition = "IODD6" THEN MER_RR__2P_IODD6_band_data ELSE MER_RR__2P_band_data
        [] OTHER ->
             IF t.edition = "IODD6" THEN MER_FR__2P_IODD6_band_data ELSE MER_FR__2P_band_data

-----------------------------------------------------------------------------
Init ==
  /\ file \in Files
  /\ meris_iodd_version = 0
  /\ pt_index = 0
  /\ bt_index = 0
  /\ dataset_ids = NewArray(16)
  /\ band_ids = NULL
  /\ row = 1
  /\ err = FALSE
  /\ failures = 0
  /\ pc = "detect"

\* epr_open_product: only MERIS products have an edition.
Detect ==
  /\ pc = "detect"
  /\ meris_iodd_version' = IF Sensor = "MER" THEN epr_detect_meris_iodd_version ELSE 0
  /\ pc' = "tables"
  /\ UNCHANGED <<file, pt_index, bt_index, dataset_ids, band_ids, row, err, failures>>

\* epr_create_dataset_ids without a table: the product is closed.
StartDatasets ==
  /\ pc = "tables"
  /\ pt_index' = ProductTable
  /\ pc' = IF ProductTable = 0 THEN "closed" ELSE "datasets"
  /\ err' = (ProductTable = 0)
  /\ UNCHANGED <<file, meris_iodd_version, bt_index, dataset_ids, band_ids, row, failures>>

\* An array that does not grow is left as it was, and nobody notices.
Lost(before, after) == IF Len(after.elems) = Len(before.elems) THEN 1 ELSE 0

\* Mutant of Matching: the name in the table is compared in its own length.
MutMatching(r) == {i \in DOMAIN file.dsds : IsPrefix(r.ds_name, file.dsds[i].name)}

\* The descriptors whose name, stripped, begins the name in the table.
Matching(r) == {i \in DOMAIN file.dsds : IsPrefix(file.dsds[i].name, r.ds_name)}

CreatingDatasets == pc = "datasets" /\ row <= Len(DatasetRows)

SkipDataset ==
  /\ CreatingDatasets
  /\ Matching(DatasetRows[row]) = {}
  /\ row' = row + 1
  /\ UNCHANGED <<file, meris_iodd_version, pt_index, bt_index, dataset_ids, band_ids, err, failures, pc>>

AddDataset ==
  /\ CreatingDatasets
  /\ LET r == DatasetRows[row]
     IN  /\ Matching(r) # {}
         /\ \E b \in AddElem(dataset_ids, [row |-> row, dsd |-> Min(Matching(r))]) :
              /\ failures' = failures + Lost(dataset_ids, b)
              /\ dataset_ids' = b
         /\ failures' <= MaxFailures
  /\ row' = row + 1
  /\ UNCHANGED <<file, meris_iodd_version, pt_index, bt_index, band_ids, err, pc>>

\* From the datasets to epr_create_band_ids, which may find no table: then the
\* product is open without bands.
StartBands ==
  /\ pc = "datasets" /\ row > Len(DatasetRows)
  /\ bt_index' = BandTable
  /\ IF BandTable = 0
       THEN pc' = "open" /\ err' = TRUE /\ UNCHANGED <<band_ids, row>>
       ELSE pc' = "bands" /\ band_ids' = NewArray(16) /\ row' = 1 /\ UNCHANGED err
  /\ UNCHANGED <<file, meris_iodd_version, pt_index, dataset_ids, failures>>

-----------------------------------------------------------------------------
(***************************************************************************)
(* A band.                                                                 *)
(***************************************************************************)

\* epr_get_dataset_id: the place of the dataset with a name, or 0.
DatasetId(name) ==
  First({i \in DOMAIN dataset_ids.elems : DatasetRows[dataset_ids.elems[i].row].id = name})

HasDataset(name) == DatasetId(name) # 0

IsNumber(s) == Len(s) = 2

\* The fields of the records of a dataset.
Fields(d) == DatasetRows[d.row].rec

\* The datasets that a scaling is to be read from.
Reads(s) == IF IsNumber(s) THEN {} ELSE {s[1]}

\* What epr_get_scaling_params returns for a dataset that is not there, and for
\* a record that cannot be read.  epr_create_band_ids compares the first, a
\* float, with the double -909.909 and never finds it.
Sentinel == Number("-909.909")
Zero     == Number("0.0")

\* epr_read_record: there is a record, and it has the size of the table's.
Readable(d) ==
  /\ file.dsds[d.dsd].num_dsr > 0
  /\ file.dsds[d.dsd].dsr_size = TotSize(Fields(d))

\* epr_get_field_at and epr_get_field_elem_as_float of the record, with the
\* indices that the name of the scaling holds.
Element(d, field, elem) ==
  IF field \in DOMAIN Fields(d) /\ elem \in 1 .. Fields(d)[field].num
    THEN <<"file", d.dsd, field, elem>>
    ELSE Zero

\* Mutant of epr_get_scaling_params: the field is counted from 0.
MutScalingParams(s, fails) ==
  IF IsNumber(s) THEN s
  ELSE IF ~HasDataset(s[1]) THEN Sentinel
  ELSE LET d == dataset_ids.elems[DatasetId(s[1])]
       IN  IF Readable(d) /\ ~fails THEN Element(d, s[2] + 1, s[3]) ELSE Zero

\* A number, or an element of record 0 of a dataset.
epr_get_scaling_params(s, fails) ==
  IF IsNumber(s) THEN s
  ELSE IF ~HasDataset(s[1]) THEN Sentinel
  ELSE LET d == dataset_ids.elems[DatasetId(s[1])]
       IN  IF Readable(d) /\ ~fails THEN Element(d, s[2], s[3]) ELSE Zero

\* epr_create_flag_coding: the bits of each flag; no flags without a coding.
FlagCoding(name) == IF name = NoFlags THEN << >> ELSE dddb_flag_coding_tables[name]

\* Images of ASAR and SAR are read as they are, MERIS and the others mirrored.
LinesMirrored ==
  Sensor = "MER" \/ (Sensor \in {"ASA", "SAR"} /\ file.type[2] \notin {"IMG", "APG"})

\* The band of a table row; the reads of offset and factor may fail.  Name,
\* field, sample model, type, scaling method, mask and flag coding are the row's.
BandId(r, fails) ==
  [ row |-> row,
    scaling_offset |-> epr_get_scaling_params(r.offset, "offset" \in fails),
    scaling_factor |-> epr_get_scaling_params(r.factor, "factor" \in fails),
    lines_mirrored |-> LinesMirrored ]

\* Looking up a dataset clears the error of the one before; a record that was
\* read is freed, which clears it too.
LastLookupFails(r) ==
  \/ \E d \in Reads(r.factor) : ~HasDataset(d)
  \/ Reads(r.factor) = {} /\ \E d \in Reads(r.offset) : ~HasDataset(d)

CreatingBands == pc = "bands" /\ row <= Len(BandRows)

AddBand ==
  /\ CreatingBands
  /\ HasDataset(BandRows[row].dataset)
  /\ LET r == BandRows[row]
         readOffset == {p \in {"offset"} : \E d \in Reads(r.offset) : HasDataset(d)}
         readFactor == {p \in {"factor"} : \E d \in Reads(r.factor) : HasDataset(d)}
     IN  /\ \E fails \in SUBSET (readOffset \cup readFactor) :
              \E b \in AddElem(band_ids, BandId(r, fails)) :
                /\ failures' = failures + Cardinality(fails) + Lost(band_ids, b)
                /\ failures' <= MaxFailures
                /\ band_ids' = b
         /\ err' = LastLookupFails(r)
  /\ row' = row + 1
  /\ UNCHANGED <<file, meris_iodd_version, pt_index, bt_index, dataset_ids, pc>>

\* Mutant of GiveUpBands: the bands made so far are kept.
MutGiveUpBands ==
  /\ err' = TRUE
  /\ pc' = "open"
  /\ UNCHANGED <<file, meris_iodd_version, pt_index, bt_index, dataset_ids, band_ids, row>>

\* The bands made so far are lost.
GiveUpBands ==
  /\ band_ids' = NULL
  /\ err' = TRUE
  /\ pc' = "open"
  /\ UNCHANGED <<file, meris_iodd_version, pt_index, bt_index, dataset_ids, row>>

MissingDataset ==
  /\ CreatingBands
  /\ ~HasDataset(BandRows[row].dataset)
  /\ GiveUpBands
  /\ UNCHANGED failures

OutOfMemory ==
  /\ CreatingBands
  /\ failures < MaxFailures
  /\ failures' = failures + 1
  /\ GiveUpBands

Opened ==
  /\ pc = "bands" /\ row > Len(BandRows)
  /\ pc' = "open"
  /\ UNCHANGED <<file, meris_iodd_version, pt_index, bt_index, dataset_ids, band_ids, row, err, failures>>

\* The product is open or closed; see EprProduct for what follows.
Ended == pc \in {"open", "closed"} /\ UNCHANGED vars

Next ==
  \/ Detect \/ StartDatasets \/ SkipDataset \/ AddDataset \/ StartBands
  \/ AddBand \/ MissingDataset \/ OutOfMemory \/ Opened \/ Ended

Spec == Init /\ [][Next]_vars

-----------------------------------------------------------------------------
(***************************************************************************)
(* Properties.                                                             *)
(***************************************************************************)

DatasetIds == Range(dataset_ids.elems)
BandIds    == Range(band_ids.elems)

\* Types: the identifiers come from rows of the tables, in arrays that are
\* never over their capacity.
TypeOK ==
  /\ file \in Files
  /\ meris_iodd_version \in {0, 5, 6, 8}
  /\ err \in BOOLEAN
  /\ failures \in 0 .. MaxFailures
  /\ pc \in {"detect", "tables", "datasets", "bands", "open", "closed"}
  /\ row \in Nat \ {0}
  /\ pc = "datasets" => row <= Len(DatasetRows) + 1
  /\ pc = "bands"    => row <= Len(BandRows) + 1
  /\ pt_index # 0 => {d.row : d \in DatasetIds} \subseteq DOMAIN DatasetRows
  /\ {d.dsd : d \in DatasetIds} \subseteq DOMAIN file.dsds
  /\ bt_index # 0 => {b.row : b \in BandIds} \subseteq DOMAIN BandRows
  /\ \A a \in {dataset_ids, band_ids} : Len(a.elems) <= a.capacity

\* A dataset identifier stands for the descriptor of its own name whenever the
\* file has one (epr_create_dataset_ids compares in the length of the name in
\* the file, and "MDS1" begins "MDS1 SQ ADS"), and every descriptor that the
\* table knows has its identifier, unless memory ran out.
OwnDescriptor ==
  pc = "open" =>
    /\ \A d \in DatasetIds :
         LET name == DatasetRows[d.row].ds_name
         IN  Named(name) # {} => file.dsds[d.dsd].name = name
    /\ failures = 0 =>
         \A i \in DOMAIN DatasetRows :
           Named(DatasetRows[i].ds_name) # {} => HasDataset(DatasetRows[i].id)

\* The record description of a dataset has the size of the file's records: the
\* edition was guessed right as far as records differ (epr_read_record refuses
\* a record of another size).
RecordsFit ==
  pc = "open" =>
    \A d \in DatasetIds :
      file.dsds[d.dsd].name = DatasetRows[d.row].ds_name =>
        TotSize(Fields(d)) = file.dsds[d.dsd].dsr_size

\* A scaling that the table takes from the file is the element of the first
\* record it names; it is 0 if that record could not be read, and the sentinel
\* if there is no such dataset (epr_create_band_ids).
ScalingFromFile ==
  pc = "open" =>
    \A b \in BandIds :
      \A s \in {<<BandRows[b.row].offset, b.scaling_offset>>,
                <<BandRows[b.row].factor, b.scaling_factor>>} :
        ~IsNumber(s[1]) =>
          LET owner == DatasetId(s[1][1])
              empty == owner # 0 /\ file.dsds[dataset_ids.elems[owner].dsd].num_dsr = 0
          IN  CASE owner = 0 -> s[2] = Sentinel
                [] empty     -> s[2] = Zero
                [] OTHER     ->
                     \/ s[2] = <<"file", dataset_ids.elems[owner].dsd, s[1][2], s[1][3]>>
                     \/ s[2] = Zero /\ failures > 0

\* Values that a line of pixels has for each pixel, by sample model.
PerPixel(r) ==
  CASE r.sample = "3TOI" -> 3
    [] r.sample \in {"1OF2", "2OF2"} -> 2
    [] OTHER -> 1

\* A band is only made if it can be read: its field is in the record of its
\* dataset and has the elements that the sample model takes for each pixel or
\* tie point, and the flag of its mask is defined by a band of the product (band,
\* record and flag tables of one edition).
BandsResolve ==
  pc = "open" =>
    \A b \in BandIds :
      LET r == BandRows[b.row]
          rec == Fields(dataset_ids.elems[DatasetId(r.dataset)])
      IN  /\ HasDataset(r.dataset)
          /\ r.field \in DOMAIN rec
          /\ rec[r.field].num \in {PerPixel(r) * SceneRasterWidth, TiePointGridWidth, 11}
          /\ failures = 0 /\ r.mask # NoMask =>
               \E f \in BandIds :
                 /\ BandRows[f.row].id = r.mask[2]
                 /\ r.mask[3] \in DOMAIN FlagCoding(BandRows[f.row].flags)

\* An open product has all the bands of its table, and no error, or none and an
\* error: none if the database has no bands for the type, a band's dataset is
\* not in the file, or memory ran out (epr_create_band_ids).
AllBandsOrNone ==
  pc = "open" =>
    LET complete == /\ bt_index # 0
                    /\ \A i \in DOMAIN BandRows : HasDataset(BandRows[i].dataset)
    IN  /\ band_ids = NULL => err
        /\ band_ids # NULL => complete /\ ~err
        /\ failures = 0 /\ complete =>
             [i \in DOMAIN band_ids.elems |-> band_ids.elems[i].row] = [i \in DOMAIN BandRows |-> i]
=============================================================================
