------------------------- MODULE EprProduct_proofs -------------------------
(***************************************************************************)
(* Proofs about EprProduct, for any set of product structures, any set of  *)
(* files and any header sizes: its variables keep their types, a handle    *)
(* given to the caller is complete and was checked against its own header  *)
(* size, and no half-built structure is left behind.                       *)
(***************************************************************************)
EXTENDS EprProduct, TLAPS

(***************************************************************************)
(* The inductive invariant: what epr_open_product knows about the product  *)
(* under construction at each step.  HandleComplete is not inductive by    *)
(* itself: that the DSDs exist and that the head size is this file's own   *)
(* follows from steps taken long before the handle is returned.            *)
(***************************************************************************)
InOpen == pc \in Steps

\* The current structure is under construction exactly while a step is due.
Building ==
  /\ InOpen => prod[cur].phase = "opening" /\ initFlag
  /\ \A p \in Products : prod[p].phase # "none" => prod[p].file \in Files

\* From the identifier filter on.
Filtered == InOpen /\ pc # "id" => File.mission # "other"

\* From the first reading of the SPH on: an MPH that is there was used, and
\* if its sizes are not 0 the global head size is the one of this file.
HeadSizeOwn ==
  pc \in {"dyn", "resph", "dynsph", "dsds", "compare", "datasets", "bands"} /\ Me.mph =>
    /\ File.mphFields
    /\ File.sphSize > 0 /\ File.numDsd > 0 => headSize = (MphSize + File.sphSize) % Wrap

\* From epr_set_dyn_dddb_params on: the MPH is there; once it succeeded,
\* MERIS and ASAR have their parameters.
ParamsSet ==
  /\ pc \in {"resph", "dynsph", "dsds", "compare", "datasets", "bands"} => Me.mph
  /\ pc \in {"dsds", "compare", "datasets", "bands"} /\ File.mission \in {"MER", "ASA"} =>
       Me.sph /\ File.sphDyn

\* DSDs were read only from an SPH that has room for them.
DsdsRead ==
  pc \in {"compare", "datasets", "bands"} /\ Me.dsds > 0 =>
    File.sphSize > 0 /\ File.numDsd > 0

\* From epr_compare_param on, and from epr_create_dataset_ids on.
Compared ==
  /\ pc \in {"datasets", "bands"} => Me.dsds > 0 /\ File.dsOffset = headSize
  /\ pc = "bands" => Me.ids /\ File.known

\* The conjuncts that speak of all structures, and those about the current one.
Global == TypeOK /\ HandleComplete /\ NoHalfBuilt /\ Building
Stage  == Filtered /\ HeadSizeOwn /\ ParamsSet /\ DsdsRead /\ Compared

IInv == Global /\ Stage

-----------------------------------------------------------------------------
(***************************************************************************)
(* Lemmas about the building blocks of the actions.                        *)
(***************************************************************************)

\* Outside the steps of epr_open_product nothing is claimed of cur.
LEMMA StageVacuous == pc \notin Steps => Stage
  BY DEF Stage, Filtered, InOpen, HeadSizeOwn, ParamsSet, DsdsRead, Compared, Steps

LEMMA StageVacuousNext == pc' \notin Steps => Stage'
  BY DEF Stage, Filtered, InOpen, HeadSizeOwn, ParamsSet, DsdsRead, Compared, Steps

LEMMA NoProductType == NoProduct \in ProductType
  BY DEF NoProduct, ProductType, Phases, NoDsds

LEMMA PhaseType ==
  ASSUME NEW q \in ProductType, NEW ph \in Phases
  PROVE  /\ [q EXCEPT !.phase = ph] \in ProductType
         /\ [q EXCEPT !.phase = ph].phase = ph
         /\ [q EXCEPT !.phase = ph].file = q.file
  BY DEF ProductType

\* The pair of phases in which nothing is claimed of a structure that is
\* not under construction.
LEMMA AbandonedGlobal ==
  ASSUME IInv, InOpen, NEW q \in ProductType, q.phase \in {"none", "lost"},
         q.phase = "lost" => q.file = File,
         prod' = [prod EXCEPT ![cur] = q], errCode' \in ErrCodes,
         pc' = "idle", UNCHANGED <<initFlag, headSize, cur>>,
         Return("open", pc, FALSE)
  PROVE  Global'
<1> USE DEF Global
<1>1. TypeOK'
  BY DEF IInv, TypeOK, Return, RetType, InOpen
<1>2. HandleComplete'
  BY DEF IInv, TypeOK, HandleComplete
<1>3. NoHalfBuilt'
  BY DEF IInv, TypeOK, NoHalfBuilt
<1>4. Building'
  BY DEF IInv, TypeOK, Building, File, InOpen, Steps
<1> QED BY <1>1, <1>2, <1>3, <1>4

\* Every way of giving up keeps the invariant.
LEMMA CloseAndFailIInv ==
  ASSUME IInv, InOpen, NEW after \in ErrCodes, CloseAndFail(after)
  PROVE  IInv'
<1>1. PICK closed \in BOOLEAN :
        /\ prod' = [prod EXCEPT ![cur] =
                      IF closed THEN NoProduct ELSE [@ EXCEPT !.phase = "lost"]]
        /\ errCode' = IF after # "none" THEN after
                      ELSE IF closed THEN "none" ELSE "file_close_failed"
  BY DEF CloseAndFail
<1> DEFINE q == IF closed THEN NoProduct ELSE [prod[cur] EXCEPT !.phase = "lost"]
<1>2. prod[cur] \in ProductType
  BY DEF IInv, Global, TypeOK
<1>3. /\ q \in ProductType /\ q.phase \in {"none", "lost"}
      /\ q.phase = "lost" => q.file = File
  BY <1>2, NoProductType, PhaseType DEF Phases, NoProduct, File
<1>4. prod' = [prod EXCEPT ![cur] = q]
  BY <1>1, <1>2 DEF IInv, Global, TypeOK
<1>5. errCode' \in ErrCodes
  BY <1>1 DEF ErrCodes
<1>6. /\ pc' = "idle" /\ UNCHANGED <<initFlag, headSize, cur>>
      /\ Return("open", pc, FALSE)
  BY DEF CloseAndFail
<1> HIDE DEF q
<1>7. Global'
  BY <1>3, <1>4, <1>5, <1>6, AbandonedGlobal
<1>8. Stage'
  BY <1>6, StageVacuousNext DEF Steps
<1> QED BY <1>7, <1>8 DEF IInv

LEMMA CrashIInv == ASSUME IInv, InOpen, Crash PROVE IInv'
<1>1. Stage'
  BY StageVacuousNext DEF Crash, Steps
<1>2. Global'
  BY DEF IInv, Global, Crash, TypeOK, HandleComplete, NoHalfBuilt, Building, InOpen,
         Steps, Open
<1> QED BY <1>1, <1>2 DEF IInv

\* Going on keeps what is claimed of all structures, and says what cur is.
LEMMA GoOnGlobal ==
  ASSUME IInv, InOpen, NEW q \in ProductType, q.phase = "opening", q.file = File,
         NEW err \in ErrCodes, NEW next \in Steps,
         prod' = [prod EXCEPT ![cur] = q], errCode' = err, pc' = next,
         headSize' \in Nat, UNCHANGED <<initFlag, cur, ret>>
  PROVE  Global' /\ Me' = q /\ File' = File
<1> USE DEF IInv, Global
<1>1. Me' = q /\ File' = File
  BY DEF TypeOK, Me, File
<1>2. TypeOK'
  BY DEF TypeOK, Steps
<1>3. HandleComplete'
  BY DEF TypeOK, HandleComplete
<1>4. NoHalfBuilt'
  BY DEF TypeOK, NoHalfBuilt, Steps
<1>5. Building'
  BY DEF TypeOK, Building, InOpen, File
<1> QED BY <1>1, <1>2, <1>3, <1>4, <1>5

LEMMA GoOnFacts ==
  ASSUME IInv, InOpen, NEW q \in ProductType, q.phase = "opening", q.file = File,
         NEW err \in ErrCodes, NEW next \in Steps, GoOn(q, err, next)
  PROVE  /\ Global' /\ Me' = q /\ File' = File
         /\ pc' = next /\ headSize' = headSize
<1>1. /\ prod' = [prod EXCEPT ![cur] = q] /\ errCode' = err /\ pc' = next
      /\ headSize' = headSize /\ headSize' \in Nat /\ UNCHANGED <<initFlag, cur, ret>>
  BY DEF GoOn, IInv, Global, TypeOK
<1> QED BY <1>1, GoOnGlobal

\* The structure under construction and its file.
LEMMA Current ==
  ASSUME IInv, InOpen
  PROVE  /\ Me \in ProductType /\ Me.phase = "opening" /\ Me.file = File
         /\ File \in Files /\ File \in FileType /\ errCode \in ErrCodes
         /\ headSize \in Nat
  BY FilesAssumption DEF IInv, Global, TypeOK, Building, Me, File, InOpen

-----------------------------------------------------------------------------
\* Before epr_init_api nothing is open.
THEOREM InitIInv == Init => IInv
<1> SUFFICES ASSUME Init PROVE IInv
  OBVIOUS
<1>1. Stage
  BY StageVacuous DEF Init, Steps
<1>2. TypeOK
  BY NoProductType DEF Init, TypeOK, ErrCodes, RetType
<1>3. HandleComplete /\ NoHalfBuilt /\ Building
  BY DEF Init, HandleComplete, NoHalfBuilt, Building, NoProduct, InOpen, Steps
<1> QED BY <1>1, <1>2, <1>3 DEF IInv, Global

-----------------------------------------------------------------------------
(***************************************************************************)
(* Each step of epr_open_product keeps the invariant.                      *)
(***************************************************************************)
LEMMA ReadIdIInv == ASSUME IInv, ReadId PROVE IInv'
<1>1. InOpen
  BY DEF ReadId, InOpen, Steps
<1>2. CASE CloseAndFail("file_access_denied") \/ CloseAndFail("invalid_product_id")
  BY <1>1, <1>2, CloseAndFailIInv DEF ErrCodes
<1>3. CASE File.mission # "other" /\ GoOn(Me, errCode, "size")
  <2>1. Global' /\ Me' = Me /\ File' = File /\ pc' = "size"
    BY <1>1, <1>3, Current, GoOnFacts DEF Steps
  <2>2. Stage'
    BY <1>3, <2>1 DEF Stage, Filtered, HeadSizeOwn, ParamsSet, DsdsRead, Compared
  <2> QED BY <2>1, <2>2 DEF IInv
<1> QED BY <1>2, <1>3 DEF ReadId

LEMMA ReadSizeIInv == ASSUME IInv, ReadSize PROVE IInv'
<1>1. InOpen
  BY DEF ReadSize, InOpen, Steps
<1>2. CASE CloseAndFail("file_access_denied")
  BY <1>1, <1>2, CloseAndFailIInv DEF ErrCodes
<1>3. CASE GoOn(Me, errCode, "mph")
  <2>1. Global' /\ Me' = Me /\ File' = File /\ pc' = "mph"
    BY <1>1, <1>3, Current, GoOnFacts DEF Steps
  <2>2. Stage'
    BY <2>1 DEF ReadSize, IInv, InOpen, Stage, Filtered, HeadSizeOwn, ParamsSet, DsdsRead, Compared, Steps
  <2> QED BY <2>1, <2>2 DEF IInv
<1> QED BY <1>2, <1>3 DEF ReadSize

LEMMA ReadMphIInv == ASSUME IInv, ReadMph PROVE IInv'
<1>1. InOpen /\ pc = "mph"
  BY DEF ReadMph, InOpen, Steps
<1>2. PICK q \in {Me, [Me EXCEPT !.mph = TRUE]}, err \in ErrCodes : GoOn(q, err, "sph")
  BY DEF ReadMph, ErrCodes
<1>3. q \in ProductType /\ q.phase = "opening" /\ q.file = File
  BY <1>1, Current DEF ProductType
<1>4. Global' /\ File' = File /\ pc' = "sph"
  BY <1>1, <1>2, <1>3, GoOnFacts DEF Steps
<1>5. Stage'
  BY <1>1, <1>4 DEF IInv, InOpen, Stage, Filtered, HeadSizeOwn, ParamsSet, DsdsRead, Compared, Steps
<1> QED BY <1>4, <1>5 DEF IInv

LEMMA ReadSphSizesIInv == ASSUME IInv, ReadSphSizes PROVE IInv'
<1>1. InOpen /\ pc \in {"sph", "resph"} /\ AfterSph \in {"dyn", "dynsph"} /\ AfterSph \in Steps
  BY DEF ReadSphSizes, InOpen, Steps, AfterSph
<1>2. pc = "resph" => Me.mph
  BY DEF IInv, Stage, ParamsSet
<1>3. CASE ~Me.mph /\ SphError("file_read_error")
  <2>1. Global' /\ Me' = Me /\ File' = File /\ pc' = "dyn"
    BY <1>1, <1>2, <1>3, Current, GoOnFacts DEF SphError, Steps, ErrCodes, AfterSph
  <2>2. Stage'
    BY <1>1, <1>3, <2>1 DEF IInv, InOpen, Stage, Filtered, HeadSizeOwn, ParamsSet, DsdsRead, Compared
  <2> QED BY <2>1, <2>2 DEF IInv
<1>4. CASE ~Me.mph /\ GoOn([Me EXCEPT !.mph = TRUE], "none", pc)
  <2> DEFINE q == [Me EXCEPT !.mph = TRUE]
  <2>1. q \in ProductType /\ q.phase = "opening" /\ q.file = File
    BY <1>1, Current DEF ProductType
  <2> HIDE DEF q
  <2>2. pc \in Steps /\ "none" \in ErrCodes
    BY <1>1 DEF Steps, ErrCodes
  <2>3. GoOn(q, "none", pc)
    BY <1>4 DEF q
  <2>4. Global' /\ File' = File /\ pc' = "sph"
    BY <1>1, <1>2, <1>4, <2>1, <2>2, <2>3, GoOnFacts
  <2>5. Stage'
    BY <1>1, <2>4 DEF IInv, InOpen, Stage, Filtered, HeadSizeOwn, ParamsSet, DsdsRead, Compared
  <2> QED BY <2>4, <2>5 DEF IInv
<1>5. CASE Me.mph /\ ~File.mphFields /\ Crash
  BY <1>1, <1>5, CrashIInv
<1>6. CASE /\ Me.mph /\ File.mphFields
           /\ File.sphSize = 0 \/ File.numDsd = 0
           /\ SphError("invalid_value")
  <2>1. Global' /\ Me' = Me /\ File' = File /\ pc' = AfterSph
    BY <1>1, <1>6, Current, GoOnFacts DEF SphError, ErrCodes
  <2>2. File \in FileType
    BY <1>1, Current
  <2>3. Stage'
    BY <1>1, <1>6, <2>1, <2>2
    DEF IInv, InOpen, Stage, Filtered, HeadSizeOwn, ParamsSet, DsdsRead, Compared, FileType
  <2> QED BY <2>1, <2>3 DEF IInv
<1> QED BY <1>3, <1>4, <1>5, <1>6 DEF ReadSphSizes

LEMMA ReadSphIInv == ASSUME IInv, ReadSph PROVE IInv'
<1>1. InOpen /\ pc \in {"sph", "resph"} /\ AfterSph \in {"dyn", "dynsph"} /\ AfterSph \in Steps
  BY DEF ReadSph, InOpen, Steps, AfterSph
<1>2. headSize' = (MphSize + File.sphSize) % Wrap /\ headSize' \in Nat
  BY <1>1, Current, SizesAssumption DEF ReadSph, NewHeadSize, FileType
<1>3. CASE pc' = "crash"
  <2>1. prod' = prod /\ errCode' = errCode /\ UNCHANGED <<initFlag, cur, ret>>
    BY <1>1, <1>3 DEF ReadSph
  <2>2. Global'
    BY <1>1, <1>2, <1>3, <2>1
    DEF IInv, Global, TypeOK, HandleComplete, NoHalfBuilt, Building, InOpen, Steps
  <2> QED BY <1>3, <2>2, StageVacuousNext DEF IInv, Steps
<1>4. CASE pc' = AfterSph
  <2>1. PICK q \in {Me, [Me EXCEPT !.sph = TRUE]} : prod' = [prod EXCEPT ![cur] = q]
    BY <1>1, <1>4 DEF ReadSph, Me, IInv, Global, TypeOK
  <2>2. q \in ProductType /\ q.phase = "opening" /\ q.file = File /\ q.mph = Me.mph
    BY <1>1, Current DEF ProductType
  <2>3. errCode' \in ErrCodes /\ UNCHANGED <<initFlag, cur, ret>>
    BY <1>1, <1>4 DEF ReadSph, ErrCodes
  <2>4. Global' /\ Me' = q /\ File' = File
    BY <1>1, <1>2, <1>4, <2>1, <2>2, <2>3, GoOnGlobal
  <2>5. Stage'
    BY <1>1, <1>2, <1>4, <2>2, <2>4
    DEF ReadSph, IInv, InOpen, Stage, Filtered, HeadSizeOwn, ParamsSet, DsdsRead, Compared
  <2> QED BY <2>4, <2>5 DEF IInv
<1> QED BY <1>3, <1>4 DEF ReadSph

LEMMA SetDynDddbParamsIInv == ASSUME IInv, SetDynDddbParams PROVE IInv'
<1>1. InOpen /\ pc \in {"dyn", "dynsph"}
  BY DEF SetDynDddbParams, InOpen, Steps
<1>2. CASE ~Me.mph /\ Crash
  BY <1>1, <1>2, CrashIInv
<1>3. CASE CloseAndFail("none")
  BY <1>1, <1>3, CloseAndFailIInv DEF ErrCodes
<1>4. CASE Me.mph /\ GoOn(Me, "none", "resph")
  <2>1. Global' /\ Me' = Me /\ File' = File /\ pc' = "resph" /\ headSize' = headSize
    BY <1>1, <1>4, Current, GoOnFacts DEF Steps, ErrCodes
  <2>2. Stage'
    BY <1>1, <1>4, <2>1 DEF IInv, InOpen, Stage, Filtered, HeadSizeOwn, ParamsSet, DsdsRead, Compared
  <2> QED BY <2>1, <2>2 DEF IInv
<1>5. CASE /\ Me.mph /\ GoOn(Me, "none", "dsds")
           /\ File.mission \in {"MER", "ASA"} => Me.sph /\ File.sphDyn
  <2>1. Global' /\ Me' = Me /\ File' = File /\ pc' = "dsds" /\ headSize' = headSize
    BY <1>1, <1>5, Current, GoOnFacts DEF Steps, ErrCodes
  <2>2. Stage'
    BY <1>1, <1>5, <2>1 DEF IInv, InOpen, Stage, Filtered, HeadSizeOwn, ParamsSet, DsdsRead, Compared
  <2> QED BY <2>1, <2>2 DEF IInv
<1> QED BY <1>2, <1>3, <1>4, <1>5 DEF SetDynDddbParams

LEMMA ReadAllDsdsIInv == ASSUME IInv, ReadAllDsds PROVE IInv'
<1>1. InOpen /\ pc = "dsds"
  BY DEF ReadAllDsds, InOpen, Steps
<1>2. CASE File.filled > 0 /\ Crash
  BY <1>1, <1>2, CrashIInv
<1>3. CASE \E err \in {"file_access_denied", "file_read_error", "out_of_memory"} :
             GoOn([Me EXCEPT !.dsds = NoDsds], err, "compare")
  <2> DEFINE q == [Me EXCEPT !.dsds = NoDsds]
  <2>1. q \in ProductType /\ q.phase = "opening" /\ q.file = File
        /\ q.mph = Me.mph /\ q.sph = Me.sph /\ ~(q.dsds > 0)
    BY <1>1, Current DEF ProductType, NoDsds
  <2>2. PICK err \in ErrCodes : GoOn(q, err, "compare")
    BY <1>3 DEF ErrCodes
  <2> HIDE DEF q
  <2>3. Global' /\ Me' = q /\ File' = File /\ pc' = "compare" /\ headSize' = headSize
    BY <1>1, <2>1, <2>2, GoOnFacts DEF Steps
  <2>4. Stage'
    BY <1>1, <2>1, <2>3 DEF IInv, InOpen, Stage, Filtered, HeadSizeOwn, ParamsSet, DsdsRead, Compared
  <2> QED BY <2>3, <2>4 DEF IInv
<1>4. CASE /\ File.sphSize > 0 /\ (File.filled > 0 \/ File.numDsd = 0)
           /\ GoOn([Me EXCEPT !.dsds = File.filled], "none", "compare")
  <2> DEFINE q == [Me EXCEPT !.dsds = File.filled]
  <2>1. q \in ProductType /\ q.phase = "opening" /\ q.file = File
        /\ q.mph = Me.mph /\ q.sph = Me.sph /\ q.dsds = File.filled
    BY <1>1, Current DEF ProductType, FileType
  <2>2. File.filled \in Nat /\ File.numDsd \in Nat /\ File.filled <= File.numDsd
    BY <1>1, Current, FilesAssumption DEF FileType
  <2>3. GoOn(q, "none", "compare")
    BY <1>4
  <2> HIDE DEF q
  <2>4. Global' /\ Me' = q /\ File' = File /\ pc' = "compare" /\ headSize' = headSize
    BY <1>1, <2>1, <2>3, GoOnFacts DEF Steps, ErrCodes
  <2>5. Stage'
    BY <1>1, <1>4, <2>1, <2>2, <2>4
    DEF IInv, InOpen, Stage, Filtered, HeadSizeOwn, ParamsSet, DsdsRead, Compared
  <2> QED BY <2>4, <2>5 DEF IInv
<1> QED BY <1>2, <1>3, <1>4 DEF ReadAllDsds

LEMMA CompareParamIInv == ASSUME IInv, CompareParam PROVE IInv'
<1>1. InOpen /\ pc = "compare"
  BY DEF CompareParam, InOpen, Steps
<1>2. CASE Me.dsds \in {NoDsds, 0} /\ Crash
  BY <1>1, <1>2, CrashIInv
<1>3. CASE CloseAndFail("invalid_value")
  BY <1>1, <1>3, CloseAndFailIInv DEF ErrCodes
<1>4. CASE Me.dsds > 0 /\ HeadSizeMatches /\ GoOn(Me, "none", "datasets")
  <2>1. Global' /\ Me' = Me /\ File' = File /\ pc' = "datasets" /\ headSize' = headSize
    BY <1>1, <1>4, Current, GoOnFacts DEF Steps, ErrCodes
  <2>2. Stage'
    BY <1>1, <1>4, <2>1
    DEF IInv, InOpen, Stage, Filtered, HeadSizeOwn, ParamsSet, DsdsRead, Compared, HeadSizeMatches
  <2> QED BY <2>1, <2>2 DEF IInv
<1> QED BY <1>2, <1>3, <1>4 DEF CompareParam

LEMMA CreateDatasetIdsIInv == ASSUME IInv, CreateDatasetIds PROVE IInv'
<1>1. InOpen /\ pc = "datasets"
  BY DEF CreateDatasetIds, InOpen, Steps
<1>2. CASE CloseAndFail("none")
  BY <1>1, <1>2, CloseAndFailIInv DEF ErrCodes
<1>3. CASE File.known /\ GoOn([Me EXCEPT !.ids = TRUE], errCode, "bands")
  <2> DEFINE q == [Me EXCEPT !.ids = TRUE]
  <2>1. q \in ProductType /\ q.phase = "opening" /\ q.file = File
        /\ q.mph = Me.mph /\ q.sph = Me.sph /\ q.dsds = Me.dsds /\ q.ids
    BY <1>1, Current DEF ProductType
  <2> HIDE DEF q
  <2>2. Global' /\ Me' = q /\ File' = File /\ pc' = "bands" /\ headSize' = headSize
    BY <1>1, <1>3, <2>1, Current, GoOnFacts DEF Steps, q
  <2>3. Stage'
    BY <1>1, <1>3, <2>1, <2>2
    DEF IInv, InOpen, Stage, Filtered, HeadSizeOwn, ParamsSet, DsdsRead, Compared
  <2> QED BY <2>2, <2>3 DEF IInv
<1> QED BY <1>2, <1>3 DEF CreateDatasetIds

\* The handle is returned: what the steps established is what HandleComplete
\* asks of it.
LEMMA SceneHeightType ==
  ASSUME NEW f \in Files PROVE SceneHeight(f) \in Nat
  BY FilesAssumption DEF SceneHeight, FileType, Max

LEMMA CreateBandIdsIInv == ASSUME IInv, CreateBandIds PROVE IInv'
<1>1. InOpen /\ pc = "bands"
  BY DEF CreateBandIds, InOpen, Steps
<1> DEFINE h == SceneHeight(File)
<1>2. PICK q \in {Me, [Me EXCEPT !.bands = TRUE, !.height = h]}, err \in ErrCodes :
        ReturnHandle(q, err)
  BY DEF CreateBandIds, ErrCodes
<1>3. h \in Nat
  BY <1>1, Current, SceneHeightType
<1> HIDE DEF h
<1>4. /\ q \in ProductType /\ q.file = File /\ q.mph = Me.mph /\ q.sph = Me.sph
      /\ q.dsds = Me.dsds /\ q.ids = Me.ids
  BY <1>1, <1>2, <1>3, Current DEF ProductType
<1> DEFINE r == [q EXCEPT !.phase = "open"]
<1>5. /\ r \in ProductType /\ r.file = File /\ r.phase = "open"
      /\ r.mph /\ r.ids /\ r.dsds > 0
      /\ File.dsOffset = (MphSize + File.sphSize) % Wrap
      /\ File.mission \in {"MER", "ASA"} => r.sph /\ File.sphDyn
      /\ File.mission # "other" /\ File.known
  <2>1. r \in ProductType /\ r.file = File /\ r.phase = "open"
        /\ r.mph = Me.mph /\ r.sph = Me.sph /\ r.dsds = Me.dsds /\ r.ids = Me.ids
    BY <1>4 DEF ProductType, Phases
  <2> QED BY <1>1, <2>1
     DEF IInv, Stage, Filtered, HeadSizeOwn, ParamsSet, DsdsRead, Compared, InOpen
<1>6. /\ prod' = [prod EXCEPT ![cur] = r] /\ pc' = "idle"
      /\ UNCHANGED <<initFlag, headSize, cur>>
  BY <1>2 DEF ReturnHandle
<1> HIDE DEF r
<1>7. TypeOK'
  BY <1>1, <1>2, <1>5, <1>6 DEF IInv, Global, TypeOK, ReturnHandle, Return, RetType, InOpen
<1>8. HandleComplete'
  BY <1>5, <1>6 DEF IInv, Global, TypeOK, HandleComplete
<1>9. NoHalfBuilt' /\ Building'
  BY <1>1, <1>5, <1>6, Current DEF IInv, Global, TypeOK, NoHalfBuilt, Building, InOpen, Steps
<1> QED BY <1>6, <1>7, <1>8, <1>9, StageVacuousNext DEF IInv, Global, Steps

-----------------------------------------------------------------------------
(***************************************************************************)
(* The calls made while no product is under construction.                  *)
(***************************************************************************)

\* A call that leaves every structure alone and starts no open.
LEMMA IdleCall ==
  ASSUME IInv, Ready, UNCHANGED <<prod, pc, cur, headSize>>, TypeOK'
  PROVE  IInv'
<1>1. Stage'
  BY StageVacuousNext DEF Ready, Steps
<1>2. HandleComplete' /\ NoHalfBuilt' /\ Building'
  BY DEF IInv, Global, HandleComplete, NoHalfBuilt, Building, Ready, InOpen, Steps
<1> QED BY <1>1, <1>2 DEF IInv, Global

LEMMA OpenFileIInv ==
  ASSUME IInv, NEW p \in Products, NEW f \in Files, OpenFile(p, f)
  PROVE  IInv'
<1>1. /\ NewProduct(f) \in ProductType /\ NewProduct(f).phase = "opening"
      /\ NewProduct(f).file = f
  BY DEF NewProduct, NoProduct, ProductType, Phases, NoDsds
<1>2. /\ prod' = [prod EXCEPT ![p] = NewProduct(f)] /\ cur' = p /\ pc' = "id"
      /\ initFlag /\ UNCHANGED <<initFlag, headSize, ret>> /\ errCode' = "none"
      /\ pc = "idle"
  BY DEF OpenFile, Ready
<1>3. TypeOK'
  BY <1>1, <1>2 DEF IInv, Global, TypeOK, Steps, ErrCodes
<1>4. HandleComplete' /\ NoHalfBuilt' /\ Building'
  BY <1>1, <1>2 DEF IInv, Global, TypeOK, HandleComplete, NoHalfBuilt, Building, InOpen, Steps
<1>5. Stage'
  BY <1>2 DEF Stage, Filtered, HeadSizeOwn, ParamsSet, DsdsRead, Compared
<1> QED BY <1>3, <1>4, <1>5 DEF IInv, Global

LEMMA CloseProductIInv ==
  ASSUME IInv, NEW p \in Products, CloseProduct(p)
  PROVE  IInv'
<1>1. /\ Ready /\ UNCHANGED <<initFlag, headSize, pc, cur>>
      /\ prod[p].phase = "open" /\ prod[p] \in ProductType
  BY DEF CloseProduct, Open, IInv, Global, TypeOK
<1>2. PICK q \in {prod[p], [prod[p] EXCEPT !.phase = "stuck"], NoProduct} :
        prod' = [prod EXCEPT ![p] = q]
  BY <1>1 DEF CloseProduct, IInv, Global, TypeOK
<1>3. /\ q \in ProductType
      /\ \/ q = NoProduct
         \/ /\ q.phase \in {"open", "stuck"} /\ q.file = prod[p].file
            /\ q.mph = prod[p].mph /\ q.sph = prod[p].sph
            /\ q.dsds = prod[p].dsds /\ q.ids = prod[p].ids
  BY <1>1, NoProductType DEF ProductType, Phases
<1>4. errCode' \in ErrCodes /\ ret' \in RetType
  <2>1. PICK err \in {"api_not_initialized", "file_close_failed", "none"},
             at \in {"init", "fclose", "end"}, ok \in BOOLEAN :
               errCode' = err /\ Return("close", at, ok)
    BY DEF CloseProduct
  <2> QED BY <2>1 DEF ErrCodes, Return, RetType
<1>5. TypeOK'
  BY <1>1, <1>2, <1>3, <1>4 DEF IInv, Global, TypeOK, Steps
<1>6. HandleComplete'
  BY <1>1, <1>2, <1>3 DEF IInv, Global, TypeOK, HandleComplete, NoProduct
<1>7. NoHalfBuilt' /\ Building'
  BY <1>1, <1>2, <1>3 DEF IInv, Global, TypeOK, NoHalfBuilt, Building, NoProduct, Ready, InOpen, Steps
<1>8. Stage'
  BY <1>1, StageVacuousNext DEF Ready, Steps
<1> QED BY <1>5, <1>6, <1>7, <1>8 DEF IInv, Global

LEMMA ApiCallIInv == ASSUME IInv, ApiCall PROVE IInv'
<1>1. ASSUME InitApi \/ CloseApi \/ GetFromProduct \/ OpenRefused \/ CloseNull
      PROVE  IInv'
  <2>1. Ready /\ UNCHANGED <<prod, pc, cur, headSize>>
    BY <1>1 DEF InitApi, CloseApi, GetFromProduct, OpenRefused, CloseNull
  <2>2. errCode' \in ErrCodes /\ initFlag' \in BOOLEAN
    BY <1>1 DEF InitApi, CloseApi, GetFromProduct, OpenRefused, CloseNull, ErrCodes,
                IInv, Global, TypeOK
  <2>3. ret' \in RetType
    <3>1. PICK fn \in {"init", "close_api", "get", "open", "close"},
                at \in {"end", "null", "begin"}, ok \in BOOLEAN : Return(fn, at, ok)
      BY <1>1 DEF InitApi, CloseApi, GetFromProduct, OpenRefused, CloseNull
    <3> QED BY <3>1 DEF Return, RetType
  <2>4. TypeOK'
    BY <2>1, <2>2, <2>3 DEF IInv, Global, TypeOK
  <2> QED BY <2>1, <2>4, IdleCall
<1>2. ASSUME NEW p \in Products, NEW f \in Files, OpenFile(p, f) PROVE IInv'
  BY <1>2, OpenFileIInv
<1>3. ASSUME NEW p \in Products, CloseProduct(p) PROVE IInv'
  BY <1>3, CloseProductIInv
<1> QED BY <1>1, <1>2, <1>3 DEF ApiCall

LEMMA StutterIInv == ASSUME IInv, UNCHANGED vars PROVE IInv'
<1>1. Global'
  BY DEF IInv, Global, TypeOK, HandleComplete, NoHalfBuilt, Building, InOpen, vars
<1>2. Stage'
  BY DEF IInv, Stage, Filtered, HeadSizeOwn, ParamsSet, DsdsRead, Compared, InOpen, Me, File, vars
<1> QED BY <1>1, <1>2 DEF IInv

-----------------------------------------------------------------------------
\* The invariant is inductive.
THEOREM NextIInv == IInv /\ [Next]_vars => IInv'
<1> SUFFICES ASSUME IInv, [Next]_vars PROVE IInv'
  OBVIOUS
<1>1. CASE OpenStep
  BY <1>1, ReadIdIInv, ReadSizeIInv, ReadMphIInv, ReadSphSizesIInv, ReadSphIInv,
     SetDynDddbParamsIInv, ReadAllDsdsIInv, CompareParamIInv, CreateDatasetIdsIInv,
     CreateBandIdsIInv DEF OpenStep
<1>2. CASE ApiCall
  BY <1>2, ApiCallIInv
<1>3. CASE UNCHANGED vars
  BY <1>3, StutterIInv
<1> QED BY <1>1, <1>2, <1>3 DEF Next

\* The invariant holds in every state of the API, for all products and files.
THEOREM Invariance == Spec => []IInv
  BY InitIInv, NextIInv, PTL DEF Spec

\* The variables keep their types: no error code, step or height outside the
\* ones the code has, for any number of products.
THEOREM TypeCorrect == Spec => []TypeOK
<1>1. IInv => TypeOK
  BY DEF IInv, Global
<1> QED BY <1>1, Invariance, PTL

\* Every handle the caller owns went through all the checks, in spite of the
\* results epr_open_product does not look at, and its own header size is the
\* one that was compared, in spite of the global it is kept in.
THEOREM HandlesAreComplete == Spec => []HandleComplete
<1>1. IInv => HandleComplete
  BY DEF IInv, Global
<1> QED BY <1>1, Invariance, PTL

\* No call leaves a structure half-built.
THEOREM NothingHalfBuilt == Spec => []NoHalfBuilt
<1>1. IInv => NoHalfBuilt
  BY DEF IInv, Global
<1> QED BY <1>1, Invariance, PTL

-----------------------------------------------------------------------------
(***************************************************************************)
(* Which failures of epr_open_product carry which code.                    *)
(***************************************************************************)

\* An open gives up at one of its steps with a code of its own, or at one of
\* three with what the clean-up leaves.
LEMMA GivingUp ==
  ASSUME OpenStep, pc' = "idle", ~ret'.ok
  PROVE  \/ /\ CloseAndFail("none") /\ pc \in {"dyn", "dynsph", "datasets"}
         \/ /\ CloseAndFail("invalid_value") /\ pc = "compare"
         \/ /\ CloseAndFail("file_access_denied") \/ CloseAndFail("invalid_product_id")
            /\ pc \in {"id", "size"}
<1>1. ASSUME NEW q, NEW err, NEW next, next # "idle" PROVE ~GoOn(q, err, next)
  BY <1>1 DEF GoOn
<1>2. ~Crash
  BY DEF Crash
<1>3. ASSUME NEW q, NEW err PROVE ~ReturnHandle(q, err)
  BY DEF ReturnHandle, Return
<1>4. CASE ReadId \/ ReadSize
  BY <1>1, <1>4 DEF ReadId, ReadSize
<1>5. CASE ReadMph
  BY <1>1, <1>5 DEF ReadMph
<1>6. CASE ReadSphSizes
  BY <1>1, <1>2, <1>6 DEF ReadSphSizes, SphError, AfterSph
<1>7. CASE ReadSph
  BY <1>7 DEF ReadSph, AfterSph
<1>8. CASE SetDynDddbParams
  BY <1>1, <1>2, <1>8 DEF SetDynDddbParams
<1>9. CASE ReadAllDsds
  BY <1>1, <1>2, <1>9 DEF ReadAllDsds
<1>10. CASE CompareParam
  BY <1>1, <1>2, <1>10 DEF CompareParam
<1>11. CASE CreateDatasetIds
  BY <1>1, <1>11 DEF CreateDatasetIds
<1>12. CASE CreateBandIds
  BY <1>3, <1>12 DEF CreateBandIds
<1> QED
  BY <1>4, <1>5, <1>6, <1>7, <1>8, <1>9, <1>10, <1>11, <1>12 DEF OpenStep

\* The code and the step at which an open fails are set together, and the next
\* call replaces both.
LEMMA NextNullCauses ==
  ASSUME NullCauses, [Next]_vars
  PROVE  NullCauses'
<1> SUFFICES ASSUME pc' = "idle", ret'.fn = "open", ~ret'.ok
             PROVE  /\ errCode' \in {"none", "file_close_failed"} =>
                         ret'.at \in {"dyn", "dynsph", "datasets"}
                    /\ errCode' = "invalid_value" => ret'.at = "compare"
                    /\ ret'.at = "compare" => errCode' = "invalid_value"
  BY DEF NullCauses, Ready
<1>1. CASE OpenStep
  <2>1. PICK after :
          /\ CloseAndFail(after)
          /\ \/ after = "none" /\ pc \in {"dyn", "dynsph", "datasets"}
             \/ after = "invalid_value" /\ pc = "compare"
             \/ after \in {"file_access_denied", "invalid_product_id"} /\ pc \in {"id", "size"}
    BY <1>1, GivingUp
  <2>2. ret'.at = pc
    BY <2>1 DEF CloseAndFail, Return
  <2>3. errCode' = IF after # "none" THEN after ELSE errCode'
    BY <2>1 DEF CloseAndFail
  <2>4. after = "none" => errCode' \in {"none", "file_close_failed"}
    BY <2>1 DEF CloseAndFail
  <2> QED BY <2>1, <2>2, <2>3, <2>4
<1>2. CASE OpenRefused
  BY <1>2 DEF OpenRefused, Return
<1>3. CASE InitApi \/ CloseApi \/ GetFromProduct \/ CloseNull
  BY <1>3 DEF InitApi, CloseApi, GetFromProduct, CloseNull, Return
<1>4. ASSUME NEW p \in Products, NEW f \in Files, OpenFile(p, f) PROVE FALSE
  BY <1>4 DEF OpenFile
<1>5. ASSUME NEW p \in Products, CloseProduct(p) PROVE FALSE
  BY <1>5 DEF CloseProduct, Return
<1>6. CASE UNCHANGED vars
  BY <1>6 DEF vars, NullCauses, Ready
<1> QED BY <1>1, <1>2, <1>3, <1>4, <1>5, <1>6 DEF Next, ApiCall

\* An open that returns NULL without an error code failed at the dynamic
\* parameters or at the product type; every other failure says what it was.
THEOREM NullHasThreeCauses == Spec => []NullCauses
<1>1. Init => NullCauses
  BY DEF Init, NullCauses
<1> QED BY <1>1, NextNullCauses, PTL DEF Spec

=============================================================================
