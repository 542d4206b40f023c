---------------------------- MODULE EprProduct ----------------------------
(***************************************************************************)
(* The product life cycle of the ENVISAT product reader API: the global    *)
(* API state (epr_core.h, struct EPR_API), epr_init_api / epr_close_api,   *)
(* epr_open_product with the helpers it calls in order, and                *)
(* epr_close_product.                                                      *)
(*                                                                         *)
(* epr_open_product is one synchronous call, but it is a sequence of steps *)
(* that read the file, write the product under construction, and set and   *)
(* clear the one global error code.  Each step is an action here, pc names *)
(* the next one, and every fseek/fread/parse may fail at every step.       *)
(*                                                                         *)
(* What the model keeps of a file is what the control flow depends on; the *)
(* contents of headers and records are left out.                           *)
(***************************************************************************)
EXTENDS Integers, FiniteSets, FiniteSetsExt

CONSTANTS
  Products,  \* identities of the EPR_SProductId structures that can exist
  Files,     \* the files a caller may ask to open
  NoFile,    \* the file of a structure that is not allocated
  MphSize,   \* EPR_MPH_SIZE, the fixed size of the main product header
  DsdSize,   \* EPR_DSD_SIZE, the fixed size of a dataset descriptor
  Wrap       \* 2^32: uint arithmetic is modulo Wrap

\* A file: its instrument, the header fields the code reads, the offset of
\* the first DSD whose offset is not 0 (0 if all are), how many DSD slots are
\* not blank, and the record counts of the measurement DSDs.  "WVI" stands
\* for ASA_WVI_1P, the ASAR type that epr_set_dyn_dddb_params leaves alone.
FileType == [ mission   : {"MER", "ASA", "WVI", "ATS", "other"},
              mphFields : BOOLEAN,  \* the MPH has PRODUCT, SPH_SIZE, NUM_DSD
              sphSize   : Nat,
              numDsd    : Nat,
              filled    : Nat,
              dsOffset  : Nat,
              sphDyn    : BOOLEAN,  \* LINE_LENGTH, LINES_PER_TIE_PT are > 0
              known     : BOOLEAN,  \* dddb_product_tables has the type
              banded    : BOOLEAN,  \* dddb_band_tables has it, refs resolve
              mds       : SUBSET Nat ]

ASSUME SizesAssumption == {MphSize, DsdSize, Wrap} \subseteq Nat \ {0}
ASSUME FilesAssumption == /\ Files \subseteq FileType
                          /\ \A f \in Files : f.mds = {} \/ \E m \in f.mds : \A n \in f.mds : n <= m
                          /\ \A f \in Files : f.filled <= f.numDsd
                          /\ \A f \in Files : f.sphSize < Wrap /\ f.dsOffset < Wrap
                          /\ NoFile \notin Files

VARIABLES
  initFlag,  \* epr_api.init_flag
  errCode,   \* epr_api.last_err_code, without its e_err_ prefix
  headSize,  \* epr_api.epr_head_size: one global for all products
  prod,      \* the product structures
  pc,        \* "idle", the next step of epr_open_product, or "crash"
  cur,       \* the product under construction
  ret        \* the API call that returned last, and what it returned

vars == <<initFlag, errCode, headSize, prod, pc, cur, ret>>

ErrCodes == {"none", "null_pointer", "out_of_memory", "file_not_found",
             "file_access_denied", "file_read_error", "file_close_failed",
             "invalid_product_id", "invalid_value", "invalid_record",
             "invalid_data_format", "invalid_dataset_name",
             "api_not_initialized"}

Steps == {"id", "size", "mph", "sph", "dyn", "resph", "dynsph", "dsds",
          "compare", "datasets", "bands"}

\* Where a product structure is: not allocated; under construction; owned by
\* the caller; owned by the caller but with a stream that fclose rejected;
\* allocated but known to nobody.
Phases == {"none", "opening", "open", "stuck", "lost"}

\* dsd_array = NULL; otherwise dsds is the length of that array.
NoDsds == -1

\* Which pointers of EPR_SProductId are not NULL, and scene_height.
ProductType == [ phase : Phases, file : Files \cup {NoFile},
                 mph : BOOLEAN, sph : BOOLEAN, dsds : Nat \cup {NoDsds},
                 ids : BOOLEAN, bands : BOOLEAN, height : Nat ]

NoProduct == [phase |-> "none", file |-> NoFile, mph |-> FALSE, sph |-> FALSE,
              dsds |-> NoDsds, ids |-> FALSE, bands |-> FALSE, height |-> 0]

\* calloc leaves every pointer NULL; the stream is open.
NewProduct(f) == [NoProduct EXCEPT !.phase = "opening", !.file = f]

Ready == pc = "idle"

Free == {p \in Products : prod[p].phase = "none"}
Open == {p \in Products : prod[p].phase = "open"}

Me   == prod[cur]
File == prod[cur].file

\* The call that returned, where in it, and whether it succeeded.
RetType == [ fn : {"none", "init", "close_api", "get", "open", "close"},
             at : Steps \cup {"begin", "end", "null", "init", "fclose"},
             ok : BOOLEAN ]

Return(fn, at, ok) == ret' = [fn |-> fn, at |-> at, ok |-> ok]

-----------------------------------------------------------------------------
(***************************************************************************)
(* The API state.                                                          *)
(***************************************************************************)

\* epr_init_api.  A second call returns at once: it neither counts nor
\* clears the error.  Byte order detection always succeeds on real machines.
InitApi ==
  /\ Ready
  /\ initFlag' = TRUE
  /\ errCode'  = IF initFlag THEN errCode ELSE "none"
  /\ Return("init", "end", TRUE)
  /\ UNCHANGED <<headSize, prod, pc, cur>>

\* epr_close_api.  Products that are still open are not looked at.
CloseApi ==
  /\ Ready
  /\ errCode'  = "none"
  /\ initFlag' = FALSE
  /\ Return("close_api", "end", TRUE)
  /\ UNCHANGED <<headSize, prod, pc, cur>>

\* The accessors of a product (epr_get_scene_width, epr_get_mph, ...): they
\* clear the error, reject NULL, and read a member.
GetFromProduct ==
  /\ Ready
  /\ \/ /\ Open # {}
        /\ errCode' = "none"
        /\ Return("get", "end", TRUE)
     \/ /\ errCode' = "null_pointer"
        /\ Return("get", "null", FALSE)
  /\ UNCHANGED <<initFlag, headSize, prod, pc, cur>>

-----------------------------------------------------------------------------
(***************************************************************************)
(* Leaving epr_open_product.                                               *)
(***************************************************************************)

\* Mutant of CloseAndFail: an early return that forgets epr_close_product.
MutForgetClose(after) ==
  /\ errCode' = after
  /\ Return("open", pc, FALSE)
  /\ pc' = "idle"
  /\ UNCHANGED <<initFlag, headSize, prod, cur>>

\* Mutant of CloseAndFail: epr_set_err before epr_close_product, which
\* clears it.
MutSetErrFirst(after) ==
  /\ \E closed \in BOOLEAN :
       /\ prod' = [prod EXCEPT ![cur] =
                     IF closed THEN NoProduct ELSE [@ EXCEPT !.phase = "lost"]]
       /\ errCode' = IF closed THEN "none" ELSE "file_close_failed"
  /\ Return("open", pc, FALSE)
  /\ pc' = "idle"
  /\ UNCHANGED <<initFlag, headSize, cur>>

\* epr_close_product as called from inside epr_open_product, then the
\* epr_set_err that follows it, if any (after = "none": there is none).
\* epr_close_product clears the error; if fclose fails it sets its own and
\* returns without freeing the structure, which nobody knows any more.
CloseAndFail(after) ==
  /\ \E closed \in BOOLEAN :
       /\ prod' = [prod EXCEPT ![cur] =
                     IF closed THEN NoProduct ELSE [@ EXCEPT !.phase = "lost"]]
       /\ errCode' = IF after # "none" THEN after
                     ELSE IF closed THEN "none" ELSE "file_close_failed"
  /\ Return("open", pc, FALSE)
  /\ pc' = "idle"
  /\ UNCHANGED <<initFlag, headSize, cur>>

\* A NULL pointer is dereferenced: the process ends.
Crash ==
  /\ pc' = "crash"
  /\ UNCHANGED <<initFlag, errCode, headSize, prod, cur, ret>>

\* A step of epr_open_product that leaves the product as q and goes on.
GoOn(q, err, next) ==
  /\ prod'    = [prod EXCEPT ![cur] = q]
  /\ errCode' = err
  /\ pc'      = next
  /\ UNCHANGED <<initFlag, headSize, cur, ret>>

-----------------------------------------------------------------------------
(***************************************************************************)
(* The steps of epr_open_product.                                          *)
(***************************************************************************)

\* The call is rejected, or runs out of memory, or the file does not open,
\* before there is a stream: the structure, if any, is freed directly.
OpenRefused ==
  /\ Ready
  /\ errCode' \in IF initFlag
                  THEN {"null_pointer", "out_of_memory", "file_not_found",
                        "file_access_denied"}
                  ELSE {"api_not_initialized"}
  /\ Return("open", "begin", FALSE)
  /\ UNCHANGED <<initFlag, headSize, prod, pc, cur>>

OpenFile(p, f) ==
  /\ Ready
  /\ initFlag
  /\ p \in Free
  /\ prod'    = [prod EXCEPT ![p] = NewProduct(f)]
  /\ cur'     = p
  /\ errCode' = "none"
  /\ pc'      = "id"
  /\ UNCHANGED <<initFlag, headSize, ret>>

\* The product identifier is read and filtered.  AT1 and AT2 are disguised
\* as ATS; the tenth character is forced to 'P'.
ReadId ==
  /\ pc = "id"
  /\ \/ CloseAndFail("file_access_denied")
     \/ File.mission = "other" /\ CloseAndFail("invalid_product_id")
     \/ File.mission # "other" /\ GoOn(Me, errCode, "size")

\* fseek to the end, ftell, fseek to the start, each of which may fail.
ReadSize ==
  /\ pc = "size"
  /\ \/ CloseAndFail("file_access_denied")
     \/ GoOn(Me, errCode, "mph")

\* epr_read_mph: its result is not checked by epr_open_product.
ReadMph ==
  /\ pc = "mph"
  /\ \/ GoOn([Me EXCEPT !.mph = TRUE], "none", "sph")
     \/ \E err \in {"out_of_memory", "file_read_error", "invalid_record"} :
          GoOn(Me, err, "sph")

\* Mutant of AfterSph: the second try does not know it is the second.
MutRetryForever == "dyn"

\* After the SPH: the step that follows the first call, and the second one.
AfterSph == IF pc = "sph" THEN "dyn" ELSE "dynsph"

SphError(err) == GoOn(Me, err, AfterSph)

\* epr_read_sph, up to the assignment of the global head size: the MPH is
\* read again if it is missing, and SPH_SIZE and NUM_DSD are looked up in it
\* without a check that they were found.
ReadSphSizes ==
  /\ pc \in {"sph", "resph"}
  /\ \/ ~Me.mph /\ SphError("file_read_error")
     \/ ~Me.mph /\ GoOn([Me EXCEPT !.mph = TRUE], "none", pc)
     \/ Me.mph /\ ~File.mphFields /\ Crash
     \/ /\ Me.mph /\ File.mphFields
        /\ File.sphSize = 0 \/ File.numDsd = 0
        /\ SphError("invalid_value")

\* Mutant of NewHeadSize: the global is taken for a constant of the format.
MutHeadSizeOnce == IF headSize = 0 THEN (MphSize + File.sphSize) % Wrap ELSE headSize

\* What epr_read_sph stores in epr_api.epr_head_size: a sum of uints.
NewHeadSize == (MphSize + File.sphSize) % Wrap

\* epr_read_sph from there on.  The length without DSDs is a uint that wraps
\* when the DSDs are larger than the SPH: the buffer of that length is either
\* denied, and fread gets NULL, or cannot be filled from the file.
ReadSph ==
  /\ pc \in {"sph", "resph"}
  /\ Me.mph /\ File.mphFields /\ File.sphSize > 0 /\ File.numDsd > 0
  /\ headSize' = NewHeadSize
  /\ LET Wraps == File.sphSize < (File.numDsd * DsdSize) % Wrap
     IN  \/ /\ \E err \in {"file_access_denied", "file_read_error", "invalid_record"} :
                errCode' = err
            /\ pc' = AfterSph
            /\ prod' = prod
         \/ /\ Wraps
            /\ pc' = "crash"
            /\ UNCHANGED <<errCode, prod>>
         \/ /\ ~Wraps
            /\ errCode' = "none"
            /\ pc' = AfterSph
            /\ prod' = [prod EXCEPT ![cur].sph = TRUE]
  /\ UNCHANGED <<initFlag, cur, ret>>

\* epr_set_dyn_dddb_params.  The PRODUCT field is used unchecked, so a
\* missing MPH ends the process.  MERIS reads a missing SPH once more.  MERIS
\* and ASAR products need their dynamic parameters; when they lack them the
\* error just set is cleared again by epr_close_product.
SetDynDddbParams ==
  /\ pc \in {"dyn", "dynsph"}
  /\ \/ ~Me.mph /\ Crash
     \/ /\ Me.mph /\ pc = "dyn" /\ File.mission = "MER" /\ ~Me.sph
        /\ GoOn(Me, "none", "resph")
     \/ /\ Me.mph /\ File.mission \in {"MER", "ASA"}
        /\ pc = "dyn" /\ File.mission = "MER" => Me.sph
        /\ IF Me.sph /\ File.sphDyn THEN GoOn(Me, "none", "dsds")
                                   ELSE CloseAndFail("none")
     \/ /\ Me.mph /\ File.mission \notin {"MER", "ASA"}
        /\ GoOn(Me, "none", "dsds")

\* epr_read_all_dsds: its result is not checked by epr_open_product.  Without
\* a DS_NAME line in the SPH there are no DSDs; a DSD slot that lacks a
\* keyword is used as if it had it.
ReadAllDsds ==
  /\ pc = "dsds"
  /\ \/ \E err \in {"file_access_denied", "file_read_error", "out_of_memory"} :
          GoOn([Me EXCEPT !.dsds = NoDsds], err, "compare")
     \/ File.filled > 0 /\ Crash
     \/ /\ File.sphSize > 0 /\ (File.filled > 0 \/ File.numDsd = 0)
        /\ GoOn([Me EXCEPT !.dsds = File.filled], "none", "compare")

\* epr_compare_param: dsd_array and the DSD found in it are used unchecked,
\* and the expected offset is the global head size.
HeadSizeMatches == headSize # 0 /\ File.dsOffset = headSize

CompareParam ==
  /\ pc = "compare"
  /\ \/ Me.dsds \in {NoDsds, 0} /\ Crash
     \/ Me.dsds > 0 /\ ~HeadSizeMatches /\ CloseAndFail("invalid_value")
     \/ Me.dsds > 0 /\ HeadSizeMatches /\ GoOn(Me, "none", "datasets")

\* epr_create_dataset_ids: NULL for a type the DDDB does not know, with an
\* error that epr_close_product clears.
CreateDatasetIds ==
  /\ pc = "datasets"
  /\ IF File.known THEN GoOn([Me EXCEPT !.ids = TRUE], errCode, "bands")
                   ELSE CloseAndFail("none")

\* Mutant of SceneHeight: the (uint)-1 that other functions return on error.
MutHeightMinusOne(f) == IF f.mds = {} THEN -1 ELSE Max(f.mds)

\* epr_compute_scene_height.
SceneHeight(f) == IF f.mds = {} THEN 0 ELSE Max(f.mds)

\* epr_open_product returns the handle.
ReturnHandle(q, err) ==
  /\ prod'    = [prod EXCEPT ![cur] = [q EXCEPT !.phase = "open"]]
  /\ errCode' = err
  /\ pc'      = "idle"
  /\ Return("open", pc, TRUE)
  /\ UNCHANGED <<initFlag, headSize, cur>>

\* epr_create_band_ids and the scene size.  A product without bands is
\* returned all the same, and so is one of height 0: both with an error set.
CreateBandIds ==
  /\ pc = "bands"
  /\ \/ /\ ~File.banded
        /\ \E err \in {"null_pointer", "invalid_dataset_name"} : ReturnHandle(Me, err)
     \/ /\ File.banded
        /\ LET h == SceneHeight(File)
           IN  ReturnHandle([Me EXCEPT !.bands = TRUE, !.height = h],
                            IF h = 0 THEN "invalid_data_format" ELSE "none")

-----------------------------------------------------------------------------
(***************************************************************************)
(* epr_close_product as called by the user of the library.                 *)
(***************************************************************************)

CloseNull ==
  /\ Ready
  /\ Return("close", "null", TRUE)
  /\ UNCHANGED <<initFlag, errCode, headSize, prod, pc, cur>>

CloseProduct(p) ==
  /\ Ready
  /\ p \in Open
  /\ \/ /\ ~initFlag
        /\ errCode' = "api_not_initialized"
        /\ prod' = prod
        /\ Return("close", "init", FALSE)
     \/ /\ initFlag
        /\ errCode' = "file_close_failed"
        /\ prod' = [prod EXCEPT ![p].phase = "stuck"]
        /\ Return("close", "fclose", FALSE)
     \/ /\ initFlag
        /\ errCode' = "none"
        /\ prod' = [prod EXCEPT ![p] = NoProduct]
        /\ Return("close", "end", TRUE)
  /\ UNCHANGED <<initFlag, headSize, pc, cur>>

-----------------------------------------------------------------------------
Init ==
  /\ initFlag = FALSE
  /\ errCode  = "none"
  /\ headSize = 0
  /\ prod     = [p \in Products |-> NoProduct]
  /\ pc       = "idle"
  /\ cur      \in Products
  /\ ret      = [fn |-> "none", at |-> "begin", ok |-> TRUE]

OpenStep ==
  \/ ReadId \/ ReadSize \/ ReadMph \/ ReadSphSizes \/ ReadSph
  \/ SetDynDddbParams \/ ReadAllDsds \/ CompareParam
  \/ CreateDatasetIds \/ CreateBandIds

ApiCall ==
  \/ InitApi \/ CloseApi \/ GetFromProduct
  \/ OpenRefused \/ (\E p \in Products, f \in Files : OpenFile(p, f))
  \/ CloseNull \/ (\E p \in Products : CloseProduct(p))

Next == OpenStep \/ ApiCall

\* A call that has begun runs on: the library is sequential code.
Spec == Init /\ [][Next]_vars /\ WF_vars(OpenStep)

-----------------------------------------------------------------------------
(***************************************************************************)
(* Properties.                                                             *)
(***************************************************************************)

\* Every variable has its type.
TypeOK ==
  /\ initFlag \in BOOLEAN
  /\ errCode  \in ErrCodes
  /\ headSize \in Nat
  /\ prod     \in [Products -> ProductType]
  /\ pc       \in Steps \cup {"idle", "crash"}
  /\ cur      \in Products
  /\ ret      \in RetType

\* A handle the caller owns is complete: whatever failed on the way without
\* being checked (the MPH, the SPH, the DSDs), it is there in the end, and
\* the first dataset starts where the headers OF THIS FILE end (in a uint, which
\* an absurd SPH_SIZE wraps), although the code compares it with a global that
\* every open overwrites.
HandleComplete ==
  \A p \in Products : prod[p].phase \in {"open", "stuck"} =>
    LET q == prod[p]
        f == q.file
    IN  /\ q.mph /\ q.ids /\ q.dsds > 0
        /\ f.dsOffset = (MphSize + f.sphSize) % Wrap
        /\ f.mission \in {"MER", "ASA"} => q.sph /\ f.sphDyn
        /\ f.mission # "other" /\ f.known

\* No structure is left half-built: outside epr_open_product there is none
\* under construction, and inside only the current one.
NoHalfBuilt ==
  \A p \in Products : prod[p].phase = "opening" =>
    p = cur /\ pc \notin {"idle"}

\* When epr_open_product returns NULL without an error code, the cause is one
\* of exactly three: a failed epr_set_dyn_dddb_params (before or after the
\* second reading of the SPH), or an unknown product type.  And a cleanup
\* error never hides behind a cause that has its own code.
NullCauses ==
  (Ready /\ ret.fn = "open" /\ ~ret.ok) =>
    /\ errCode \in {"none", "file_close_failed"} =>
         ret.at \in {"dyn", "dynsph", "datasets"}
    /\ errCode = "invalid_value" => ret.at = "compare"
    /\ ret.at = "compare" => errCode = "invalid_value"

\* epr_open_product comes to an end, in spite of its second tries: it
\* returns, or the process ends.
OpenEnds == ~Ready ~> (Ready \/ pc = "crash")

\* epr_api.h:930: a NULL result of epr_open_product comes with an error code.
\* The code does not keep this (see the run that violates it).
OpenNullHasError ==
  (Ready /\ ret.fn = "open" /\ ~ret.ok) => errCode # "none"
=============================================================================
