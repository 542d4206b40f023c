# A TLA+ verification of the ENVISAT product reader API (epr-api)

epr-api is a C library that opens ENVISAT (MERIS, ASAR, AATSR/ATSR2) product
files and reads their records, bands and flag bitmasks into rasters in memory.
It is single-threaded, reads only, and keeps one global API state. This
directory models its core logic in TLA+, checks the models with TLC and proves
the most important invariants with TLAPS. All paths below are under `src/src/`
of the repository.

## 1. Inventory

| Component | State it keeps | Operations | Correct when |
|---|---|---|---|
| API state (`epr_api.c`, `epr_core.c`) | one global struct: `init_flag`, `last_err_code`, `epr_head_size`, handlers | `epr_init_api`, `epr_close_api`, `epr_set_err`, `epr_clear_err` | the code of the last error survives until the caller asks for it |
| Product (`epr_product.c`, `epr_param.c`) | `EPR_SProductId`: stream, MPH, SPH, DSDs, dataset and band ids, scene size | `epr_open_product`, `epr_close_product`, accessors | a handle is complete; a failed open frees everything and says why |
| Headers (`epr_msph.c`) | the MPH and SPH records; writes the global head size | `epr_read_mph`, `epr_read_sph`, `epr_parse_header`, `epr_compare_param` | the first dataset starts where the headers of this file end |
| Dataset descriptors (`epr_dsd.c`) | the DSD array | `epr_read_all_dsds`, version detection | every slot that is not blank is a DSD |
| Datasets (`epr_dataset.c`) | dataset ids, one per table entry and DSD | `epr_create_dataset_ids`, `epr_read_record` | a record read is that record, or an error |
| Records, fields (`epr_record.c`, `epr_field.c`) | the product's cache of record infos; a caller's record | create, read, free, typed access | the size of a record is that of its fields; a reused record holds one line |
| Rasters, measurement bands (`epr_band.c`) | a raster buffer | create, free, `epr_read_band_raster`, decoders, mirrors, mask | every pixel shows its place in the scene; no access out of bounds |
| Tie-point bands (`epr_band.c`) | two interpolation lines | `epr_read_band_annotation_data`, `decode_tiepoint_band` | neighbours bracket the pixel; longitudes cross the date line |
| Bitmask evaluation (`epr_bitmask.c`) | a context: flag bands and their rasters; lazily resolved terms | `epr_read_bitmask_raster`, `epr_eval_bm_term`, `epr_resolve_bm_ref` | a pixel is the truth of the expression; errors reach the caller |
| Bitmask parser (`epr_bitmask.c`) | one pushed-back token, an error message | `epr_parse_bm_expr_str`, `epr_create_bm_expr` | accepts the documented grammar, printing round-trips |
| Pointer arrays (`epr_ptrarray.c`) | length, capacity, elements | create, add, grow, free | behaves as a sequence |
| Band ids (`epr_band.c`) | one id per band, with scaling and flag coding | `epr_create_band_ids`, `epr_get_scaling_params`, `epr_create_flag_coding` | a product has all its bands or none; scalings are those of the file |
| Value conversion (`epr_typconv.c`, `epr_swap.c`, `epr_core.c`) | none | element access by type, copies, byte swapping | the number in the file, for each type and width |
| Strings (`epr_string.c`) | none | token scanners, tests of numbers, names | - |
| DDDB (`epr_dddb.c`) | generated constant tables | lookup by product type and edition | records, datasets, bands and flags of an edition belong together |
| Dump (`epr_dump.c`), examples, tests | none | output | - |

**How they interact.** Everything is a synchronous call. What makes the calls
depend on one another is shared state: *the global error code*, which almost
every function clears on entry, so that an error reported before a clean-up
call is lost; *the global head size*, which every open overwrites; the
*product structure*, filled step by step while most steps are not checked; the
*raster buffer*, which decoders, mirrors and masks update in place and callers
use again; the *context* of a bitmask, a cache of rasters; and the *terms* of an
expression, which remember their resolution. `epr_read_band_raster` of a band
with a bitmask calls `epr_read_bitmask_raster`, which calls
`epr_read_band_raster` for each flag band.

**What is hard.** No threads, no messages, nothing persisted: the hazards are
the order in which errors are set and cleared, partial failure of a sequence of
steps, stale global or cached state, sequences of legal calls, and the index
arithmetic of sub-sampled and mirrored lines. `PROJECT.json` lists each at its
line, under `hazards`.

## 2. Modules

| Module | Models | State and actions |
|---|---|---|
| `EprProduct` | API state, product life cycle, the header and DSD steps of an open | `prod[p]` says which pointers of an `EPR_SProductId` are set; `pc` is the next step of `epr_open_product`; one action per step and per API call; `headSize` and `errCode` are the globals |
| `EprRaster` | the geometry of rasters, no state | operators for sizes, loop steps, the mirrored offset and the reversal of a line; shared by the two readers |
| `EprBandRaster` | rasters and measurement bands | `buf` is the linear raster buffer; `iY`, `pos`, `row` are the code's loop variables; one action per record read and decoded and per mirrored raster line |
| `EprTiePoint` | tie-point bands | `recBeg`, `recEnd`, `begOld`, `endOld`, `lineBeg`, `lineEnd` are the locals of `epr_read_band_annotation_data`; one action for the checks, for the choice and reading of the two records of a raster line, per pixel decoded and per mirrored line |
| `EprBitmask` | bitmask evaluation | the recursion of `epr_eval_bm_term` with an explicit `stack`; `loaded` is the context, `refs` the lazily resolved part of each term |
| `EprLines` | what records promise a caller, abstractly | `content[r]`: nothing yet, one whole line, or damaged; a read begins, changes its record, succeeds or fails |
| `EprRecord` | record infos, records, `epr_read_record`; implements `EprLines` | `info[d]` is the record info of a dataset, `rec[r]` a record with its fields, each with the place in the file its bytes come from; `k` and `at` are the loop variable and the file position of a read; one action per field read |
| `EprText` | the scanners of `epr_string.c`, no state | operators on texts as sequences of characters, with the position each leaves behind |
| `EprPtrArray` | pointer arrays, no state | an array is its capacity and elements; `AddElem` gives the set of arrays an append may lead to, since memory may run out when it has to grow |
| `EprHeader` | `epr_parse_header`, and a dataset descriptor made from a record | `source` and `at` are the text and the position; `values` and `infos` the two arrays filled in parallel; one action per kind of line, and one for the record made of the arrays |
| `EprDddb` | the database tables, no state | each C table is a sequence of rows under its own name; rows that differ by a number are written as one operator |
| `EprCatalog` | the part of `epr_open_product` that turns descriptors and tables into dataset and band identifiers | `dataset_ids`, `band_ids` are the arrays, `row` the loop variable; one action for the edition, for each table lookup, and per dataset and band |
| `EprValue` | values from the bytes of a file to the caller | `source` holds the words written, `field` and `raster` the words in memory; one action per accessor |
| `EprBmTerm` | tokens and terms of bitmask expressions, no state | a term is the sequence of its nodes, in the order in which they are made |
| `EprBmParser` | parser and printer of bitmask expressions | the descent is one operator per C function on the parser's state (`EPR_SParseInfo`), and `Descent`, a function of the depth of calls, for their recursion; actions parse, read a mask, print |
| `EprProduct_proofs`, `EprBandRaster_proofs`, `EprTiePoint_proofs`, `EprBitmask_proofs`, `EprRecord_proofs`, `EprHeader_proofs`, `EprCatalog_proofs`, `EprValue_proofs` | - | theorems and proofs about the modules they extend; `EprBitmask_proofs` extends `EprBitmask` and `EprBmParser` |
| `MCEprProduct`, `MCEprBandRaster`, `MCEprTiePoint`, `MCEprBitmask`, `MCEprRecord`, `MCEprHeader`, `MCEprCatalog`, `MCEprValue`, `MCEprBmParser` | - | small instances for TLC |

### What is abstracted

* `EprProduct`: a file is a record of the facts its headers give to the control
  flow (instrument, sizes, DSD counts, whether the DDDB knows the type). Any
  read may fail at any time; a parse gives a record or fails, and a record may
  lack the keywords it should have. A NULL pointer that the code dereferences
  is the state `pc = "crash"`. The caller never uses a handle after a close
  that succeeded, nor again after a close that failed in `fclose` (undefined
  behaviour in C), and never passes one that is not open. Sizes are `uint`, modulo
  `Wrap`; `HandleComplete` speaks of the end of the headers as the code computes it.
* `EprBandRaster`: a pixel is the place in the product it comes from (band,
  line, sample), not its value, so that the arithmetic of indexes is kept and
  scaling is left out. Widths, heights and steps of a raster are at least 1
  (`epr_create_raster` divides by the steps without a check), and sums of an
  offset and a size do not wrap 32 bits. `CheckSource` has a crash because
  `epr_create_record` is used unchecked. The scene width and the scan line
  length are one constant: for every instrument the code sets both from the same
  source. In the bitmask step `Valid` stands for the expression; what
  `EprBitmask` shows is the reason why the mask is either that (`mask = "ok"`) or, when an error
  was ignored, anything (`"bad"`).
* `EprTiePoint`: arithmetic is exact where the code uses `float`: positions are
  counted in half pixels, and a pixel holds its value times the denominator of
  the interpolation. A band's values are those of a plane over the tie points
  (longitudes taken round the circle), so that the right value of every pixel is
  known. `transform_array_*` and the typed fields are abstracted to these
  values. A negative position is converted to `uint` before the test
  `y_beg < 0`; the conversions compilers produce (wrap or saturate) both lead to
  line 0, as in `FirstLine`. Preconditions of the code: a tie-point line has at
  least two elements, an ASAR scene at least ten samples, and SAMPLES_PER_TIE_PT
  and LINES_PER_TIE_PT of a MERIS product are not 0. Which error code a failed read had is not told
  apart: `epr_read_band_raster` replaces each by `file_read_error`.
* `EprBitmask`: a term is a sequence of nodes in which arguments come before
  the node; a pixel is the set of flags it has. Loading a flag band either
  succeeds, fails with one of the errors of `epr_read_band_raster`, or, when
  the raster could not be created, ends the process.

* `EprRecord`: a field's bytes are the place they come from and whether they are
  in the order of the machine. The cache of record infos is searched by dataset
  name; names are unique within every product table of `epr_dddb.c`, so it finds
  an info only for a dataset that has it, and `info[d]` stands for both. Named
  assumptions: products are smaller than 2^32 bytes (`WrapAssumption`; beyond
  that the `uint` offset wraps), and a damaged record info - fields lost or
  counts not parsed - has another size than the file's records (`SizesTell`,
  which is what the size check of the code relies on). A record that outlives its product is
  freed safely, since `epr_free_record` counts its own fields; the names that
  `epr_get_field` compares in it are freed memory, so that any result or a crash is
  possible (`GetField`). No field is of type double,
  as none in the DDDB is. A record made for a read that then fails is lost in the
  code and its slot is free again in the model. Memory may run out in each
  allocation; `starved` remembers it for `CrashCauses` only. The last error is
  set or not, without its code. The values that stand for NULL are no record and
  no record info (`NullAssumption`).

* `EprHeader`: a header is given by its lines, and `Rendered` writes them down;
  the code sees the text only, and what a line means (`Meant`) is stated
  apart from it. A letter stands for both cases, a number for its text: the
  conversions of `strtol` and `strtod` are left out. Memory runs out only when
  an array grows. `TakeDescriptor` is the part of `epr_read_all_dsds` that takes
  a descriptor from a record. `Members` has the keyword of each member and the cast
  it is read through: to text (DS_NAME, FILENAME), to a letter (DS_TYPE) or to a
  number (the other four). A member that is read as another type than it has, or
  behind its only byte, is `Misread`, which is no text (`MisreadAssumption`). `HeadersAssumption` gives the grammar of lines
  (`WellFormedLine`): a keyword has no separator and no blank in front, a string no
  quote, each number of a list but the first a sign, and signs are elsewhere only
  behind an exponent; a list has more than one character. Among lines that are no
  fields, those are left out whose text would be read as a field all the same, and
  a unit behind an empty value, which the code takes for the value.
* `EprDddb`: names that are compared by their beginning are tuples of words;
  units, descriptions and spectral indices are left out, and a record no band
  refers to is one field of its size. The tables of the other ASAR types and of
  AATSR are left out.
* `EprCatalog`: a file is its type and its descriptors; a value read from it is
  the place it is read from, so that the wrong record, field or element would
  show. `MaxFailures` bounds the reads and allocations that fail; an allocation
  that fails is one that an array needs to grow, or that of a band.
* `EprValue`: a byte has `Base` values, 256 in the code, an even number
  (`BaseAssumption`); `Power` and `Count` are the numbers of words of a width and
  a type; `TimeWords` are the words that runs try in a time; a float is the number
  of its word. A whole number that does not fit the 24 bits of a float
  (`Power(3)`) and a double become `Rounded` when converted to float: that they are
  rounded is kept, to which number is not, so that a number of more bits which a
  float happens to have counts as rounded to itself. `char` has a sign, as on the
  machines the library is built for. Files have no fields of type double
  (`FileTypesAssumption`); headers have.
* `EprBmParser`: an expression is a sequence of tokens, `?` standing for a
  character that begins none. All flags a term names are found: what happens
  when they are not is in `EprBitmask`. A loop over operators of one kind is done
  at most twice, because the operand after an operator takes all that follow. The
  terms made are in `nodes`, as in a heap that only grows; a term that is returned
  is the nodes up to its root. `Descent[n]` is the functions for calls of at most
  `n` levels; a call one level deeper has a token less to read, so the length of
  the expression is enough (the proof of `MeaningKept` would fail otherwise). The
  grammar of the documentation is stated apart, in the same way, by the length of
  sentences (`Grammar`).

A failed `malloc` is modelled where the code handles it and the handling is
control flow of its own (first allocations of an open, rasters, contexts); leaks
are only modelled for product structures.

## 3. Runs

All runs use model values and small numbers; no symmetry is used, because the
identities that occur (two products, two bands) are few or not interchangeable.
Deadlock checking is off in the first five: a crash of the process is a state
without successors, and a real possibility in each module. The four others end
in a step that changes nothing (`Ended`, `Done`) and are checked for deadlock.

| Run | Instance | Distinct states | Shows |
|---|---|---|---|
| `product` | 2 products, 13 files, `MphSize = 10`, `DsdSize = 3`, `Wrap = 64` | 718,698 | `TypeOK`, `HandleComplete`, `NoHalfBuilt`, `NullCauses`, and that an open ends (`OpenEnds`) |
| `raster` | width 4, 3 lines, 6 bands, rasters of up to 4 pixels, steps 1-3 x 1-2, 2 reads | 512,441 | `TypeOK`, `InBounds`, `ReadCorrect`, and that a read ends (`ReadEnds`) |
| `bitmask` | 4 pixels, 2 bands, all terms of up to 2 operators | 145,803 | `TypeOK`, `MaskCorrect`, `ConjunctionsReport`, `ReadOnce`, and that a call ends (`ReadEnds`) |
| `tie_points` | 14 bands on MERIS, ASAR and AATSR grids, rasters of up to 6 pixels, steps 1-4 x 1-2, `Sentinel = 4`, 1 read | 144,737 | `TypeOK`, `Bracketed`, `KnotsInLine`, `PixelsCorrect`, `CrashCauses`, and that a read ends (`ReadEnds`) |
| `record` | 4 datasets (two fields, one field of the same size, a field without elements, one whose number of elements cannot be parsed), 2 records, `Capacity = 1`, `Wrap = 64` | 177,926 | `TypeOK`, `ErrorIffNull`, `CrashCauses`, that a read ends (`ReadEnds`), and the refinement of `EprLines` (`LinesKept`) |
| `header` | headers of up to 3 lines out of 21, arrays of capacity 2 at first, descriptors with one member of each cast | 159,378 | `TypeOK`, `OwnValues`, `MalformedReported`, `CrashCauses`, and that each step gets on in the text (`Forward`) |
| `catalog` | files of 13 types and editions, whole, without one descriptor, without scaling records; 1 failure; the real tables and widths | 38,909 | `TypeOK`, `OwnDescriptor`, `RecordsFit`, `ScalingFromFile`, `BandsResolve`, `AllBandsOrNone` |
| `values` | `Base = 2`, fields of up to 2 elements, both byte orders | 235,102 | `ValuesOfFile`, `CopiesAgree` |
| `parser` | all expressions of up to 4 tokens out of 8; sentences of three flags, damaged in one place | 35,595 | `MeaningKept`, `RoundTrip` |
| `open_null` | as `product` | violation | a NULL product without an error code |
| `mask_computed` | as `bitmask` | violation | an assertion of the code that the code can reach |
| `syntax_errors` | as `parser` | violation | zero returned for an expression that is none |

**Why the bounds are enough.** *product*: the only coupling of two products is
through the three globals, so two products with files of different header size
(and one file whose first dataset starts where the headers of *another* file
end) cover what any number could do; there is one file for each thing that can
be wrong with a file, and one whose SPH_SIZE makes the head size wrap; the theorems remove the bound. *raster*: the smallest
width at which a step divides the source width, does not divide it, and exceeds
half of it; two reads are what is needed for a read to meet what an earlier one
left; one band for each decision (mirrored, masked, without decoder, too short,
not a measurement); again the theorems remove the bound. *tie_points*: a grid of three by three tie
points has an inner one in each direction and both ends; ASAR and AATSR
lines keep their real number of tie points; longitudes cross the date line
eastwards, westwards, between lines only, and in lines that fall to different
sides of it; one read is enough, because a read overwrites every pixel and keeps
nothing; `Sentinel` stands for 9999, lowered so that a record can have that
number. Theorems remove the bound for all but `ReadEnds`.
*record*: two records are enough for one to be read while the other holds a
line, is of another dataset of the same size, or outlives the product; an array
of capacity 1 must grow for a second field, which is what 16 does for a
seventeenth; the last line of a dataset ends exactly where `uint` does, and a number
of elements that is not parsed makes records of another size.
*bitmask*: four pixels
give two flags every pair of values, in an order in which each operand is
resolved first at some later pixel; two operators give every nesting of an error
under an operand that clears it.
*header*: three lines put a field of any kind before and after any other line,
and an array of capacity 2 grows once or twice, or fails to, at every place; each
member of a descriptor meets its keyword with fields of every type.
*catalog*: the tables are constants of the library, so the run checks those very
tables; one descriptor left out meets every row that depends on it, and one
failure every read and allocation. *values*: with two values of a byte all
words of four bytes are tried, and every position of a byte, every sign and
numbers on both sides of what a float has occur; nothing in the code depends on the number of values of a byte. Theorems
remove the bounds of *record*, *bitmask*, *header*, *catalog*, *values* and *parser* too, for
every property but `ReadEnds`; where a property of *catalog* holds only for some files, the
theorem says for which (section 5), and the files of the run are all of that kind.
*parser*: four tokens hold every way an operand, an operator, a point or a
parenthesis can be missing, and three flags every pair of operators, with NOT
and parentheses at every place.

**Refinement.** `LinesKept` is `Abstract!Spec`, `EprLines` with `content`,
`reading` and `result` computed from the records: a record holds line `i` when
every field was read, at the place that the sizes of the fields before it and
the start of line `i` give, and swapped as the machine needs. A field read is a
`Change`, which may leave the record damaged or holding the line asked for and
nothing else; a return with a record demands the whole line. So a reused record
never passes for a line it does not hold, and no read touches another record.

**Fairness.** The first five specifications have weak fairness of the steps inside a call
(`OpenStep`, `ReadStep`, `EvalStep`) and none of the calls: the library is
sequential code that runs on once called, and nothing obliges a caller to call.
The four others need none: their steps go through a text, a table or one call
once, which `Forward` states for the one loop where it is not plain.

**Mutants.** Each property of a passing run has a mutant in `PROJECT.json`: a
definition `Mut...` beside the one it changes, the way a plausible bug in that
code would, and TLC then finds that property violated.

## 4. What the models say about the code

Three statements of the documentation and of an assertion are refuted by runs
(`findings` in `PROJECT.json` has lines and quotations): an open may fail
without an error code; `epr_bitmask.c:194` can be reached with the mask not
computed; a bitmask whose expression has a syntax error is read with what the
parser could make of it, and zero is returned. A fourth disagreement is stated by
a property that holds: `CopiesAgree` (*values*) says that
`epr_copy_field_elems_as_uints`, which is documented to convert every type, does not
even take a field of type uint, and that the other copies refuse what the getters
refuse.

The positive results delimit what can go wrong: `NullCauses` names the only two
causes of a NULL product without a code (dynamic parameters, unknown type),
`ConjunctionsReport` the expressions that never swallow an error, `ErrorIffNull`
that `epr_read_record` returns NULL exactly when it sets a code, `CrashCauses`
the headers, tie-point reads and records that can end the process, `Bracketed`
and `KnotsInLine` that a read which runs out of the scene still stays inside the
grid, `ReadCorrect` what a wrong mask may do (a pixel may be zeroed or not, it is
never another pixel), `MaskCorrect` that a call that met no unresolved reference
is right, `OwnValues` that no line of a header can shift the values of another, and in which
forms a line is read rightly through the casts of a descriptor,
`MeaningKept` that the parser, which associates to the right, still gives every
sentence its documented truth.

The models keep the following behaviours of the code as they are; each can be
read off the action or operator named.

* `SceneHeight` is the largest record count of the measurement datasets; the
  comment at `epr_product.c:464` says the smallest.
* `ApplyMask` (`EprBandRaster`): the failure of a band's bitmask is not reported.
* `PixelDone` (`EprBitmask`): freeing the context clears the error code, which
  the function still returns.
* `InBox` (`EprTiePoint`): the bounds check adds sub-sampled sizes to source
  coordinates, so that regions that run out of the scene are read.
* `InfoErr` (`EprRecord`): `epr_create_record` returns a record and sets an error
  when the database gives a number of elements in a form it cannot parse.
* `Sentinel` (`EprCatalog`): a scaling whose dataset is missing is -909.909, a
  `float` that is compared with the `double` and never found equal; the band is
  made and scaled by it.
* `Readable`, `Zero` (`EprCatalog`): a scaling record that cannot be read scales by 0.
* `epr_detect_meris_iodd_version` never returns 7, so that the IODD7 tables are not used.
* `Matching` (`EprCatalog`): dataset names are compared in the length of the name
  in the file; `OwnDescriptor` shows that this picks the right descriptor
  whenever the file has it, and a name that begins it when it has not.
* `CopyTypes` (`EprValue`): `epr_copy_field_elems_as_uints` takes fields of type
  int, seen as uint, and refuses those of type uint; the copies to int refuse uint,
  and neither converts floats. `CopiesAgree` states how this differs from the getters.
* `Convert` (`EprValue`): a whole number of more than 24 bits becomes the nearest
  float, silently, in the getter, the copy and the pixel alike.
* `GetField` (`EprRecord`): `epr_get_field` on a record that outlives its product
  compares names in record infos that `epr_close_product` has freed.
* `Seen` (`EprHeader`): `epr_read_all_dsds`, and the readers of NUM_DSD and
  SPH_SIZE, cast the elements of a field to `char*` or `uint*` without a look at
  its type. `NUM_DSR=7`, one digit without a sign, is a character, of which four
  bytes are read as a number; so are the first four of a double.
* `Sentences` (`EprBmParser`): what follows a complete expression and is no
  operator is ignored.
* `EprHeader`: a unit is kept only for lists; an empty line, a quote that ends its
  line and a value of a single point or `E` end the process.

## 5. Proofs

TLAPS proves the following for every value of the constants that satisfies the
named assumptions of the modules. The assumptions are evaluated by TLC in the runs.

* `EprProduct_proofs`: `TypeCorrect`, `HandlesAreComplete`, `NothingHalfBuilt`,
  `NullHasThreeCauses` (`Spec => []TypeOK`, `[]HandleComplete`, `[]NoHalfBuilt`,
  `[]NullCauses`). `HandleComplete`
  is not inductive: the invariant `IInv` also says, for each step that an open
  may have reached, what it has passed. For the head size: whenever the SPH was
  read, `headSize` is that of the current file, and when it was not, the
  DSD comparison can still only succeed with the value set in *this* open,
  because the assignment precedes every failure that lets the open go on with
  DSDs. `NullCauses` is inductive as it stands; its proof goes
  through each step that can fail and what the clean-up after it, a close that may
  itself fail, leaves of its code.
* `EprBandRaster_proofs`: `TypeCorrect`, `LinesInBounds`, `ReadsAreCorrect`
  (`[]TypeOK`, `[]InBounds`, `[]ReadCorrect`), `DecodableIsMirrorable`. The
  invariant adds: `Context` (what the checks established of the call, and
  that `iY`, `pos` advance together), `LinesRead` (the lines decoded so far show
  their samples), `Mirroring` (lines before `row` are mirrored, the others not
  yet) and `Masking`. The arithmetic - division with remainder, the
  extra offset, linear indexes - is in lemmas at the top of the module.
* `EprTiePoint_proofs`: `TypeCorrect`, `RecordsBracket`, `KnotsInside`,
  `CrashesHaveCauses`, `PixelsAreCorrect` (`[]TypeOK`, `[]Bracketed`,
  `[]KnotsInLine`, `[]CrashCauses`, `[]PixelsCorrect`). `Bracketed` speaks of the
  records, which may be those of an
  earlier raster line, so the invariant adds: `Held` (no record is held and the
  old numbers are the sentinel, or two neighbours are held and the old numbers
  are theirs - what makes the cache sound), `Decoding` (while a line is decoded
  they are the records of that line), `Placed` (the line at hand is line `h` of the raster and
  `pos` where it begins), `Checked` (the accepted bounds imply a grid that is not empty).
  `PixelsCorrect` has an invariant of its own, `PInv`, on top: `LinesHeld` (each
  interpolation line holds the elements of its record, lifted by whole circles where
  longitudes cross the date line), `LinesShown` and `PixelsShown` (the lines decoded,
  and the pixels of the line at hand, have the value of the plane at their place),
  `Mirroring`. That one lift serves the four corners of a pixel is where the
  span of a band's longitudes enters.
* `EprBitmask_proofs`: `TypeCorrect`, `MasksAreCorrect`, `ConjunctionsDoReport`,
  `BandsAreReadOnce` (`[]TypeOK`, `[]MaskCorrect`, `[]ConjunctionsReport`,
  `[]ReadOnce`). `MaskCorrect` speaks of the end of a call. In the middle of the
  recursion (`Evaluating`) the value at hand is what the node on top of the stack
  waits for, the value of that node what the one below waits for, and so on down
  to the term; `Resolved` says that a resolved reference has the band its term
  names or has been noticed, `Painted` that the pixels done are right. `Truth` exists
  for every term (`MeaningExists`), by induction over its nodes.

  The same module has the proofs about `EprBmParser`: `MeaningIsKept`,
  `WhatIsWrittenIsRead` (`ParserSpec => []MeaningKept`, `[]RoundTrip`), for any set of
  expressions, of any length. The induction is over the depth of calls. `GoodTo(e, all, d)`
  says of the functions of depth `d` that what they return at a place with at most
  `d` tokens left is `Good`: without an error it is a term with one of the meanings that
  the grammar gives the tokens that were read (`Sound`), and a sentence that stands there and
  that no operator follows which would be read on is read to its end (`Complete`).
  `Sound` gives a mask that was read its meaning, `Complete` the absence of an error where
  there is a sentence. A sentence can end in one place only, since the parser
  has one result; so `found` has one member at most. That operators
  associate to the left in the grammar and to the right in the parser is
  `ListCons` and `ListUncons`: lists of operands, joined by an associative operation,
  have the same meanings from either end; they are stated for tables of meanings and
  used for AND with intersection and for OR with union. `Again(a, h)`, which is a part of
  what is shown of every term made (`Tree`), carries the round trip: wherever the text
  of `h` is read with the first `a` nodes there, `h` is made again. The parser makes a
  node after its arguments and the printer writes them in that order, and that is why even the
  places of the nodes come out the same.

  `ParserMakesTerms` and `MasksAreOfExpressions` join the modules. The
  first is what `TermsAssumption` asks for: the parser makes terms in which arguments
  come first, whatever the tokens. The second goes from tokens to pixels: after a call
  that returned zero and resolved every reference it met, for an expression that
  was parsed without an error, a pixel is set exactly where the documented grammar says so,
  given the flags set there (`FlagsAt`). It rests on `MaskCorrect`, on
  `OneMeaning` (the truth that `EprBitmask` gives a term is the value that `EprBmParser` gives
  it) and on `ParsedMade`.
* `EprRecord_proofs`: `TypeCorrect`, `NullMeansError`, `CrashesHaveCauses`
  (`[]TypeOK`, `[]ErrorIffNull`, `[]CrashCauses`), and `RecordsKeepLines`
  (`Spec => Abstract!Spec`): each step of `EprRecord` is one of `EprLines` or
  changes nothing there. `FieldsRead` says that while a read is at field `k` the
  fields before it are read from the places that the sizes of their
  predecessors give; `ErrorAhead` that an error set when the record was made is that
  of a NULL field, which the read has still to meet, so that no read succeeds
  with a code; `Unstarved` and `EmptyMissing` which
  records can lack fields at all. With `SizesTell`, a record that passes the
  size check has every field, so a read that returns has the whole line.
* `EprHeader_proofs`: `TypeCorrect`, `ValuesAreOwn`, `MalformedAreReported`,
  `CrashesHaveCauses`, `GetsOn` (`[]TypeOK`, `[]OwnValues`, `[]MalformedReported`,
  `[]CrashCauses`, `Forward`), for headers of any lines of the grammar. The properties
  speak of lines and the code of characters, so the larger part of the module is
  about tokens: where a rendered line begins and ends (`LineAt`), that its keyword,
  value and unit are found again (`KeywordRead`, `ValueRead`), that the numbers of a
  list, split at their signs, get the sign that stood in front of each back
  (`NumberTokens`, `SignIs`, `Rejoined`), and so that a line is read as what it
  means (`PlainRead`, `StringRead`). The properties are about the end of the loop;
  in the loop, `Parsed(k)` says that the position is where line `k` ends, that the
  error is set just if one of the lines so far is malformed, and that the two
  arrays are in step (`ReadTo`): info `n` is that of field line `place[n]` and its
  elements stand behind the first `start[n - 1]` values. That the record is
  then dealt out by counting (`DealtOut`) is where the sums of the counts meet
  `start`. A fatal line leaves an info that the record cannot be made with
  (`Useless`), which no later line takes away. What a cast gives depends on the type
  of a field; `SeenOfLine` takes that back to the form of its line (`Suits`).
* `EprCatalog_proofs`: `TypeCorrect`, `BandsAreAllOrNone`, `BandsCanBeRead`
  (`[]TypeOK`, `[]AllBandsOrNone`, `[]BandsResolve`), for any files; `DescriptorsAreOwn`,
  `RecordsAreFit`, `ScalingsAreRead`, for files that are as the tables have them. `BandsSoFar` says that while bands are made,
  each has its dataset, they are in the order of the table, and an error that is
  set is that of the *last* row: `epr_get_scaling_params` clears the code and may
  set it again without the loop ending. That a complete product is
  returned without a code then rests on a fact about the tables
  (`BandRowsFacts`): each ends in a band whose scaling is a number.
  `DescriptorsAreOwn` (`[](LongerFirst => OwnDescriptor)`): names are compared in the
  length of the name in the file, so `OwnDescriptor` holds for files in which no name
  comes before a longer one that it begins (`LongerFirst`; so it is in all files of
  *catalog*), and only the order of descriptors in a file makes the match safe. `FirstFits`
  carries it: every identifier has the first descriptor that fits its row, and unless
  memory ran out every row that is passed and fits one has an identifier.

  `BandsResolve` is about the tables. They are data, of a hundred records, and
  the proof takes from them what their rows have in common: which record and how many
  elements each sample model takes, that a mask names flags of the flag table (`MaskFlags`),
  and that a search by type and edition finds the same edition among the tables of
  datasets and of bands (`Listed`). `Tables` says that the tables at hand are those that
  the search finds for the edition detected, so that a band's row and its dataset's row are
  of one edition, even for a file of which the edition is guessed wrong.

  `RecordsFit` and `ScalingFromFile` need the guess to be right: `[](Conforming =>
  RecordsFit)`, `[](Conforming => ScalingFromFile)`. `Conforming` says that a descriptor
  with a name of the type's tables has the record size of the file's own edition
  (`OwnRecords`), and that edition 5 of MERIS level 1 occurs in products of the two
  modes the detection asks about and of the two line widths it compares with, while no other
  edition has 1494 samples in a line (`WidthTells`): its flag records have 13 + 2W
  bytes, those of the others 13 + 3W (`FlagSizes`), and 3 * 1494 = 2 * 2241. The
  annotation records of ASAR have 2009 and 10069 bytes (`MainSizes`). `OwnRecords` asks
  nothing of datasets whose name no table knows. `ScalingsRead` says of the bands made
  so far that their scalings are what the reads gave, or 0 after a failure; that the
  dataset read from is the one named rests on `FirstFits` and on the sizes, since a record
  is refused when its size differs.
* `EprValue_proofs`: `ValuesAreOfFile`, `CopiesDoAgree` (`[]ValuesOfFile`,
  `[]CopiesAgree`), for every even `Base`. Swapping a word twice gives the word
  (`SwappedBack`), so that `Held` is invariant: field and raster have the words of the file. Each
  accessor is then compared with the number that the word stands for, type by type;
  `Faithful` says where it may be another one: without its sign in an unsigned type,
  rounded in a float.

**Induction.** The induction theorems of the library take a predicate as a
parameter and cannot be used. Where a proof needs induction over
numbers (sums of sizes, folds, terms, depths of calls) it goes over the *set* of numbers for which
the claim holds: a set that has 0, and n + 1 with n, is `Nat` (`SetInduction`, by
the least number that would be missing). That a function defined by recursion over numbers
is what its definition says (`Descent`, `Values`, `Texts`, `Grammar`) is shown that way
(`Iteration`, `GrownIs`).

**Only model-checked:**

* liveness (`OpenEnds`, `ReadEnds`), which TLAPS does not do here.

Every other property of a passing run is a theorem, three of them for the files that
their theorems name (`LongerFirst`, `Conforming`).

## 6. Plan

What is left, in this order:

1. An abstract specification of a reader (open, read, close with results) and
   `EprProduct` shown to implement it, checked and proved.
2. The two arrays of a bitmask context, which may fail to grow as the two arrays of
   `EprHeader` do.

### Not modelled

Dump output, logging, the error handler, examples and tools; the database tables
of AATSR and of the ASAR types other than the geocoded image; how the characters
of a bitmask expression make up tokens; the conversion of digits to numbers and
which float a number is rounded to; the search for the first descriptor in a file
(`epr_find_first_dsd`, an outcome of a step in `EprProduct`) and
`epr_read_each_dsd`, which nobody calls; scene width; leaks of records and terms.
