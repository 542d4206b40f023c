--------------------------- MODULE EprBandRaster ---------------------------
(***************************************************************************)
(* Rasters and the reading of measurement bands (epr_band.c):              *)
(* epr_create_raster, epr_free_raster, epr_read_band_raster with           *)
(* epr_read_band_measurement_data, the decoding of lines with              *)
(* sub-sampling, the mirroring of lines, and epr_zero_invalid_pixels.      *)
(*                                                                         *)
(* A raster is created once and read into any number of times.  One read   *)
(* is a sequence of steps: checks, one record per line, one mirrored line  *)
(* at a time, the bitmask.  A pixel is named by the band and the place in  *)
(* the product it shows; values and scaling are left out.  The raster      *)
(* buffer is the linear array of the code, so that the arithmetic of       *)
(* raster_pos, of the mirrored offset and of the steps is kept.            *)
(*                                                                         *)
(* Bands whose dataset has type "A" are read by epr_read_band_annotation_  *)
(* data, which is not modelled here.                                       *)
(***************************************************************************)
EXTENDS Integers, EprRaster

CONSTANTS
  Width,           \* scan_line_length, which is also scene_width
  Bands,           \* the bands of the product
  Rasters,         \* the rasters a caller may create
  Offsets,         \* the offsets (x or y) a caller may pass
  Valid(_, _, _),  \* the bitmask of a band at a line and an image column
  Zero,            \* a pixel of value 0: not written, or masked out
  NoRaster,        \* no raster is allocated
  NoCall,          \* no read into the raster has begun
  MaxReads         \* bound: reads into one raster

Mirrorable == {"char", "uchar", "short", "ushort", "int", "uint", "float"}
Types      == Mirrorable \cup {"double"}

\* A band: the type and length of its dataset, its own data type, its sample
\* model, the data type of its field, and whether its lines are stored
\* mirrored and it has a bitmask expression.
BandType == [ dsType : {"M", "other"}, numDsr : Nat, type : Types,
              smod : {"1OF1", "1OF2", "2OF2", "2TOF", "3TOI"}, raw : Types,
              mirrored : BOOLEAN, masked : BOOLEAN ]

\* What epr_create_raster is given.
RasterType == [ type : Types, sw : Nat \ {0}, sh : Nat \ {0},
                sx : Nat \ {0}, sy : Nat \ {0} ]

ASSUME WidthAssumption    == Width \in Nat \ {0}
ASSUME BandsAssumption    == Bands \subseteq BandType
ASSUME RastersAssumption  == Rasters \subseteq RasterType
ASSUME OffsetsAssumption  == Offsets \subseteq Int
ASSUME MaxReadsAssumption == MaxReads \in Nat
ASSUME NoneAssumption     == NoRaster \notin Rasters

VARIABLES
  raster,   \* the raster, as epr_create_raster was asked for it
  buf,      \* its buffer
  errCode,  \* epr_api.last_err_code
  pc,       \* "idle", the next step of epr_read_band_raster, or "crash"
  call,     \* the arguments of the read: band, ox, oy
  iY, pos,  \* the line to read next, raster_pos
  row,      \* the raster line to mirror next
  last,     \* the code the last read into the raster returned, and whether
            \* the mask it used was the one of the bitmask expression
  reads     \* how many reads into this raster have begun

vars == <<raster, buf, errCode, pc, call, iY, pos, row, last, reads>>

ReadErrors == {"invalid_data_format", "file_access_denied", "file_read_error"}
ErrCodes   == {"none", "illegal_data_type", "invalid_value", "illegal_arg",
               "invalid_band", "out_of_memory"} \cup ReadErrors

Calls == [band : Bands, ox : Offsets, oy : Offsets]

\* A measurement pixel: a sample of a line as the file stores it.
Pixels == [band : Bands, line : Nat, sample : Nat] \cup {Zero}

NotRead == [code |-> "unread", mask |-> "unused"]

Idle == pc = "idle"

-----------------------------------------------------------------------------
(***************************************************************************)
(* Rasters.                                                                *)
(***************************************************************************)

\* epr_create_raster; calloc zeroes the buffer.  One raster at a time.
CreateRaster(r) ==
  /\ Idle
  /\ raster = NoRaster
  /\ raster'  = r
  /\ buf'     = [i \in 0 .. NumElems(r) - 1 |-> Zero]
  /\ errCode' = "none"
  /\ last'    = NotRead
  /\ reads'   = 0
  /\ UNCHANGED <<pc, call, iY, pos, row>>

\* epr_create_raster or epr_create_compatible_raster fails.
CreateRefused ==
  /\ Idle
  /\ raster = NoRaster
  /\ errCode' \in {"illegal_data_type", "out_of_memory", "invalid_band"}
  /\ UNCHANGED <<raster, buf, pc, call, iY, pos, row, last, reads>>

\* epr_free_raster.
FreeRaster ==
  /\ Idle
  /\ raster'  = NoRaster
  /\ buf'     = << >>
  /\ errCode' = "none"
  /\ call'   = NoCall
  /\ last'   = NotRead
  /\ reads'  = 0
  /\ UNCHANGED <<pc, iY, pos, row>>

-----------------------------------------------------------------------------
(***************************************************************************)
(* Beginning and ending a read.                                            *)
(***************************************************************************)

\* epr_read_band_raster returns code; epr_get_last_err_code is the same.  The
\* local variables are gone.
Return(code, mask) ==
  /\ errCode' = code
  /\ last'    = [code |-> code, mask |-> mask]
  /\ pc'      = "idle"
  /\ iY' = 0 /\ pos' = 0 /\ row' = 0

\* The call, up to the dispatch on the type of the dataset.
ReadBandRaster(c) ==
  /\ Idle
  /\ raster # NoRaster
  /\ reads < MaxReads
  /\ reads' = reads + 1
  /\ call'  = c
  /\ \/ c.band.type # raster.type /\ Return("illegal_data_type", "unused")
     \/ /\ c.band.type = raster.type
        /\ c.ox < 0 \/ c.oy < 0 \/ c.band.dsType # "M"
        /\ Return("invalid_value", "unused")
     \/ /\ c.band.type = raster.type
        /\ c.ox >= 0 /\ c.oy >= 0 /\ c.band.dsType = "M"
        /\ errCode' = "none"
        /\ pc'      = "bounds"
        /\ last'    = NotRead
        /\ UNCHANGED <<iY, pos, row>>
  /\ UNCHANGED <<raster, buf>>

\* The call with band_id = NULL.
ReadNullBand ==
  /\ Idle
  /\ raster # NoRaster
  /\ Return("invalid_band", "unused")
  /\ UNCHANGED <<raster, buf, call, reads>>

\* Mutant of Fail: the record is freed after the error is set, which
\* clears the error that is then returned.
MutFail(code) ==
  /\ Return("none", "unused")
  /\ UNCHANGED <<raster, buf, call, reads>>

\* Mutant of Fail: what failed is tried again.
MutRetry(code) ==
  /\ errCode' = code
  /\ UNCHANGED <<raster, buf, pc, call, iY, pos, row, last, reads>>

\* epr_free_record, which clears the error, then epr_set_err.
Fail(code) ==
  /\ Return(code, "unused")
  /\ UNCHANGED <<raster, buf, call, reads>>

Crash ==
  /\ pc' = "crash"
  /\ UNCHANGED <<raster, buf, errCode, call, iY, pos, row, last, reads>>

-----------------------------------------------------------------------------
(***************************************************************************)
(* epr_read_band_measurement_data.                                         *)
(***************************************************************************)

\* select_line_decode_function: the <<band, sample model, raw>> it knows.
LineDecoders ==
  {"char", "uchar"} \X {"1OF1", "1OF2", "2OF2"} \X {"char", "uchar"}
  \cup {"short", "ushort"} \X {"1OF1"} \X {"short", "ushort"}
  \cup {"float"} \X {"1OF1"} \X {"char", "uchar", "short", "ushort"}
  \cup {"float"} \X {"1OF2", "2OF2"} \X {"uchar", "short"}
  \cup {<<"float", "2TOF", "uchar">>, <<"uint", "3TOI", "uchar">>}

Decodable(b) == <<b.type, b.smod, b.raw>> \in LineDecoders

\* Mutant of InSource: one column too many.
MutInSource(c) ==
  /\ c.ox + raster.sw <= Width + 1
  /\ c.oy + raster.sh <= c.band.numDsr

\* The source region lies in the scene.
InSource(c) ==
  /\ c.ox + raster.sw <= Width
  /\ c.oy + raster.sh <= c.band.numDsr

\* The record is created, then the region and the data type are checked.  The
\* record is used unchecked.
CheckSource ==
  /\ pc = "bounds"
  /\ \/ Crash
     \/ ~InSource(call) /\ Fail("illegal_arg")
     \/ InSource(call) /\ ~Decodable(call.band) /\ Fail("illegal_data_type")
     \/ /\ InSource(call) /\ Decodable(call.band)
        /\ pc'  = "lines"
        /\ iY'  = call.oy
        /\ pos' = 0
        /\ UNCHANGED <<raster, buf, errCode, call, row, last, reads>>

\* The first sample of a line to decode.
LineStart == IF call.band.mirrored THEN OffsetMirrored(raster, call.ox, Width)
                                 ELSE call.ox

\* Mutant of DecodedLine: the whole source line is decoded, without the step.
MutDecodedLine ==
  [i \in DOMAIN buf \cup (pos .. pos + raster.sw - 1) |->
     IF i >= pos
     THEN [band |-> call.band, line |-> iY, sample |-> LineStart + i - pos]
     ELSE buf[i]]

\* The buffer after a decoder has put a line at pos.
DecodedLine ==
  [i \in DOMAIN buf |->
     IF i - pos \in LineSteps(raster)
     THEN [band |-> call.band, line |-> iY, sample |-> LineStart + (i - pos) * raster.sx]
     ELSE buf[i]]

MoreLines == iY < call.oy + raster.sh

\* One turn of the loop: epr_read_record and the decoder.  A read that fails
\* returns at once; the lines decoded so far stay in the buffer.
ReadLine ==
  /\ pc = "lines"
  /\ MoreLines
  /\ \/ \E err \in ReadErrors : Fail(err)
     \/ /\ buf' = DecodedLine
        /\ iY'  = iY + raster.sy
        /\ pos' = pos + LinePixels(raster)
        /\ UNCHANGED <<raster, errCode, pc, call, row, last, reads>>

\* After the measurement is read: the record is freed, and a band without a
\* bitmask is done.
EndMeasurement ==
  \/ /\ ~call.band.masked
     /\ Return("none", "unused")
  \/ /\ call.band.masked
     /\ errCode' = "none"
     /\ pc' = "mask"
     /\ UNCHANGED <<last, iY, pos, row>>

LinesDone ==
  /\ pc = "lines"
  /\ ~MoreLines
  /\ \/ ~call.band.mirrored /\ EndMeasurement
     \/ /\ call.band.mirrored
        /\ row' = 0
        /\ pc'  = "mirror"
        /\ UNCHANGED <<errCode, last, iY, pos>>
  /\ UNCHANGED <<raster, buf, call, reads>>

\* One line of the raster is turned round.
MirrorLine ==
  /\ pc = "mirror"
  /\ row < RasterHeight(raster)
  /\ buf' = LineReversed(buf, raster, row)
  /\ row' = row + 1
  /\ UNCHANGED <<raster, errCode, pc, call, iY, pos, last, reads>>

MirrorDone ==
  /\ pc = "mirror"
  /\ row = RasterHeight(raster)
  /\ EndMeasurement
  /\ UNCHANGED <<raster, buf, call, reads>>

-----------------------------------------------------------------------------
(***************************************************************************)
(* The bitmask of a band.                                                  *)
(***************************************************************************)

\* Where the bitmask expression is true, on the grid of the raster.
GoodMask ==
  LET w == RasterWidth(raster)
  IN  {i \in DOMAIN buf : Valid(call.band, call.oy + (i \div w) * raster.sy,
                                           call.ox + (i % w) * raster.sx)}

\* epr_zero_invalid_pixels.
Zeroed(mask) == [i \in DOMAIN buf |-> IF i \in mask THEN buf[i] ELSE Zero]

\* A raster for the bitmask is created and used unchecked,
\* epr_read_bitmask_raster fills it, the invalid pixels are zeroed, and
\* epr_free_raster clears the error.  The result of epr_read_bitmask_raster is
\* ignored: when it fails, or when it swallows an error, the mask may be true
\* anywhere.
ApplyMask ==
  /\ pc = "mask"
  /\ \/ Crash
     \/ /\ buf' = Zeroed(GoodMask)
        /\ Return("none", "ok")
        /\ UNCHANGED <<raster, call, reads>>
     \/ /\ \E mask \in SUBSET DOMAIN buf : buf' = Zeroed(mask)
        /\ Return("none", "bad")
        /\ UNCHANGED <<raster, call, reads>>

-----------------------------------------------------------------------------
Init ==
  /\ raster  = NoRaster
  /\ buf     = << >>
  /\ errCode = "none"
  /\ pc      = "idle"
  /\ call    = NoCall
  /\ iY      = 0
  /\ pos     = 0
  /\ row     = 0
  /\ last    = NotRead
  /\ reads   = 0

ReadStep ==
  \/ CheckSource \/ ReadLine \/ LinesDone \/ MirrorLine \/ MirrorDone \/ ApplyMask

ApiCall ==
  \/ (\E r \in Rasters : CreateRaster(r)) \/ CreateRefused \/ FreeRaster
  \/ (\E c \in Calls : ReadBandRaster(c)) \/ ReadNullBand

Next == ReadStep \/ ApiCall

\* A call that has begun runs on: the library is sequential code.
Spec == Init /\ [][Next]_vars /\ WF_vars(ReadStep)

-----------------------------------------------------------------------------
(***************************************************************************)
(* Properties.                                                             *)
(***************************************************************************)

\* Every variable has its type; the buffer has exactly the elements that
\* epr_create_raster allocated.
TypeOK ==
  /\ raster  \in Rasters \cup {NoRaster}
  /\ IF raster = NoRaster THEN buf = << >>
     ELSE buf \in [0 .. NumElems(raster) - 1 -> Pixels]
  /\ errCode \in ErrCodes
  /\ pc      \in {"idle", "bounds", "lines", "mirror", "mask", "crash"}
  /\ call    \in Calls \cup {NoCall}
  /\ iY \in Nat /\ pos \in Nat /\ row \in Nat
  /\ last    \in [code : ErrCodes \cup {"unread"}, mask : {"unused", "ok", "bad"}]
  /\ reads   \in Nat

\* Whenever a line is about to be read and decoded, its record is one of the
\* dataset, its samples lie in the record's field (one, two or three elements
\* per sample), and its pixels have room in the buffer: for mirrored bands
\* the offset and the extra offset, for every step, stay in the line.
InBounds ==
  pc = "lines" /\ MoreLines =>
    /\ iY \in 0 .. call.band.numDsr - 1
    /\ \A k \in LineSteps(raster) :
         /\ pos + k \in DOMAIN buf
         /\ LineStart + k * raster.sx \in 0 .. Width - 1

\* The sample the file stores for an image column: MERIS lines, and those of
\* most ASAR products, are stored from right to left.
SampleOf(b, x) == IF b.mirrored THEN Width - 1 - x ELSE x

\* What a read with these arguments puts at column j of raster line h.
Expected(c, h, j) ==
  [ band |-> c.band, line |-> c.oy + h * raster.sy,
    sample |-> SampleOf(c.band, c.ox + j * raster.sx) ]

\* What the raster shows at column j of line h.
Shown(h, j) == buf[h * RasterWidth(raster) + j]

\* What it should show there, with the bitmask of the band applied.
Masked(c, h, j) ==
  IF Valid(c.band, c.oy + h * raster.sy, c.ox + j * raster.sx)
  THEN Expected(c, h, j) ELSE Zero

Lines   == 0 .. RasterHeight(raster) - 1
Columns == 0 .. RasterWidth(raster) - 1

\* When epr_read_band_raster returns zero, every pixel of the raster shows its
\* place in the scene, whatever an earlier read, or an earlier failed one,
\* left in the buffer; a masked band shows it exactly where its bitmask is
\* true, and if the bitmask could not be read, there or nowhere.
ReadCorrect ==
  Idle /\ last.code = "none" =>
    \A h \in Lines, j \in Columns :
      /\ last.mask = "unused" => Shown(h, j) = Expected(call, h, j)
      /\ last.mask = "ok"     => Shown(h, j) = Masked(call, h, j)
      /\ last.mask = "bad"    => Shown(h, j) \in {Expected(call, h, j), Zero}

\* Every read comes to an end.
ReadEnds == ~Idle ~> (Idle \/ pc = "crash")
=============================================================================
