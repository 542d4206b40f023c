---------------------------- MODULE EprTiePoint ----------------------------
(***************************************************************************)
(* The reading of tie-point bands (epr_band.c):                            *)
(* epr_read_band_annotation_data with decode_tiepoint_band and             *)
(* epr_interpolate2D.  A tie-point band has values at every samples-th     *)
(* sample of every lines-th line; a raster shows values interpolated       *)
(* between the four tie points around a pixel.                             *)
(*                                                                         *)
(* One read is a sequence of steps: the checks; for each raster line the   *)
(* choice of two tie-point records and their reading, unless they are the  *)
(* ones of the line before; each pixel; each mirrored line.  Longitudes    *)
(* that cross the date line are lifted in place while a line is decoded.   *)
(*                                                                         *)
(* The arithmetic is exact: positions are counted in half pixels, and a    *)
(* raster holds values times Scale, the denominator of the interpolation,  *)
(* where the code uses float.  The values of a band are those of a plane   *)
(* over the tie points, for longitudes taken round the circle.             *)
(***************************************************************************)
EXTENDS Integers, EprRaster

CONSTANTS
  Bands,     \* the tie-point bands of a product
  Rasters,   \* the sizes of rasters a caller may create, all of type float
  Offsets,   \* the offsets (x or y) a caller may pass that are not negative
  Sentinel,  \* y_beg_old and y_end_old before the first line: 9999
  NoRaster,  \* no raster is allocated
  MaxReads   \* bound: reads into one raster

\* A band: the instrument, width and height of the scene; LINES_PER_TIE_PT and
\* SAMPLES_PER_TIE_PT of the SPH; the records of GEOLOCATION_GRID_ADS; the
\* elements of its field and the records of its dataset; whether its lines are
\* stored mirrored, its type has a transformer, and its name begins with
\* "longitude"; and its values: c + dx * element + dy * record.
BandType == [ inst : {"MER", "ATS", "ASA", "other"}, width : Nat \ {0}, height : Nat,
              lines : Nat \ {0}, samples : Nat \ {0}, gridRecs : Nat,
              numElems : Nat, numDsr : Nat,
              mirrored : BOOLEAN, float : BOOLEAN, longitude : BOOLEAN,
              c : Int, dx : Int, dy : Int ]

\* EPR_ATS_NUM_PER_POINT_ACROSS_LOCAT and _SOLAR, EPR_ASAR_..._LOCAT.
Locat     == 23
Solar     == 11
AsarLocat == 11

\* Lines of two tie points at least; ASAR scenes have a pixel per interval.
ASSUME BandsAssumption    == /\ Bands \subseteq BandType
                             /\ \A b \in Bands : b.numElems >= 2
                             /\ \A b \in Bands : b.inst = "ASA" => b.width >= AsarLocat - 1
ASSUME RastersAssumption  == Rasters \subseteq Sizes /\ NoRaster \notin Rasters
ASSUME OffsetsAssumption  == Offsets \subseteq Nat
ASSUME SentinelAssumption == Sentinel \in Nat
ASSUME MaxReadsAssumption == MaxReads \in Nat

VARIABLES
  raster,            \* the size of the raster
  buf,               \* its buffer: values times Scale
  pc,                \* "idle", the next step of the read, or "crash"
  call,              \* the arguments of the read: band, ox, oy
  iY, pos,           \* the line to read next, raster_pos
  recBeg, recEnd,    \* the tie-point lines record_beg and record_end hold
  begOld, endOld,    \* y_beg_old and y_end_old
  lineBeg, lineEnd,  \* line_beg_buffer and line_end_buffer
  k,                 \* the pixel of the line to decode next
  inter,             \* intersection: a crossing was met in this line
  row,               \* the raster line to mirror next
  failed,            \* whether a record of this read could not be read
  last,              \* what the last read returned
  reads              \* how many reads into this raster have begun

local == <<iY, pos, recBeg, recEnd, begOld, endOld, lineBeg, lineEnd, k, inter, row, failed>>
vars  == <<raster, buf, pc, call, local, last, reads>>

\* A record pointer that is NULL.
NoRecord == -1

Calls  == [band : Bands, ox : Offsets, oy : Offsets]
NoCall == << >>

Idle == pc = "idle"
Band == call.band

-----------------------------------------------------------------------------
(***************************************************************************)
(* The grid of tie points, as each instrument gives it.                    *)
(***************************************************************************)

\* The quotients of ASAR products are integer divisions.  A grid without
\* records gives a divisor of 2^32 - 1.
LinesPerTie(b) ==
  CASE b.inst = "MER" -> b.lines
    [] b.inst = "ATS" -> 32
    [] b.inst = "ASA" -> IF b.gridRecs = 0 THEN 0 ELSE b.height \div (b.gridRecs - 1)
    [] OTHER -> 0

SamplesPerTie(b) ==
  CASE b.inst = "MER" -> b.samples
    [] b.inst = "ATS" -> IF b.numElems = Locat THEN 25 ELSE 50
    [] b.inst = "ASA" -> b.width \div (AsarLocat - 1)
    [] OTHER -> 1

\* scan_offset_x and scan_offset_y, in half pixels.
ScanX(b) ==
  CASE b.inst = "ATS" -> IF b.numElems = Locat THEN -39 ELSE 11
    [] b.inst = "ASA" -> 1
    [] OTHER -> 0
ScanY(b) ==
  CASE b.inst = "ATS" -> -1
    [] b.inst = "ASA" -> 1
    [] OTHER -> 0

\* Half pixels between two tie points.
StepX(b) == 2 * SamplesPerTie(b)
StepY(b) == 2 * LinesPerTie(b)

Scale(b) == StepX(b) * StepY(b)

Known(b) == b.inst \in {"MER", "ASA"} \/ (b.inst = "ATS" /\ b.numElems \in {Locat, Solar})

Half   == 180
Circle == 360

\* A longitude in -180 .. 179.
Wrapped(v) == ((v + Half) % Circle) - Half

\* Mutant of TieLine: the last tie point is left out.
MutTieLine(b, r) ==
  [e \in 0 .. b.numElems - 2 |->
     LET v == b.c + b.dx * e + b.dy * r IN IF b.longitude THEN Wrapped(v) ELSE v]

\* transform_array_*: the values of a tie-point record.
TieLine(b, r) ==
  [e \in 0 .. b.numElems - 1 |->
     LET v == b.c + b.dx * e + b.dy * r IN IF b.longitude THEN Wrapped(v) ELSE v]

-----------------------------------------------------------------------------
(***************************************************************************)
(* Rasters, and beginning and ending a read.                               *)
(***************************************************************************)

\* A raster of the caller, anew.
CreateRaster(r) ==
  /\ Idle
  /\ raster = NoRaster
  /\ raster' = r
  /\ buf'    = [i \in 0 .. NumElems(r) - 1 |-> 0]
  /\ reads'  = 0
  /\ UNCHANGED <<pc, call, local, last>>

FreeRaster ==
  /\ Idle
  /\ raster' = NoRaster
  /\ buf'    = << >>
  /\ call'   = NoCall
  /\ last'   = "unread"
  /\ reads'  = 0
  /\ UNCHANGED <<pc, local>>

\* epr_read_band_raster returns; whatever failed is a file_read_error then.
\* The local variables are gone.
Return(code) ==
  /\ last' = code
  /\ pc'   = "idle"
  /\ iY' = 0 /\ pos' = 0 /\ k' = 0 /\ row' = 0
  /\ recBeg' = NoRecord /\ recEnd' = NoRecord
  /\ begOld' = Sentinel /\ endOld' = Sentinel
  /\ lineBeg' = << >> /\ lineEnd' = << >>
  /\ inter' = FALSE /\ failed' = FALSE

Fail == Return("file_read_error") /\ UNCHANGED <<raster, buf, call, reads>>

\* epr_read_band_raster for a band whose dataset has type "A".
ReadBandRaster(c) ==
  /\ Idle
  /\ raster # NoRaster
  /\ reads < MaxReads
  /\ reads' = reads + 1
  /\ call' = c
  /\ last' = "unread"
  /\ pc'   = "checks"
  /\ UNCHANGED <<raster, buf, local>>

\* A NULL pointer is used, or the divisor is 0: the process ends.
Crash == pc' = "crash" /\ UNCHANGED <<raster, buf, call, iY, pos, lineBeg, lineEnd, k, inter, row, last, reads>>

-----------------------------------------------------------------------------
(***************************************************************************)
(* epr_read_band_annotation_data.                                          *)
(***************************************************************************)

\* The bounds check, with the size of the raster and not of its source.
InBox(c) ==
  /\ c.ox + RasterWidth(raster) <= c.band.width
  /\ c.oy + RasterHeight(raster) <= c.band.numDsr * LinesPerTie(c.band)

GridCrash(b) == b.inst = "ASA" /\ b.gridRecs = 1

\* The record is created and used unchecked; the grid, the bounds and the type
\* are checked, and memory may run out.
CheckCall ==
  /\ pc = "checks"
  /\ \/ /\ Crash
        /\ failed' = TRUE
        /\ UNCHANGED <<recBeg, recEnd, begOld, endOld>>
     \/ /\ GridCrash(Band)
        /\ Crash
        /\ UNCHANGED <<recBeg, recEnd, begOld, endOld, failed>>
     \/ ~GridCrash(Band) /\ Fail
     \/ /\ ~GridCrash(Band) /\ Known(Band) /\ InBox(call) /\ Band.float
        /\ pc' = "lines"
        /\ iY' = call.oy
        /\ UNCHANGED <<raster, buf, call, pos, recBeg, recEnd, begOld, endOld,
                       lineBeg, lineEnd, k, inter, row, failed, last, reads>>

\* How far line y is past tie-point line 0, in half pixels.
LinePos(y) == 2 * y - ScanY(Band)

\* Mutant of FirstLine: the last record, which has no successor, may be chosen.
MutFirstLine(y) ==
  LET l == LinePos(y) \div StepY(Band)
  IN  IF l < 0 THEN 0 ELSE IF l > Band.numDsr - 1 THEN Band.numDsr - 1 ELSE l

\* y_beg: the tie-point line before line y, or the first or last but one.  The
\* unsigned num_dsr - 2 is no bound when there is one record.
FirstLine(y) ==
  LET l == LinePos(y) \div StepY(Band)
  IN  IF l < 0 THEN 0
      ELSE IF Band.numDsr >= 2 /\ l > Band.numDsr - 2 THEN Band.numDsr - 2 ELSE l

\* Mutant of Changed: a line further on is taken for the same.
MutChanged(old, y) == old > y

\* Whether the tie-point line is another than that of the raster line before.
Changed(old, y) == old # y

\* epr_read_record: the record, or NULL.
RecordsRead(r) == IF r < Band.numDsr THEN {r, NoRecord} ELSE {NoRecord}

MoreLines == iY < call.oy + raster.sh

\* One turn of the loop up to the decoder: the two records are read when they
\* have changed, used unchecked, and transformed.
ReadLines ==
  /\ pc = "lines"
  /\ MoreLines
  /\ LET y == FirstLine(iY)
     IN  /\ recBeg' \in IF Changed(begOld, y) THEN RecordsRead(y) ELSE {recBeg}
         /\ recEnd' \in IF Changed(endOld, y + 1) THEN RecordsRead(y + 1) ELSE {recEnd}
         /\ begOld' = y
         /\ endOld' = y + 1
         /\ failed' = \/ Changed(begOld, y) /\ recBeg' = NoRecord /\ y < Band.numDsr
                      \/ Changed(endOld, y + 1) /\ recEnd' = NoRecord /\ y + 1 < Band.numDsr
  /\ IF NoRecord \in {recBeg', recEnd'}
     THEN Crash
     ELSE /\ lineBeg' = TieLine(Band, recBeg')
          /\ lineEnd' = TieLine(Band, recEnd')
          /\ pc' = "pixels"
          /\ k' = 0 /\ inter' = FALSE
          /\ UNCHANGED <<raster, buf, call, iY, pos, row, last, reads>>

-----------------------------------------------------------------------------
(***************************************************************************)
(* decode_tiepoint_band.                                                   *)
(***************************************************************************)

\* The sample to decode next, and how far it is past tie point 0.
Sample ==
  (IF Band.mirrored THEN OffsetMirrored(raster, call.ox, Band.width) ELSE call.ox) + k * raster.sx
SamplePos == 2 * Sample - ScanX(Band)

\* Mutant of Knot: the last tie point, which has no successor, may be chosen.
MutKnot ==
  IF SamplePos < 0 THEN 0
  ELSE IF SamplePos \div StepX(Band) > Band.numElems - 1 THEN Band.numElems - 2
       ELSE SamplePos \div StepX(Band)

\* x_knot: the tie point before the sample, or the first or last but one.
Knot ==
  IF SamplePos < 0 THEN 0
  ELSE IF SamplePos \div StepX(Band) >= Band.numElems - 1 THEN Band.numElems - 2
       ELSE SamplePos \div StepX(Band)

Far(v, w) == v - w > Half \/ w - v > Half

\* Mutant of Crosses: only the sides along the lines are looked at.
MutCrosses(e) ==
  Far(lineBeg[e + 1], lineBeg[e]) \/ Far(lineEnd[e], lineEnd[e + 1])

\* Whether the date line runs between the tie points e, e + 1 of both lines.
Crosses(e) ==
  \/ Far(lineBeg[e + 1], lineBeg[e])
  \/ Far(lineBeg[e], lineEnd[e])
  \/ Far(lineEnd[e], lineEnd[e + 1])
  \/ Far(lineEnd[e + 1], lineBeg[e + 1])

\* The tie points e and e + 1 of a line, lifted by a circle where negative.
Lifted(l, e) ==
  [i \in DOMAIN l |-> IF i \in {e, e + 1} /\ l[i] < 0 THEN l[i] + Circle ELSE l[i]]

\* epr_interpolate2D times Scale: x and y are the distances from tie point e of
\* line lb in half pixels.
Interpolated(lb, le, e, x, y) ==
  LET x00 == lb[e]
      x10 == lb[e + 1]
      x01 == le[e]
      x11 == le[e + 1]
      sx  == StepX(Band)
      sy  == StepY(Band)
  IN  x00 * sx * sy + x * sy * (x10 - x00) + y * sx * (x01 - x00) + x * y * (x11 + x00 - x01 - x10)

MorePixels == k * raster.sx <= raster.sw - 1

\* One pixel.  The lines stay lifted for the pixels that follow, and so does
\* the flag that a crossing was met.
DecodePixel ==
  /\ pc = "pixels"
  /\ MorePixels
  /\ LET lift == Band.longitude /\ Crosses(Knot)
         lb   == IF lift THEN Lifted(lineBeg, Knot) ELSE lineBeg
         le   == IF lift THEN Lifted(lineEnd, Knot) ELSE lineEnd
         v    == Interpolated(lb, le, Knot, SamplePos - Knot * StepX(Band),
                              LinePos(iY) - recBeg * StepY(Band))
     IN  /\ lineBeg' = lb
         /\ lineEnd' = le
         /\ inter'   = (inter \/ lift)
         /\ buf'     = [buf EXCEPT ![pos + k] =
                          IF inter' /\ v > Half * Scale(Band) THEN v - Circle * Scale(Band) ELSE v]
  /\ k' = k + 1
  /\ UNCHANGED <<raster, pc, call, iY, pos, recBeg, recEnd, begOld, endOld, row, failed, last, reads>>

\* The line is decoded.
LineDone ==
  /\ pc = "pixels"
  /\ ~MorePixels
  /\ pc'  = "lines"
  /\ iY'  = iY + raster.sy
  /\ pos' = pos + LinePixels(raster)
  /\ UNCHANGED <<raster, buf, call, recBeg, recEnd, begOld, endOld, lineBeg, lineEnd,
                 k, inter, row, failed, last, reads>>

\* All lines are decoded: mirrored ones are turned round, and the records freed.
LinesDone ==
  /\ pc = "lines"
  /\ ~MoreLines
  /\ IF Band.mirrored
     THEN pc' = "mirror" /\ UNCHANGED <<local, last>>
     ELSE Return("none")
  /\ UNCHANGED <<raster, buf, call, reads>>

\* Mutant of NextRow: each line starts the count again.
MutNextRow == 0

NextRow == row + 1

MirrorLine ==
  /\ pc = "mirror"
  /\ row < RasterHeight(raster)
  /\ buf' = LineReversed(buf, raster, row)
  /\ row' = NextRow
  /\ UNCHANGED <<raster, pc, call, iY, pos, recBeg, recEnd, begOld, endOld,
                 lineBeg, lineEnd, k, inter, failed, last, reads>>

MirrorDone ==
  /\ pc = "mirror"
  /\ row = RasterHeight(raster)
  /\ Return("none")
  /\ UNCHANGED <<raster, buf, call, reads>>

-----------------------------------------------------------------------------
Init ==
  /\ raster = NoRaster
  /\ buf    = << >>
  /\ pc     = "idle"
  /\ call   = NoCall
  /\ last   = "unread"
  /\ reads  = 0
  /\ iY = 0 /\ pos = 0 /\ k = 0 /\ row = 0
  /\ recBeg = NoRecord /\ recEnd = NoRecord
  /\ begOld = Sentinel /\ endOld = Sentinel
  /\ lineBeg = << >> /\ lineEnd = << >>
  /\ inter = FALSE /\ failed = FALSE

ReadStep ==
  \/ CheckCall \/ ReadLines \/ DecodePixel \/ LineDone \/ LinesDone
  \/ MirrorLine \/ MirrorDone

Next ==
  \/ ReadStep
  \/ (\E r \in Rasters : CreateRaster(r))
  \/ FreeRaster
  \/ (\E c \in Calls : ReadBandRaster(c))

\* A call that has begun runs on: the library is sequential code.
Spec == Init /\ [][Next]_vars /\ WF_vars(ReadStep)

-----------------------------------------------------------------------------
(***************************************************************************)
(* Properties.                                                             *)
(***************************************************************************)

\* Every variable has its type; the interpolation lines have as many elements
\* as the band.
TypeOK ==
  /\ raster \in Rasters \cup {NoRaster}
  /\ IF raster = NoRaster THEN buf = << >> ELSE buf \in [0 .. NumElems(raster) - 1 -> Int]
  /\ pc \in {"idle", "checks", "lines", "pixels", "mirror", "crash"}
  /\ call \in Calls \cup {NoCall}
  /\ iY \in Nat /\ pos \in Nat /\ k \in Nat /\ row \in Nat
  /\ recBeg \in Nat \cup {NoRecord} /\ recEnd \in Nat \cup {NoRecord}
  /\ begOld \in Nat /\ endOld \in Nat
  /\ \/ lineBeg = << >> /\ lineEnd = << >>
     \/ /\ lineBeg \in [0 .. Band.numElems - 1 -> Int]
        /\ lineEnd \in [0 .. Band.numElems - 1 -> Int]
  /\ inter \in BOOLEAN /\ failed \in BOOLEAN
  /\ reads \in Nat
  /\ last \in {"unread", "none", "file_read_error"}

\* Whenever a line is decoded, the two records that are held, fresh or kept
\* from the line before, are neighbours in the dataset and the line lies
\* between them, or before the first or after the last.
Bracketed ==
  pc = "pixels" =>
    /\ recEnd = recBeg + 1
    /\ recEnd < Band.numDsr
    /\ recBeg * StepY(Band) <= LinePos(iY) \/ recBeg = 0
    /\ LinePos(iY) < recEnd * StepY(Band) \/ recEnd = Band.numDsr - 1

\* Whenever a pixel is decoded, its two tie points are in the line and its
\* place is in the buffer, even for a source region that the bounds check lets
\* run out of the scene.
KnotsInLine ==
  pc = "pixels" /\ MorePixels =>
    /\ Knot \in 0 .. Band.numElems - 2
    /\ pos + k \in DOMAIN buf

\* The values of the plane of a band at a pixel, times Scale: sample x of line
\* y, counted in the image from left to right.
Plane(b, x, y) ==
  LET s == IF b.mirrored THEN b.width - 1 - x ELSE x
  IN  b.c * Scale(b) + b.dx * (2 * s - ScanX(b)) * StepY(b) + b.dy * (2 * y - ScanY(b)) * StepX(b)

\* How far the values of the tie points of two lines are apart.
Magnitude(i) == IF i < 0 THEN -i ELSE i
Span(b) == Magnitude(b.dx) * (b.numElems - 1) + Magnitude(b.dy)

\* When a read returns zero, every pixel is the value of the plane there, also
\* beyond the outermost tie points, mirrored or not; a longitude is it up to
\* whole circles, if its lines do not reach half round the globe (as they do
\* close to a pole).
PixelsCorrect ==
  Idle /\ last = "none" /\ (Band.longitude => Span(Band) < Half) =>
    \A h \in 0 .. RasterHeight(raster) - 1, j \in 0 .. RasterWidth(raster) - 1 :
      LET v == buf[h * RasterWidth(raster) + j]
          p == Plane(Band, call.ox + j * raster.sx, call.oy + h * raster.sy)
      IN  IF Band.longitude THEN (v - p) % (Circle * Scale(Band)) = 0 ELSE v = p

\* The process ends in a read only because a record could not be read, or in
\* one of three data sets: with one tie-point line, with a line of the number
\* that the code takes for "none", or an ASAR grid of one record.
CrashCauses ==
  pc = "crash" => failed \/ Band.numDsr = 1 \/ Band.numDsr > Sentinel \/ GridCrash(Band)

\* Every read comes to an end.
ReadEnds == ~Idle ~> (Idle \/ pc = "crash")
=============================================================================
