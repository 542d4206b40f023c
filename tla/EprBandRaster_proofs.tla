----------------------- MODULE EprBandRaster_proofs -----------------------
(***************************************************************************)
(* Proofs about EprBandRaster, for scenes, bands and rasters of any size.  *)
(*                                                                         *)
(* The first part is arithmetic: how many steps fit into a length, where a *)
(* line lies in the linear buffer, and where the samples of a mirrored     *)
(* line lie.  The second part is the inductive invariant, which follows    *)
(* the lines of the raster from unread to raw, to mirrored, to masked.     *)
(***************************************************************************)
EXTENDS EprBandRaster, TLAPS

-----------------------------------------------------------------------------
(***************************************************************************)
(* Arithmetic.                                                             *)
(***************************************************************************)

LEMMA DivFacts ==
  ASSUME NEW a \in Nat, NEW s \in Nat \ {0}
  PROVE  /\ a \div s \in Nat
         /\ (a \div s) * s <= a
         /\ a < ((a \div s) + 1) * s
  OBVIOUS

LEMMA ModFact ==
  ASSUME NEW a \in Nat, NEW s \in Nat \ {0}
  PROVE  a % s = a - s * (a \div s)
  OBVIOUS

LEMMA TimesMonotone ==
  ASSUME NEW a \in Nat, NEW b \in Nat, NEW c \in Nat, a <= b
  PROVE  a * c <= b * c
  OBVIOUS

\* The number of k for which k * s still lies in 0 .. n - 1: what raster_width,
\* raster_height and delta_raster_pos compute.
LEMMA Steps ==
  ASSUME NEW n \in Nat \ {0}, NEW s \in Nat \ {0}, NEW k \in Nat
  PROVE  k * s <= n - 1 <=> k < (n - 1) \div s + 1
<1> DEFINE q == (n - 1) \div s
<1>1. q \in Nat /\ q * s <= n - 1 /\ n - 1 < (q + 1) * s
  BY DivFacts
<1> HIDE DEF q
<1>2. ASSUME k <= q PROVE k * s <= n - 1
  BY <1>1, <1>2, TimesMonotone
<1>3. ASSUME q + 1 <= k PROVE n - 1 < k * s
  BY <1>1, <1>3, TimesMonotone
<1>4. k <= q \/ q + 1 <= k
  BY <1>1
<1>5. k * s \in Nat
  OBVIOUS
<1> QED BY <1>1, <1>2, <1>3, <1>4, <1>5 DEF q

\* Column j of line h of a buffer with H lines of w columns.
LEMMA PosInBuffer ==
  ASSUME NEW w \in Nat, NEW H \in Nat, NEW h \in 0 .. H - 1, NEW j \in 0 .. w - 1
  PROVE  h * w + j \in 0 .. H * w - 1
<1>1. (h + 1) * w <= H * w
  BY TimesMonotone
<1>2. (h + 1) * w = h * w + w /\ h * w \in Nat /\ H * w \in Nat
  OBVIOUS
<1> QED BY <1>1, <1>2

\* Lines do not overlap.
LEMMA PosOrder ==
  ASSUME NEW w \in Nat, NEW g \in Nat, NEW h \in Nat, g < h, NEW j \in 0 .. w - 1
  PROVE  g * w + j < h * w
<1>1. (g + 1) * w <= h * w
  BY TimesMonotone
<1>2. (g + 1) * w = g * w + w /\ g * w \in Nat /\ h * w \in Nat
  OBVIOUS
<1> QED BY <1>1, <1>2

\* Line and column of a position.
LEMMA PosDivMod ==
  ASSUME NEW w \in Nat \ {0}, NEW h \in Nat, NEW j \in 0 .. w - 1
  PROVE  (h * w + j) \div w = h /\ (h * w + j) % w = j
<1> DEFINE a == h * w + j
           q == a \div w
<1>1. a \in Nat /\ h * w \in Nat
  OBVIOUS
<1>2. q \in Nat /\ q * w <= a /\ a < (q + 1) * w
  BY <1>1, DivFacts
<1>3. q = h
  <2> HIDE DEF q
  <2>1. (q + 1) * w = q * w + w /\ (h + 1) * w = h * w + w /\ q * w \in Nat
    BY <1>2
  <2>2. ASSUME q + 1 <= h PROVE FALSE
    BY <1>1, <1>2, <2>1, <2>2, TimesMonotone
  <2>3. ASSUME h + 1 <= q PROVE FALSE
    BY <1>1, <1>2, <2>1, <2>3, TimesMonotone
  <2> QED BY <1>2, <2>2, <2>3
<1>4. a % w = a - w * q
  BY <1>1, ModFact
<1> QED BY <1>1, <1>3, <1>4

-----------------------------------------------------------------------------
(***************************************************************************)
(* The geometry of a raster and of a line.                                 *)
(***************************************************************************)

\* Line h of the raster before mirroring.
Raw(h, j) ==
  [ band |-> call.band, line |-> call.oy + h * raster.sy,
    sample |-> LineStart + j * raster.sx ]

LEMMA RasterFacts ==
  ASSUME NEW r \in Rasters
  PROVE  /\ r.sw \in Nat \ {0} /\ r.sh \in Nat \ {0}
         /\ r.sx \in Nat \ {0} /\ r.sy \in Nat \ {0}
         /\ r # NoRaster
         /\ RasterWidth(r) \in Nat \ {0} /\ RasterHeight(r) \in Nat \ {0}
         /\ NumElems(r) = RasterHeight(r) * RasterWidth(r) /\ NumElems(r) \in Nat
<1>1. /\ r.sw \in Nat \ {0} /\ r.sh \in Nat \ {0}
      /\ r.sx \in Nat \ {0} /\ r.sy \in Nat \ {0}
      /\ r # NoRaster
  BY RastersAssumption, NoneAssumption DEF RasterType
<1>2. (r.sw - 1) \div r.sx \in Nat /\ (r.sh - 1) \div r.sy \in Nat
  BY <1>1, DivFacts
<1>3. RasterWidth(r) \in Nat \ {0} /\ RasterHeight(r) \in Nat \ {0}
  BY <1>2 DEF RasterWidth, RasterHeight
<1>4. NumElems(r) = RasterHeight(r) * RasterWidth(r) /\ NumElems(r) \in Nat
  BY <1>3 DEF NumElems
<1> QED BY <1>1, <1>3, <1>4

LEMMA CallFacts ==
  ASSUME NEW c \in Calls
  PROVE  /\ c.band \in Bands /\ c.ox \in Int /\ c.oy \in Int
         /\ c.band.numDsr \in Nat /\ c.band.mirrored \in BOOLEAN /\ c.band.masked \in BOOLEAN
  BY BandsAssumption, OffsetsAssumption DEF Calls, BandType

\* A decoder's loop makes one turn per column of the raster, and
\* delta_raster_pos is the width of the raster.
LEMMA LineFacts ==
  ASSUME raster \in Rasters
  PROVE  LineSteps(raster) = Columns /\ LinePixels(raster) = RasterWidth(raster)
<1>1. ASSUME NEW k \in Nat
      PROVE  k * raster.sx <= raster.sw - 1 <=> k < RasterWidth(raster)
  BY RasterFacts, Steps DEF RasterWidth
<1>2. ASSUME NEW k \in Nat, k * raster.sx <= raster.sw - 1 PROVE k <= raster.sw - 1
  <2>1. raster.sx \in Nat \ {0} /\ raster.sw \in Nat \ {0}
    BY RasterFacts
  <2>2. k * raster.sx >= k
    BY <2>1
  <2>3. k * raster.sx \in Nat
    BY <2>1
  <2> QED BY <1>2, <2>1, <2>2, <2>3
<1>3. RasterWidth(raster) \in Nat \ {0} /\ raster.sw \in Nat \ {0}
  BY RasterFacts
<1>4. \A k \in LineSteps(raster) : k \in Columns
  BY <1>1, <1>3 DEF LineSteps, Columns
<1>5. \A k \in Columns : k \in LineSteps(raster)
  BY <1>1, <1>2, <1>3 DEF LineSteps, Columns
<1> QED BY <1>4, <1>5 DEF LinePixels, RasterWidth

\* A line is read while the raster has lines left.
LEMMA LineCount ==
  ASSUME raster \in Rasters, call \in Calls, NEW n \in Nat, iY = call.oy + n * raster.sy
  PROVE  MoreLines <=> n < RasterHeight(raster)
<1>1. n * raster.sy <= raster.sh - 1 <=> n < RasterHeight(raster)
  BY RasterFacts, Steps DEF RasterHeight
<1>2. n * raster.sy \in Nat /\ raster.sh \in Nat /\ call.oy \in Int
  BY RasterFacts, CallFacts
<1> QED BY <1>1, <1>2 DEF MoreLines

\* In a source region that passed the check, every sample a line needs lies in
\* the line, and mirrored lines hold the columns from right to left.
LEMMA SampleFacts ==
  ASSUME raster \in Rasters, call \in Calls, call.ox \in Nat, InSource(call),
         NEW j \in Columns
  PROVE  /\ LineStart + j * raster.sx \in 0 .. Width - 1
         /\ call.band.mirrored =>
              LineStart + j * raster.sx =
                Width - 1 - (call.ox + (RasterWidth(raster) - 1 - j) * raster.sx)
         /\ ~call.band.mirrored => LineStart + j * raster.sx = call.ox + j * raster.sx
<1> DEFINE w == RasterWidth(raster)
           s == raster.sx
<1>1. w \in Nat \ {0} /\ s \in Nat \ {0} /\ raster.sw \in Nat \ {0} /\ j \in 0 .. w - 1
  BY RasterFacts DEF Columns
<1>2. \A k \in 0 .. w - 1 : k * s <= raster.sw - 1 /\ k * s \in Nat
  BY <1>1, RasterFacts, Steps DEF RasterWidth
<1>3. call.ox + raster.sw <= Width /\ Width \in Nat \ {0}
  BY WidthAssumption DEF InSource
<1> HIDE DEF w, s
<1>4. (w - 1 - j) * s = (w - 1) * s - j * s
  BY <1>1
<1>5. /\ j * s \in Nat /\ (w - 1) * s \in Nat
      /\ (w - 1) * s <= raster.sw - 1 /\ j * s <= raster.sw - 1
      /\ (w - 1 - j) * s \in Nat /\ (w - 1 - j) * s <= raster.sw - 1
  BY <1>1, <1>2
<1>6. CASE call.band.mirrored
  <2>1. LineStart = (Width - 1) - (call.ox + raster.sw - 1) + (raster.sw - ((w - 1) * s + 1))
    BY <1>6 DEF LineStart, OffsetMirrored, w, s
  <2>2. LineStart + j * s = Width - 1 - (call.ox + (w - 1 - j) * s)
    BY <1>1, <1>3, <1>4, <1>5, <2>1
  <2> QED BY <1>1, <1>3, <1>5, <1>6, <2>2 DEF w, s
<1>7. CASE ~call.band.mirrored
  BY <1>1, <1>3, <1>5, <1>7 DEF LineStart, w, s
<1> QED BY <1>6, <1>7

LEMMA RawIsExpected ==
  ASSUME raster \in Rasters, call \in Calls, call.ox \in Nat, InSource(call),
         NEW h \in Lines, NEW j \in Columns
  PROVE  /\ ~call.band.mirrored => Raw(h, j) = Expected(call, h, j)
         /\ call.band.mirrored => Raw(h, RasterWidth(raster) - 1 - j) = Expected(call, h, j)
<1> DEFINE w == RasterWidth(raster)
<1>1. w \in Nat \ {0} /\ j \in 0 .. w - 1 /\ w - 1 - j \in 0 .. w - 1 /\ w - 1 - (w - 1 - j) = j
  BY RasterFacts DEF Columns
<1>2. w - 1 - j \in Columns
  BY <1>1 DEF Columns
<1>3. CASE call.band.mirrored
  <2>1. LineStart + (w - 1 - j) * raster.sx =
          Width - 1 - (call.ox + (w - 1 - (w - 1 - j)) * raster.sx)
    BY <1>2, <1>3, SampleFacts
  <2> QED BY <1>1, <1>3, <2>1 DEF Raw, Expected, SampleOf
<1>4. CASE ~call.band.mirrored
  BY <1>4, SampleFacts DEF Raw, Expected, SampleOf
<1> QED BY <1>3, <1>4

-----------------------------------------------------------------------------
(***************************************************************************)
(* The inductive invariant.                                                *)
(***************************************************************************)

Reading == pc \in {"bounds", "lines", "mirror", "mask"}

\* What holds around a read: its arguments are accepted, its region is
\* checked before any line is read, and it has not returned.
Context ==
  /\ Reading => /\ raster \in Rasters /\ call \in Calls
                /\ call.ox \in Nat /\ call.oy \in Nat
                /\ last.code = "unread"
  /\ pc \in {"lines", "mirror", "mask"} => InSource(call)
  /\ last.code # "unread" => raster \in Rasters
  /\ last.code = "none" => call \in Calls

\* After n turns of the line loop the first n lines are raw.
RawUpTo(n) ==
  /\ iY = call.oy + n * raster.sy
  /\ pos = n * RasterWidth(raster)
  /\ \A h \in 0 .. n - 1, j \in Columns : Shown(h, j) = Raw(h, j)

LinesRead == pc = "lines" => \E n \in 0 .. RasterHeight(raster) : RawUpTo(n)

\* The lines before row are mirrored, the others still raw.
Mirroring ==
  pc = "mirror" =>
    /\ call.band.mirrored
    /\ row \in 0 .. RasterHeight(raster)
    /\ \A h \in Lines, j \in Columns :
         Shown(h, j) = IF h < row THEN Expected(call, h, j) ELSE Raw(h, j)

Complete == \A h \in Lines, j \in Columns : Shown(h, j) = Expected(call, h, j)

Masking == pc = "mask" => Complete

IInv ==
  /\ TypeOK
  /\ Context
  /\ LinesRead
  /\ Mirroring
  /\ Masking
  /\ ReadCorrect

-----------------------------------------------------------------------------
(***************************************************************************)
(* Facts used by several steps.                                            *)
(***************************************************************************)

LEMMA BufFacts ==
  ASSUME TypeOK, raster \in Rasters
  PROVE  /\ buf \in [0 .. NumElems(raster) - 1 -> Pixels]
         /\ DOMAIN buf = 0 .. NumElems(raster) - 1
         /\ \A h \in Lines, j \in Columns :
              h * RasterWidth(raster) + j \in DOMAIN buf
<1>1. buf \in [0 .. NumElems(raster) - 1 -> Pixels]
  BY RasterFacts DEF TypeOK
<1>2. /\ NumElems(raster) = RasterHeight(raster) * RasterWidth(raster)
      /\ RasterHeight(raster) \in Nat /\ RasterWidth(raster) \in Nat
  BY RasterFacts
<1>3. \A h \in Lines, j \in Columns : h * RasterWidth(raster) + j \in 0 .. NumElems(raster) - 1
  BY <1>2, PosInBuffer DEF Lines, Columns
<1> QED BY <1>1, <1>3

LEMMA ExpectedIsPixel ==
  ASSUME raster \in Rasters, call \in Calls, call.ox \in Nat, call.oy \in Nat,
         InSource(call), NEW h \in Nat, NEW j \in Columns
  PROVE  Raw(h, j) \in Pixels
<1>1. h * raster.sy \in Nat
  BY RasterFacts
<1> QED BY <1>1, SampleFacts, CallFacts, WidthAssumption DEF Raw, Pixels

\* Nothing but pc, errCode and last changes when a read returns an error.
LEMMA FailIInv ==
  ASSUME IInv, raster \in Rasters, NEW code \in ErrCodes \ {"none"}, Fail(code)
  PROVE  IInv'
<1>1. TypeOK'
  BY DEF IInv, TypeOK, Fail, Return, ErrCodes
<1>2. Context'
  BY DEF IInv, Context, Reading, Fail, Return
<1> QED BY <1>1, <1>2
        DEF IInv, LinesRead, Mirroring, Masking, ReadCorrect, Fail, Return

LEMMA CrashIInv == ASSUME IInv, Crash PROVE IInv'
<1>1. TypeOK' /\ Context'
  BY DEF IInv, TypeOK, Context, Reading, Crash
<1> QED BY <1>1 DEF IInv, LinesRead, Mirroring, Masking, ReadCorrect, Idle, Crash

\* The end of the measurement part, with every line in place.
LEMMA EndMeasurementIInv ==
  ASSUME IInv, pc \in {"lines", "mirror"}, Complete, EndMeasurement,
         UNCHANGED <<raster, buf, call, reads>>
  PROVE  IInv'
<1>1. Reading /\ raster \in Rasters /\ call \in Calls /\ call.band.masked \in BOOLEAN
      /\ call.ox \in Nat /\ call.oy \in Nat /\ last.code = "unread" /\ InSource(call)
  BY CallFacts DEF IInv, Context, Reading
<1>2. Complete'
  BY DEF Complete, Lines, Columns, Shown, Expected
<1>3. CASE ~call.band.masked
  <2>1. Return("none", "unused")
    BY <1>3 DEF EndMeasurement
  <2>2. TypeOK'
    BY <2>1 DEF IInv, TypeOK, Return, ErrCodes
  <2>3. Context'
    BY <1>1, <2>1 DEF Context, Reading, Return
  <2>4. ReadCorrect'
    BY <1>2, <2>1 DEF ReadCorrect, Return, Complete
  <2> QED BY <2>1, <2>2, <2>3, <2>4 DEF IInv, LinesRead, Mirroring, Masking, Return
<1>4. CASE call.band.masked
  <2>1. errCode' = "none" /\ pc' = "mask" /\ UNCHANGED <<last, iY, pos, row>>
    BY <1>4 DEF EndMeasurement
  <2>2. TypeOK'
    BY <2>1 DEF IInv, TypeOK, ErrCodes
  <2>3. Context'
    BY <1>1, <2>1 DEF Context, Reading, InSource
  <2> QED BY <1>2, <2>1, <2>2, <2>3
          DEF IInv, LinesRead, Mirroring, Masking, ReadCorrect, Idle
<1> QED BY <1>1, <1>3, <1>4

-----------------------------------------------------------------------------
(***************************************************************************)
(* Every action preserves the invariant.                                   *)
(***************************************************************************)

LEMMA InitIInv == Init => IInv
  BY DEF Init, IInv, TypeOK, Context, Reading, LinesRead, Mirroring, Masking,
         ReadCorrect, Idle, NotRead, ErrCodes

LEMMA CreateRasterIInv == ASSUME IInv, NEW r \in Rasters, CreateRaster(r) PROVE IInv'
<1>1. TypeOK'
  BY RasterFacts DEF IInv, TypeOK, CreateRaster, Pixels, NotRead, ErrCodes
<1> QED BY <1>1 DEF IInv, Context, Reading, LinesRead, Mirroring, Masking, ReadCorrect,
                    CreateRaster, Idle, NotRead

LEMMA RestIInv == ASSUME IInv, CreateRefused \/ FreeRaster \/ ReadNullBand PROVE IInv'
<1>1. TypeOK'
  BY DEF IInv, TypeOK, CreateRefused, FreeRaster, ReadNullBand, Return, NotRead, ErrCodes
<1>2. Context'
  BY DEF IInv, TypeOK, Context, Reading, CreateRefused, FreeRaster, ReadNullBand,
         Return, NotRead, Idle
<1>3. CASE CreateRefused
  BY <1>1, <1>2, <1>3 DEF IInv, LinesRead, Mirroring, Masking, ReadCorrect, CreateRefused,
     Idle, Lines, Columns, Shown, Expected, Masked
<1>4. CASE FreeRaster \/ ReadNullBand
  BY <1>1, <1>2, <1>4 DEF IInv, LinesRead, Mirroring, Masking, ReadCorrect, FreeRaster,
     ReadNullBand, Return, NotRead, Idle
<1> QED BY <1>3, <1>4

LEMMA ReadBandRasterIInv ==
  ASSUME IInv, NEW c \in Calls, ReadBandRaster(c) PROVE IInv'
<1>1. raster \in Rasters /\ UNCHANGED <<raster, buf>> /\ call' = c /\ reads' \in Nat
  BY DEF IInv, TypeOK, ReadBandRaster
<1>2. CASE Return("illegal_data_type", "unused") \/ Return("invalid_value", "unused")
  <2>1. TypeOK'
    BY <1>1, <1>2 DEF IInv, TypeOK, Return, ErrCodes
  <2>2. Context'
    BY <1>1, <1>2 DEF Context, Reading, Return
  <2> QED BY <1>2, <2>1, <2>2
          DEF IInv, LinesRead, Mirroring, Masking, ReadCorrect, Return
<1>3. CASE /\ c.ox >= 0 /\ c.oy >= 0
           /\ errCode' = "none" /\ pc' = "bounds" /\ last' = NotRead
           /\ UNCHANGED <<iY, pos, row>>
  <2>1. TypeOK'
    BY <1>1, <1>3 DEF IInv, TypeOK, NotRead, ErrCodes
  <2>2. Context'
    BY <1>1, <1>3, CallFacts DEF Context, Reading, NotRead
  <2> QED BY <1>3, <2>1, <2>2
          DEF IInv, LinesRead, Mirroring, Masking, ReadCorrect, Idle
<1> QED BY <1>2, <1>3 DEF ReadBandRaster

LEMMA CheckSourceIInv == ASSUME IInv, CheckSource PROVE IInv'
<1>1. /\ Reading /\ raster \in Rasters /\ call \in Calls /\ call.oy \in Nat
      /\ last.code = "unread"
  BY DEF IInv, Context, Reading, CheckSource
<1>2. CASE Crash
  BY <1>2, CrashIInv
<1>3. CASE Fail("illegal_arg") \/ Fail("illegal_data_type")
  BY <1>1, <1>3, FailIInv DEF ErrCodes
<1>4. CASE /\ InSource(call)
           /\ pc' = "lines" /\ iY' = call.oy /\ pos' = 0
           /\ UNCHANGED <<raster, buf, errCode, call, row, last, reads>>
  <2>1. TypeOK'
    BY <1>1, <1>4 DEF IInv, TypeOK
  <2>2. Context'
    BY <1>4 DEF IInv, Context, Reading, InSource, CheckSource
  <2>3. RawUpTo(0)' /\ 0 \in 0 .. RasterHeight(raster)'
    <3>1. /\ RasterHeight(raster) \in Nat /\ 0 * raster.sy = 0 /\ 0 * RasterWidth(raster) = 0
          /\ call.oy + 0 = call.oy
      BY <1>1, RasterFacts
    <3> QED BY <1>4, <3>1 DEF RawUpTo
  <2>4. LinesRead'
    BY <2>3 DEF LinesRead
  <2> QED BY <1>4, <2>1, <2>2, <2>4 DEF IInv, Mirroring, Masking, ReadCorrect, Idle
<1> QED BY <1>2, <1>3, <1>4 DEF CheckSource

LEMMA ReadLineIInv == ASSUME IInv, ReadLine PROVE IInv'
<1>1. /\ raster \in Rasters /\ call \in Calls /\ call.ox \in Nat /\ call.oy \in Nat
      /\ last.code = "unread" /\ InSource(call) /\ pc = "lines" /\ MoreLines
  BY DEF IInv, Context, Reading, ReadLine
<1>2. ASSUME NEW err \in ReadErrors, Fail(err) PROVE IInv'
  BY <1>1, <1>2, FailIInv DEF ErrCodes, ReadErrors
<1>3. CASE /\ buf' = DecodedLine
           /\ iY'  = iY + raster.sy
           /\ pos' = pos + LinePixels(raster)
           /\ UNCHANGED <<raster, errCode, pc, call, row, last, reads>>
  <2> DEFINE w == RasterWidth(raster)
             H == RasterHeight(raster)
  <2>1. PICK n \in 0 .. H : RawUpTo(n)
    BY <1>1 DEF IInv, LinesRead
  <2>2. /\ w \in Nat \ {0} /\ H \in Nat \ {0} /\ raster.sy \in Nat \ {0}
        /\ LinePixels(raster) = w /\ LineSteps(raster) = Columns
    BY <1>1, RasterFacts, LineFacts
  <2>3. n \in Nat /\ n \in Lines /\ n + 1 \in 0 .. H
    BY <1>1, <2>1, <2>2, LineCount DEF RawUpTo, Lines
  <2>4. pos = n * w /\ pos \in Nat /\ iY = call.oy + n * raster.sy /\ iY \in Nat
    BY <1>1, <2>1, <2>2, <2>3 DEF RawUpTo
  <2>5. \A k \in LineSteps(raster) :
          [band |-> call.band, line |-> iY, sample |-> LineStart + k * raster.sx] \in Pixels
    BY <1>1, <2>2, <2>4, SampleFacts, CallFacts, WidthAssumption DEF Pixels
  <2>6. TypeOK'
    <3>1. DecodedLine \in [0 .. NumElems(raster) - 1 -> Pixels]
      BY <1>1, <2>5, BufFacts DEF DecodedLine, IInv
    <3>2. iY' \in Nat /\ pos' \in Nat
      BY <1>3, <2>2, <2>4
    <3> QED BY <1>1, <1>3, <3>1, <3>2, RasterFacts DEF IInv, TypeOK
  <2>7. \A h \in 0 .. n, j \in Columns : Shown(h, j)' = Raw(h, j)'
    <3> SUFFICES ASSUME NEW h \in 0 .. n, NEW j \in Columns
                 PROVE  Shown(h, j)' = Raw(h, j)'
      OBVIOUS
    <3>1. h \in Lines /\ h * w + j \in DOMAIN buf /\ h \in Nat /\ j \in 0 .. w - 1
      BY <1>1, <2>1, <2>2, <2>3, BufFacts DEF IInv, Lines, Columns
    <3>2. Raw(h, j)' = Raw(h, j)
      BY <1>3 DEF Raw, LineStart, OffsetMirrored
    <3>3. Shown(h, j)' = DecodedLine[h * w + j]
      BY <1>3 DEF Shown
    <3>4. CASE h < n
      <4>1. h * w + j < n * w /\ h * w \in Nat
        BY <2>2, <2>3, <3>1, <3>4, PosOrder
      <4>2. (h * w + j) - pos \notin LineSteps(raster)
        BY <2>2, <2>4, <3>1, <4>1 DEF Columns
      <4>3. DecodedLine[h * w + j] = Shown(h, j)
        <5>1. \A i \in DOMAIN buf : i - pos \notin LineSteps(raster) => DecodedLine[i] = buf[i]
          BY DEF DecodedLine
        <5>2. DecodedLine[h * w + j] = buf[h * w + j]
          BY <3>1, <4>2, <5>1
        <5> QED BY <5>2 DEF Shown
      <4> QED BY <2>1, <3>1, <3>2, <3>3, <3>4, <4>3, <2>3 DEF RawUpTo
    <3>5. CASE h = n
      <4>1. (h * w + j) - pos = j
        BY <2>4, <3>1, <3>5
      <4>2. DecodedLine[h * w + j] = Raw(h, j)
        BY <2>2, <2>4, <3>1, <3>5, <4>1 DEF DecodedLine, Raw
      <4> QED BY <3>2, <3>3, <4>2
    <3> QED BY <3>4, <3>5
  <2>8. RawUpTo(n + 1)'
    <3>1. iY' = call.oy + (n + 1) * raster.sy /\ pos' = (n + 1) * w
      <4>1. (n + 1) * raster.sy = n * raster.sy + raster.sy /\ (n + 1) * w = n * w + w
        BY <2>2, <2>3
      <4>2. n * raster.sy \in Nat /\ raster.sy \in Nat /\ call.oy \in Nat
        BY <1>1, <2>2, <2>3
      <4> QED BY <1>3, <2>2, <2>4, <4>1, <4>2
    <3>2. 0 .. (n + 1) - 1 = 0 .. n
      BY <2>3
    <3> QED BY <1>3, <2>7, <3>1, <3>2 DEF RawUpTo, Columns
  <2>9. LinesRead' /\ Context'
    <3>1. LinesRead'
      BY <1>3, <2>3, <2>8 DEF LinesRead
    <3>2. Context'
      BY <1>1, <1>3 DEF Context, Reading, InSource
    <3> QED BY <3>1, <3>2
  <2> QED BY <1>1, <1>3, <2>6, <2>9 DEF IInv, Mirroring, Masking, ReadCorrect, Idle
<1> QED BY <1>2, <1>3 DEF ReadLine

LEMMA LinesDoneIInv == ASSUME IInv, LinesDone PROVE IInv'
<1>1. /\ raster \in Rasters /\ call \in Calls /\ call.ox \in Nat /\ call.oy \in Nat
      /\ last.code = "unread" /\ InSource(call) /\ pc = "lines" /\ ~MoreLines
      /\ call.band.mirrored \in BOOLEAN
  BY CallFacts DEF IInv, Context, Reading, LinesDone
<1>2. PICK n \in 0 .. RasterHeight(raster) : RawUpTo(n)
  BY <1>1 DEF IInv, LinesRead
<1>3. n = RasterHeight(raster) /\ n \in Nat \ {0}
  <2>1. RasterHeight(raster) \in Nat \ {0}
    BY <1>1, RasterFacts
  <2>2. n \in Nat /\ ~(n < RasterHeight(raster))
    BY <1>1, <1>2, <2>1, LineCount DEF RawUpTo
  <2> QED BY <2>1, <2>2
<1>4. \A h \in Lines, j \in Columns : Shown(h, j) = Raw(h, j)
  BY <1>2, <1>3 DEF RawUpTo, Lines
<1>5. CASE ~call.band.mirrored /\ EndMeasurement
  <2>1. Complete
    BY <1>1, <1>4, <1>5, RawIsExpected DEF Complete
  <2> QED BY <1>1, <1>5, <2>1, EndMeasurementIInv DEF LinesDone
<1>6. CASE /\ call.band.mirrored /\ row' = 0 /\ pc' = "mirror"
           /\ UNCHANGED <<errCode, last, iY, pos>>
  <2>1. UNCHANGED <<raster, buf, call, reads>>
    BY DEF LinesDone
  <2>2. TypeOK'
    BY <1>6, <2>1 DEF IInv, TypeOK
  <2>3. Context'
    BY <1>1, <1>6, <2>1 DEF Context, Reading, InSource
  <2>4. \A h \in Lines, j \in Columns : Shown(h, j)' = Raw(h, j)'
    BY <1>4, <2>1 DEF Shown, Raw, LineStart, OffsetMirrored
  <2>5. row' \in 0 .. RasterHeight(raster)' /\ \A h \in Lines : ~(h < row')
    BY <1>3, <1>6, <2>1 DEF Lines
  <2>6. Mirroring'
    BY <1>6, <2>1, <2>4, <2>5 DEF Mirroring, Lines, Columns
  <2> QED BY <1>6, <2>2, <2>3, <2>6 DEF IInv, LinesRead, Masking, ReadCorrect, Idle
<1> QED BY <1>5, <1>6 DEF LinesDone

LEMMA MirrorLineIInv == ASSUME IInv, MirrorLine PROVE IInv'
<1> DEFINE w == RasterWidth(raster)
           start == row * w
           end == start + w - 1
<1>1. /\ raster \in Rasters /\ call \in Calls /\ call.ox \in Nat /\ call.oy \in Nat
      /\ last.code = "unread" /\ InSource(call) /\ pc = "mirror"
      /\ call.band.mirrored /\ row \in Nat /\ row < RasterHeight(raster) /\ row' = row + 1
      /\ UNCHANGED <<raster, errCode, pc, call, iY, pos, last, reads>>
  BY DEF IInv, TypeOK, Context, Reading, Mirroring, MirrorLine, LineReversed
<1>2. w \in Nat \ {0} /\ RasterHeight(raster) \in Nat \ {0} /\ row \in Lines
  BY <1>1, RasterFacts DEF Lines
<1>3. start \in Nat /\ end \in Int
  BY <1>1, <1>2
<1>4. buf' = [i \in DOMAIN buf |-> IF i \in start .. end THEN buf[start + end - i] ELSE buf[i]]
  BY DEF MirrorLine, LineReversed
<1>5. \A h \in Lines, j \in Columns :
        /\ h \in Nat /\ j \in 0 .. w - 1 /\ w - 1 - j \in Columns
        /\ h * w + j \in DOMAIN buf /\ h * w \in Nat
  <2>1. \A h \in Lines, j \in Columns : h * w + j \in DOMAIN buf
    BY <1>1, BufFacts DEF IInv
  <2>2. \A h \in Lines : h \in Nat /\ h * w \in Nat
    BY <1>2 DEF Lines
  <2>3. \A j \in Columns : j \in 0 .. w - 1 /\ w - 1 - j \in Columns
    BY <1>2 DEF Columns
  <2> QED BY <2>1, <2>2, <2>3
<1>6. TypeOK'
  <2>1. \A i \in start .. end : start + end - i \in DOMAIN buf
    <3> SUFFICES ASSUME NEW i \in start .. end PROVE start + end - i \in DOMAIN buf
      OBVIOUS
    <3> DEFINE k == w - 1 - (i - start)
    <3>1. k \in Columns /\ start + end - i = start + k
      BY <1>2, <1>3 DEF Columns
    <3>2. row * w + k \in DOMAIN buf
      BY <1>2, <1>5, <3>1
    <3> QED BY <3>1, <3>2
  <2>2. buf' \in [0 .. NumElems(raster) - 1 -> Pixels]
    <3> HIDE DEF start, end
    <3> QED BY <1>1, <1>4, <2>1, BufFacts DEF IInv
  <2> QED BY <1>1, <2>2, RasterFacts DEF IInv, TypeOK
<1>7. \A h \in Lines, j \in Columns :
        Shown(h, j)' = IF h < row' THEN Expected(call, h, j)' ELSE Raw(h, j)'
  <2> SUFFICES ASSUME NEW h \in Lines, NEW j \in Columns
               PROVE  Shown(h, j)' = IF h < row' THEN Expected(call, h, j)' ELSE Raw(h, j)'
    OBVIOUS
  <2>1. /\ Raw(h, j)' = Raw(h, j) /\ Expected(call, h, j)' = Expected(call, h, j)
        /\ Shown(h, j)' = buf'[h * w + j]
    BY <1>1 DEF Raw, Expected, Shown, LineStart, OffsetMirrored
  <2>2. \A k \in Columns : Shown(h, k) = IF h < row THEN Expected(call, h, k) ELSE Raw(h, k)
    BY <1>1 DEF IInv, Mirroring
  <2>3. h \in Nat /\ h * w \in Nat /\ j \in 0 .. w - 1
    BY <1>5
  <2>4. CASE h = row
    <3>1. /\ h * w + j \in start .. end
          /\ start + end - (h * w + j) = h * w + (w - 1 - j)
      BY <1>2, <1>3, <2>3, <2>4
    <3>2. buf'[h * w + j] = buf[h * w + (w - 1 - j)]
      BY <1>4, <1>5, <3>1
    <3>3. Shown(h, w - 1 - j) = Raw(h, w - 1 - j)
      <4>1. w - 1 - j \in Columns /\ ~(h < row)
        BY <1>5, <2>3, <2>4
      <4> QED BY <2>2, <4>1
    <3>4. Raw(h, w - 1 - j) = Expected(call, h, j)
      BY <1>1, RawIsExpected
    <3>5. h < row'
      BY <1>1, <2>4
    <3> QED BY <2>1, <3>2, <3>3, <3>4, <3>5 DEF Shown
  <2>5. CASE h # row
    <3>1. h * w + j \notin start .. end
      <4>1. CASE h < row
        BY <1>1, <1>2, <1>3, <2>3, <4>1, PosOrder
      <4>2. CASE row < h
        <5>1. row * w + (w - 1) < h * w
          BY <1>1, <1>2, <2>3, <4>2, PosOrder
        <5> QED BY <1>2, <1>3, <2>3, <5>1
      <4> QED BY <1>1, <2>3, <2>5, <4>1, <4>2
    <3>2. buf'[h * w + j] = buf[h * w + j]
      BY <1>4, <1>5, <3>1
    <3>3. h < row' <=> h < row
      BY <1>1, <2>3, <2>5
    <3> QED BY <2>1, <2>2, <3>2, <3>3 DEF Shown
  <2> QED BY <2>4, <2>5
<1>8. Mirroring'
  <2>1. row' \in 0 .. RasterHeight(raster)'
    BY <1>1, <1>2
  <2> QED BY <1>1, <1>7, <2>1 DEF Mirroring, Lines, Columns
<1>9. Context'
  BY <1>1 DEF IInv, Context, Reading, InSource
<1> QED BY <1>1, <1>6, <1>8, <1>9 DEF IInv, LinesRead, Masking, ReadCorrect, Idle

LEMMA MirrorDoneIInv == ASSUME IInv, MirrorDone PROVE IInv'
<1>1. /\ pc = "mirror" /\ row = RasterHeight(raster) /\ EndMeasurement
      /\ UNCHANGED <<raster, buf, call, reads>> /\ raster \in Rasters
  BY DEF MirrorDone, IInv, Context, Reading
<1>2. \A h \in Lines : h < row
  BY <1>1, RasterFacts DEF Lines
<1>3. Complete
  BY <1>1, <1>2 DEF IInv, Mirroring, Complete
<1> QED BY <1>1, <1>3, EndMeasurementIInv

LEMMA ApplyMaskIInv == ASSUME IInv, ApplyMask PROVE IInv'
<1>1. raster \in Rasters /\ call \in Calls /\ Complete
  BY DEF IInv, Context, Reading, Masking, ApplyMask
<1>2. /\ RasterWidth(raster) \in Nat \ {0}
      /\ \A h \in Lines, j \in Columns :
           /\ h \in Nat /\ j \in 0 .. RasterWidth(raster) - 1
           /\ h * RasterWidth(raster) + j \in DOMAIN buf
  BY <1>1, RasterFacts, BufFacts DEF IInv, Lines, Columns
<1>3. CASE Crash
  BY <1>3, CrashIInv
<1>4. ASSUME NEW mask \in SUBSET DOMAIN buf, buf' = Zeroed(mask),
             NEW how \in {"ok", "bad"}, Return("none", how),
             how = "ok" => mask = GoodMask,
             UNCHANGED <<raster, call, reads>>
      PROVE  IInv'
  <2>1. TypeOK'
    <3>1. Zeroed(mask) \in [0 .. NumElems(raster) - 1 -> Pixels]
      BY <1>1, BufFacts DEF IInv, Zeroed, Pixels
    <3> QED BY <1>1, <1>4, <3>1, RasterFacts DEF IInv, TypeOK, Return, ErrCodes
  <2>2. Context'
    BY <1>1, <1>4 DEF Context, Reading, Return
  <2>3. \A h \in Lines, j \in Columns :
          Shown(h, j)' = IF h * RasterWidth(raster) + j \in mask
                         THEN Expected(call, h, j) ELSE Zero
    BY <1>1, <1>2, <1>4 DEF Complete, Shown, Zeroed
  <2>4. ASSUME how = "ok", NEW h \in Lines, NEW j \in Columns
        PROVE  Shown(h, j)' = Masked(call, h, j)
    <3>1. /\ (h * RasterWidth(raster) + j) \div RasterWidth(raster) = h
          /\ (h * RasterWidth(raster) + j) % RasterWidth(raster) = j
      BY <1>2, PosDivMod
    <3>2. h * RasterWidth(raster) + j \in mask <=>
            Valid(call.band, call.oy + h * raster.sy, call.ox + j * raster.sx)
      BY <1>2, <1>4, <2>4, <3>1 DEF GoodMask
    <3> QED BY <2>3, <3>2 DEF Masked
  <2>5. ReadCorrect'
    <3>1. /\ Lines' = Lines /\ Columns' = Columns /\ last'.mask = how
          /\ \A h \in Lines, j \in Columns : Expected(call, h, j)' = Expected(call, h, j)
          /\ \A h \in Lines, j \in Columns : Masked(call, h, j)' = Masked(call, h, j)
      BY <1>4 DEF Lines, Columns, Return, Expected, Masked
    <3> QED BY <1>4, <2>3, <2>4, <3>1 DEF ReadCorrect
  <2> QED BY <1>4, <2>1, <2>2, <2>5 DEF IInv, LinesRead, Mirroring, Masking, Return
<1>5. GoodMask \in SUBSET DOMAIN buf
  BY DEF GoodMask
<1> QED BY <1>3, <1>4, <1>5 DEF ApplyMask

LEMMA StutterIInv == ASSUME IInv, UNCHANGED vars PROVE IInv'
<1>1. TypeOK' /\ Context'
  BY DEF IInv, TypeOK, Context, Reading, InSource, vars
<1>2. LinesRead' /\ Mirroring' /\ Masking' /\ ReadCorrect'
  BY DEF IInv, LinesRead, RawUpTo, Mirroring, Masking, Complete, ReadCorrect, Idle, Lines,
         Columns, Shown, Raw, Expected, Masked, LineStart, OffsetMirrored, vars
<1> QED BY <1>1, <1>2 DEF IInv

-----------------------------------------------------------------------------
(***************************************************************************)
(* The theorems.                                                           *)
(***************************************************************************)

\* Every step of the reader, and every call, preserves the invariant.
THEOREM NextIInv == IInv /\ [Next]_vars => IInv'
<1> SUFFICES ASSUME IInv, [Next]_vars PROVE IInv'
  OBVIOUS
<1>1. CASE ReadStep
  BY <1>1, CheckSourceIInv, ReadLineIInv, LinesDoneIInv, MirrorLineIInv, MirrorDoneIInv,
     ApplyMaskIInv DEF ReadStep
<1>2. CASE ApiCall
  BY <1>2, CreateRasterIInv, RestIInv, ReadBandRasterIInv DEF ApiCall
<1>3. CASE UNCHANGED vars
  BY <1>3, StutterIInv
<1> QED BY <1>1, <1>2, <1>3 DEF Next

\* The invariant holds in every reachable state, for every scene and raster.
THEOREM Invariance == Spec => []IInv
  BY InitIInv, NextIInv, PTL DEF Spec

\* Types, and the size of the raster buffer, for every scene and raster.
THEOREM TypeCorrect == Spec => []TypeOK
<1>1. IInv => TypeOK
  BY DEF IInv
<1> QED BY <1>1, Invariance, PTL

\* Every line the reader is about to decode lies in the dataset, in the line
\* and in the raster buffer.
THEOREM LinesInBounds == Spec => []InBounds
<1>1. ASSUME IInv PROVE InBounds
  <2> SUFFICES ASSUME pc = "lines", MoreLines
               PROVE  /\ iY \in 0 .. call.band.numDsr - 1
                      /\ \A k \in LineSteps(raster) :
                           /\ pos + k \in DOMAIN buf
                           /\ LineStart + k * raster.sx \in 0 .. Width - 1
    BY DEF InBounds
  <2>1. /\ raster \in Rasters /\ call \in Calls /\ call.ox \in Nat /\ call.oy \in Nat
        /\ InSource(call)
    BY <1>1 DEF IInv, Context, Reading
  <2>2. PICK n \in 0 .. RasterHeight(raster) : RawUpTo(n)
    BY <1>1 DEF IInv, LinesRead
  <2>3. n \in Nat /\ n \in Lines
    <3>1. RasterHeight(raster) \in Nat
      BY <2>1, RasterFacts
    <3> QED BY <2>1, <2>2, <3>1, LineCount DEF RawUpTo, Lines
  <2>4. iY \in 0 .. call.band.numDsr - 1
    <3>1. call.oy + raster.sh <= call.band.numDsr /\ iY < call.oy + raster.sh
      BY <2>1 DEF InSource, MoreLines
    <3>2. iY \in Nat /\ raster.sh \in Nat /\ call.band.numDsr \in Nat
      BY <1>1, <2>1, RasterFacts, CallFacts DEF IInv, TypeOK
    <3> QED BY <2>1, <3>1, <3>2
  <2>5. \A k \in Columns : pos + k \in DOMAIN buf
    BY <1>1, <2>1, <2>2, <2>3, BufFacts DEF IInv, RawUpTo
  <2> QED BY <2>1, <2>4, <2>5, LineFacts, SampleFacts
<1> QED BY <1>1, Invariance, PTL

\* A read that returns zero put every pixel of the scene where it belongs.
THEOREM ReadsAreCorrect == Spec => []ReadCorrect
<1>1. IInv => ReadCorrect
  BY DEF IInv
<1> QED BY <1>1, Invariance, PTL

\* The mirroring switch of epr_read_band_measurement_data covers every type
\* that has a line decoder: its error branch cannot be reached.
THEOREM DecodableIsMirrorable == \A b \in Bands : Decodable(b) => b.type \in Mirrorable
  BY DEF Decodable, LineDecoders, Mirrorable

=============================================================================
