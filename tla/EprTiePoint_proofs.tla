------------------------ MODULE EprTiePoint_proofs ------------------------
(***************************************************************************)
(* Proofs about EprTiePoint, for bands, rasters, offsets and a sentinel of *)
(* any size.                                                               *)
(*                                                                         *)
(* The inductive invariant says what the checks established (Checked),     *)
(* where in the raster the read is (Placed), what the locals hold before   *)
(* the first line (Unset) and which records are held after it (Held).      *)
(*                                                                         *)
(* What the pixels show needs a second one, PInv: the lines before the one *)
(* at hand and the pixels before k are those of the plane (LinesShown,     *)
(* PixelsShown), the tie-point lines are as read or, once the date line    *)
(* was met, both within one circle (LinesHeld), and while lines are turned *)
(* round those before row are turned and the others not (Mirroring).       *)
(***************************************************************************)
EXTENDS EprTiePoint, TLAPS

-----------------------------------------------------------------------------
(***************************************************************************)
(* Arithmetic.                                                             *)
(***************************************************************************)

LEMMA DivFacts ==
  ASSUME NEW a \in Int, NEW s \in Nat \ {0}
  PROVE  /\ a \div s \in Int
         /\ (a \div s) * s <= a
         /\ a < ((a \div s) + 1) * s
         /\ a >= 0 => a \div s >= 0
  OBVIOUS

LEMMA NatQuotient ==
  ASSUME NEW a \in Nat, NEW s \in Nat \ {0}
  PROVE  a \div s \in Nat
  BY DivFacts

LEMMA TimesMonotone ==
  ASSUME NEW a \in Int, NEW b \in Int, NEW c \in Nat, a <= b
  PROVE  a * c <= b * c
  OBVIOUS

LEMMA Products ==
  ASSUME NEW a \in Int, NEW b \in Int
  PROVE  a * b \in Int
  OBVIOUS

\* The number of i for which i * s still lies in 0 .. n - 1.
LEMMA Steps ==
  ASSUME NEW n \in Nat \ {0}, NEW s \in Nat \ {0}, NEW i \in Nat
  PROVE  i * s <= n - 1 <=> i < (n - 1) \div s + 1
<1> DEFINE q == (n - 1) \div s
<1>1. q \in Nat /\ q * s <= n - 1 /\ n - 1 < (q + 1) * s
  BY DivFacts
<1> HIDE DEF q
<1>2. ASSUME i <= q PROVE i * s <= n - 1
  BY <1>1, <1>2, TimesMonotone
<1>3. ASSUME q + 1 <= i PROVE n - 1 < i * s
  BY <1>1, <1>3, TimesMonotone
<1>4. i <= q \/ q + 1 <= i
  BY <1>1
<1>5. i * s \in Nat
  OBVIOUS
<1> QED BY <1>1, <1>2, <1>3, <1>4, <1>5 DEF q

\* Column j of line h of a buffer with H lines of w columns.
LEMMA PosInBuffer ==
  ASSUME NEW w \in Nat, NEW H \in Nat, NEW h \in 0 .. H - 1, NEW j \in 0 .. w - 1
  PROVE  h * w + j \in 0 .. w * H - 1
<1>1. (h + 1) * w <= H * w
  BY TimesMonotone
<1>2. (h + 1) * w = h * w + w /\ h * w \in Nat /\ H * w = w * H /\ w * H \in Nat
  OBVIOUS
<1> QED BY <1>1, <1>2

LEMMA RasterFacts ==
  ASSUME NEW r \in Rasters
  PROVE  /\ r.sw \in Nat \ {0} /\ r.sh \in Nat \ {0}
         /\ r.sx \in Nat \ {0} /\ r.sy \in Nat \ {0}
         /\ r # NoRaster
         /\ RasterWidth(r) \in Nat \ {0} /\ RasterHeight(r) \in Nat \ {0}
         /\ LinePixels(r) = RasterWidth(r)
         /\ NumElems(r) \in Nat
<1>1. /\ r.sw \in Nat \ {0} /\ r.sh \in Nat \ {0}
      /\ r.sx \in Nat \ {0} /\ r.sy \in Nat \ {0}
      /\ r # NoRaster
  BY RastersAssumption DEF Sizes
<1>2. (r.sw - 1) \div r.sx \in Nat /\ (r.sh - 1) \div r.sy \in Nat
  BY <1>1, DivFacts
<1>3. RasterWidth(r) \in Nat \ {0} /\ RasterHeight(r) \in Nat \ {0}
  BY <1>2 DEF RasterWidth, RasterHeight
<1>4. NumElems(r) \in Nat
  BY <1>3 DEF NumElems
<1>5. LinePixels(r) = RasterWidth(r)
  BY DEF LinePixels, RasterWidth
<1> QED BY <1>1, <1>3, <1>4, <1>5

LEMMA BandFacts ==
  ASSUME NEW b \in Bands
  PROVE  /\ b.inst \in {"MER", "ATS", "ASA", "other"}
         /\ b.width \in Nat \ {0} /\ b.height \in Nat /\ b.lines \in Nat \ {0}
         /\ b.samples \in Nat \ {0} /\ b.gridRecs \in Nat
         /\ b.numElems \in Nat /\ b.numElems >= 2 /\ b.numDsr \in Nat
         /\ b.mirrored \in BOOLEAN /\ b.longitude \in BOOLEAN
         /\ b.c \in Int /\ b.dx \in Int /\ b.dy \in Int
  BY BandsAssumption DEF BandType

\* The steps of a grid: of whole pixels, and between samples at least one.
LEMMA GridFacts ==
  ASSUME NEW b \in Bands, ~GridCrash(b)
  PROVE  /\ LinesPerTie(b) \in Nat
         /\ SamplesPerTie(b) \in Nat \ {0}
         /\ ScanX(b) \in Int /\ ScanY(b) \in Int
         /\ StepX(b) \in Nat \ {0} /\ StepY(b) \in Nat
<1>1. LinesPerTie(b) \in Nat
  <2>1. CASE b.inst = "ASA" /\ b.gridRecs # 0
    <3>1. b.gridRecs - 1 \in Nat \ {0} /\ b.height \in Nat
      BY <2>1, BandFacts DEF GridCrash
    <3>2. b.height \div (b.gridRecs - 1) \in Nat
      BY <3>1, NatQuotient
    <3> QED BY <2>1, <3>2 DEF LinesPerTie
  <2>2. CASE ~(b.inst = "ASA" /\ b.gridRecs # 0)
    BY <2>2, BandFacts DEF LinesPerTie
  <2> QED BY <2>1, <2>2
<1>2. SamplesPerTie(b) \in Nat \ {0}
  <2>1. CASE b.inst = "ASA"
    <3>1. b.width \in Nat /\ b.width >= 10
      BY <2>1, BandsAssumption, BandFacts DEF AsarLocat
    <3>2. b.width \div 10 \in Int /\ b.width < ((b.width \div 10) + 1) * 10
      BY <3>1, DivFacts
    <3>3. b.width \div 10 >= 1
      BY <3>1, <3>2
    <3> QED BY <2>1, <3>2, <3>3 DEF SamplesPerTie, AsarLocat
  <2>2. CASE b.inst # "ASA"
    BY <2>2, BandFacts DEF SamplesPerTie
  <2> QED BY <2>1, <2>2
<1>3. ScanX(b) \in Int /\ ScanY(b) \in Int
  BY BandFacts DEF ScanX, ScanY
<1> QED BY <1>1, <1>2, <1>3 DEF StepX, StepY

LEMMA TieLineType ==
  ASSUME NEW b \in Bands, NEW r \in Nat
  PROVE  TieLine(b, r) \in [0 .. b.numElems - 1 -> Int]
<1>1. ASSUME NEW e \in 0 .. b.numElems - 1
      PROVE  b.c + b.dx * e + b.dy * r \in Int
  <2>1. b.dx * e \in Int /\ b.dy * r \in Int
    BY BandFacts, Products
  <2> QED BY <2>1, BandFacts
<1>2. ASSUME NEW v \in Int PROVE Wrapped(v) \in Int
  BY DEF Wrapped, Half, Circle
<1> QED BY <1>1, <1>2 DEF TieLine

-----------------------------------------------------------------------------
(***************************************************************************)
(* The inductive invariant.                                                *)
(***************************************************************************)

Reading == pc \in {"lines", "pixels", "mirror"}
Looping == pc \in {"lines", "pixels"}

\* Before the first line the locals are as declared.
Unset ==
  pc \in {"idle", "checks"} =>
    /\ iY = 0 /\ pos = 0
    /\ recBeg = NoRecord /\ recEnd = NoRecord
    /\ begOld = Sentinel /\ endOld = Sentinel
    /\ lineBeg = << >> /\ lineEnd = << >>

\* What the checks leave: a grid with records and steps that are not 0.
Checked ==
  /\ pc # "idle" => call \in Calls /\ raster \in Rasters
  /\ Reading => ~GridCrash(Band) /\ Band.numDsr >= 1 /\ StepY(Band) # 0

\* The line at hand is line h of the raster, and pos is where it begins.
PlacedAt(h) == iY = call.oy + h * raster.sy /\ pos = h * RasterWidth(raster)
Placed == Looping => \E h \in Nat : PlacedAt(h)

\* No record is held yet, or two neighbours, those the old values name.
NoneHeld ==
  /\ recBeg = NoRecord /\ recEnd = NoRecord
  /\ begOld = Sentinel /\ endOld = Sentinel
TwoHeld ==
  /\ recBeg = begOld /\ recEnd = endOld
  /\ endOld = begOld + 1
  /\ endOld < Band.numDsr
Held == Looping => NoneHeld \/ TwoHeld

\* While a line is decoded, the records held are those of this line.
Decoding ==
  pc = "pixels" =>
    /\ MoreLines
    /\ TwoHeld
    /\ begOld = FirstLine(iY)
    /\ lineBeg \in [0 .. Band.numElems - 1 -> Int]
    /\ lineEnd \in [0 .. Band.numElems - 1 -> Int]

IInv == TypeOK /\ Unset /\ Checked /\ Placed /\ Held /\ Decoding /\ CrashCauses

LEMMA CallFacts ==
  ASSUME NEW c \in Calls
  PROVE  c.band \in Bands /\ c.ox \in Nat /\ c.oy \in Nat
  BY OffsetsAssumption DEF Calls

\* What the check of the bounds says about the grid.
LEMMA BoxFacts ==
  ASSUME call \in Calls, raster \in Rasters, ~GridCrash(Band), InBox(call)
  PROVE  Band.numDsr >= 1 /\ StepY(Band) # 0
<1> DEFINE n == Band.numDsr
           l == LinesPerTie(Band)
<1>1. n \in Nat /\ l \in Nat
  BY CallFacts, BandFacts, GridFacts DEF Band
<1>2. n * l >= 1
  <2>1. call.oy \in Nat /\ RasterHeight(raster) \in Nat \ {0}
    BY CallFacts, RasterFacts
  <2>2. call.oy + RasterHeight(raster) <= n * l
    BY DEF InBox, Band
  <2>3. n * l \in Int
    BY <1>1, Products
  <2> QED BY <2>1, <2>2, <2>3
<1> HIDE DEF n, l
<1>3. n # 0 /\ l # 0
  BY <1>1, <1>2
<1> QED BY <1>1, <1>3 DEF n, l, StepY

\* The tie-point line before a line of the scene.
LEMMA FirstLineFacts ==
  ASSUME call \in Calls, ~GridCrash(Band), Band.numDsr >= 1, StepY(Band) # 0, NEW y \in Nat
  PROVE  /\ FirstLine(y) \in Nat
         /\ Band.numDsr >= 2 => FirstLine(y) <= Band.numDsr - 2
         /\ FirstLine(y) * StepY(Band) <= LinePos(y) \/ FirstLine(y) = 0
         /\ \/ LinePos(y) < (FirstLine(y) + 1) * StepY(Band)
            \/ Band.numDsr >= 2 /\ FirstLine(y) + 1 = Band.numDsr - 1
         /\ LinePos(y) \in Int
<1> DEFINE p == LinePos(y)
           s == StepY(Band)
           l == p \div s
           n == Band.numDsr
<1>1. n \in Nat /\ n >= 1 /\ s \in Nat \ {0} /\ p \in Int
  BY CallFacts, BandFacts, GridFacts DEF Band, LinePos
<1>2. l \in Int /\ l * s <= p /\ p < (l + 1) * s
  BY <1>1, DivFacts
<1>3. FirstLine(y) = IF l < 0 THEN 0 ELSE IF n >= 2 /\ l > n - 2 THEN n - 2 ELSE l
  BY DEF FirstLine
<1> HIDE DEF p, s, l, n
<1>4. CASE l < 0
  <2>1. (l + 1) * s <= 1 * s
    BY <1>1, <1>2, <1>4, TimesMonotone
  <2>2. p < (0 + 1) * s
    BY <1>1, <1>2, <2>1, Products
  <2> QED BY <1>1, <1>3, <1>4, <2>2 DEF p, s, n
<1>5. CASE l >= 0 /\ n >= 2 /\ l > n - 2
  <2>1. (n - 2) * s <= l * s
    BY <1>1, <1>2, <1>5, TimesMonotone
  <2>2. (n - 2) * s <= p
    BY <1>1, <1>2, <2>1, Products
  <2> QED BY <1>1, <1>2, <1>3, <1>5, <2>2 DEF p, s, n
<1>6. CASE l >= 0 /\ ~(n >= 2 /\ l > n - 2)
  BY <1>1, <1>2, <1>3, <1>6 DEF p, s, n
<1> QED BY <1>2, <1>4, <1>5, <1>6

\* The tie point before a sample of a line.
LEMMA KnotFacts ==
  ASSUME call \in Calls, raster \in Rasters, ~GridCrash(Band), k \in Nat
  PROVE  Knot \in 0 .. Band.numElems - 2 /\ SamplePos \in Int
<1>1. Sample \in Int
  <2>1. k * raster.sx \in Int
    BY RasterFacts, Products
  <2>2. OffsetMirrored(raster, call.ox, Band.width) \in Int
    <3>1. (RasterWidth(raster) - 1) * raster.sx \in Int
      BY RasterFacts, Products
    <3> QED BY <3>1, CallFacts, BandFacts, RasterFacts DEF OffsetMirrored, Band
  <2> QED BY <2>1, <2>2, CallFacts DEF Sample
<1>2. SamplePos \in Int /\ StepX(Band) \in Nat \ {0}
  BY <1>1, CallFacts, GridFacts DEF SamplePos, Band
<1>3. Band.numElems \in Nat /\ Band.numElems >= 2
  BY CallFacts, BandFacts DEF Band
<1>4. SamplePos >= 0 => SamplePos \div StepX(Band) \in Nat
  BY <1>2, DivFacts
<1> QED BY <1>2, <1>3, <1>4 DEF Knot

\* Interpolation of integers is integer, at its scale.
LEMMA InterpolatedType ==
  ASSUME call \in Calls, ~GridCrash(Band),
         NEW n \in Nat, NEW lb \in [0 .. n - 1 -> Int], NEW le \in [0 .. n - 1 -> Int],
         NEW e \in 0 .. n - 2, NEW x \in Int, NEW y \in Int
  PROVE  Interpolated(lb, le, e, x, y) \in Int
<1>1. lb[e] \in Int /\ lb[e + 1] \in Int /\ le[e] \in Int /\ le[e + 1] \in Int
  OBVIOUS
<1>2. StepX(Band) \in Int /\ StepY(Band) \in Int
  BY CallFacts, GridFacts DEF Band
<1>3. /\ lb[e] * StepX(Band) \in Int /\ x * StepY(Band) \in Int
      /\ y * StepX(Band) \in Int /\ x * y \in Int
  BY <1>1, <1>2, Products
<1>4. lb[e + 1] - lb[e] \in Int /\ le[e] - lb[e] \in Int /\ le[e + 1] + lb[e] - le[e] - lb[e + 1] \in Int
  BY <1>1
<1>5. /\ lb[e] * StepX(Band) * StepY(Band) \in Int
      /\ x * StepY(Band) * (lb[e + 1] - lb[e]) \in Int
      /\ y * StepX(Band) * (le[e] - lb[e]) \in Int
      /\ x * y * (le[e + 1] + lb[e] - le[e] - lb[e + 1]) \in Int
  BY <1>2, <1>3, <1>4, Products
<1> QED BY <1>5 DEF Interpolated

-----------------------------------------------------------------------------
(***************************************************************************)
(* Every action preserves the invariant.                                   *)
(***************************************************************************)

LEMMA InitIInv == Init => IInv
<1> SUFFICES ASSUME Init PROVE IInv
  OBVIOUS
<1>1. TypeOK
  BY SentinelAssumption DEF Init, TypeOK
<1> QED BY <1>1 DEF Init, IInv, Unset, Checked, Reading, Placed, Looping, Held, Decoding, CrashCauses

LEMMA CreateRasterIInv == ASSUME IInv, NEW r \in Rasters, CreateRaster(r) PROVE IInv'
<1>1. r # NoRaster /\ NumElems(r) \in Nat
  BY RasterFacts
<1>2. TypeOK'
  BY <1>1 DEF IInv, TypeOK, CreateRaster, local, Band
<1> QED BY <1>2 DEF IInv, Unset, Checked, Reading, Placed, Looping, Held, Decoding,
                    CrashCauses, CreateRaster, Idle, local

LEMMA FreeRasterIInv == ASSUME IInv, FreeRaster PROVE IInv'
<1>1. lineBeg' = << >> /\ lineEnd' = << >> /\ pc' = "idle"
  BY DEF IInv, Unset, FreeRaster, Idle, local
<1>2. TypeOK'
  BY <1>1 DEF IInv, TypeOK, FreeRaster, local
<1> QED BY <1>1, <1>2 DEF IInv, Unset, Checked, Reading, Placed, Looping, Held, Decoding,
                          CrashCauses, FreeRaster, Idle, local

LEMMA ReadBandRasterIInv ==
  ASSUME IInv, NEW c \in Calls, ReadBandRaster(c) PROVE IInv'
<1>1. lineBeg' = << >> /\ lineEnd' = << >> /\ pc' = "checks"
  BY DEF IInv, Unset, ReadBandRaster, Idle, local
<1>2. TypeOK'
  BY <1>1 DEF IInv, TypeOK, ReadBandRaster, local
<1>3. Checked'
  BY <1>1 DEF IInv, TypeOK, Checked, Reading, ReadBandRaster
<1> QED BY <1>1, <1>2, <1>3 DEF IInv, Unset, Placed, Looping, Held, Decoding,
                          CrashCauses, ReadBandRaster, Idle, local

\* A read that returns: the locals are as declared again.
LEMMA ReturnIInv ==
  ASSUME IInv, NEW code \in {"none", "file_read_error"}, Return(code),
         UNCHANGED <<raster, buf, call, reads>>
  PROVE  IInv'
<1>1. TypeOK'
  BY SentinelAssumption DEF IInv, TypeOK, Return
<1> QED BY <1>1 DEF IInv, Unset, Checked, Reading, Placed, Looping, Held, Decoding,
                    CrashCauses, Return

\* The process ends, with a cause.
LEMMA CrashIInv ==
  ASSUME IInv, call \in Calls, raster \in Rasters, Crash,
         recBeg' \in Nat \cup {NoRecord}, recEnd' \in Nat \cup {NoRecord},
         begOld' \in Nat, endOld' \in Nat, failed' \in BOOLEAN,
         failed' \/ Band.numDsr = 1 \/ Band.numDsr > Sentinel \/ GridCrash(Band)
  PROVE  IInv'
<1>1. pc' = "crash" /\ Band' = Band
  BY DEF Crash, Band
<1>2. TypeOK'
  BY <1>1 DEF IInv, TypeOK, Crash
<1>3. CrashCauses'
  BY <1>1 DEF CrashCauses
<1>4. Checked'
  BY <1>1 DEF Checked, Reading, Crash
<1> QED BY <1>1, <1>2, <1>3, <1>4 DEF IInv, Unset, Placed, Looping, Held, Decoding

LEMMA CheckCallIInv == ASSUME IInv, CheckCall PROVE IInv'
<1>1. /\ pc = "checks" /\ call \in Calls /\ raster \in Rasters
      /\ recBeg = NoRecord /\ recEnd = NoRecord /\ begOld \in Nat /\ endOld \in Nat
      /\ failed \in BOOLEAN
  BY DEF CheckCall, IInv, TypeOK, Unset, Checked
<1>2. CASE Crash /\ failed' = TRUE /\ UNCHANGED <<recBeg, recEnd, begOld, endOld>>
  BY <1>1, <1>2, CrashIInv
<1>3. CASE GridCrash(Band) /\ Crash /\ UNCHANGED <<recBeg, recEnd, begOld, endOld, failed>>
  BY <1>1, <1>3, CrashIInv
<1>4. CASE Fail
  BY <1>4, ReturnIInv DEF Fail
<1>5. CASE /\ ~GridCrash(Band) /\ Known(Band) /\ InBox(call) /\ Band.float
           /\ pc' = "lines"
           /\ iY' = call.oy
           /\ UNCHANGED <<raster, buf, call, pos, recBeg, recEnd, begOld, endOld,
                          lineBeg, lineEnd, k, inter, row, failed, last, reads>>
  <2>1. Band' = Band /\ call.oy \in Nat /\ pos = 0 /\ NoneHeld
    BY <1>1, <1>5, CallFacts DEF Band, IInv, Unset, NoneHeld
  <2>2. TypeOK'
    BY <1>5, <2>1 DEF IInv, TypeOK
  <2>3. Checked'
    BY <1>1, <1>5, <2>1, BoxFacts DEF Checked, Reading
  <2>4. Placed'
    <3>1. 0 * raster.sy = 0 /\ 0 * RasterWidth(raster) = 0
      BY <1>1, RasterFacts
    <3>2. PlacedAt(0)'
      BY <1>5, <2>1, <3>1 DEF PlacedAt
    <3> QED BY <3>2 DEF Placed
  <2>5. Held'
    BY <1>5, <2>1 DEF Held, NoneHeld
  <2> QED BY <1>5, <2>2, <2>3, <2>4, <2>5 DEF IInv, Unset, Decoding, CrashCauses
<1> QED BY <1>2, <1>3, <1>4, <1>5 DEF CheckCall

LEMMA LinesDoneIInv == ASSUME IInv, LinesDone PROVE IInv'
<1>1. CASE Return("none")
  BY <1>1, ReturnIInv DEF LinesDone
<1>2. CASE pc' = "mirror" /\ UNCHANGED <<local, last>>
  <2>1. /\ UNCHANGED <<raster, buf, call, local, last, reads>>
        /\ pc = "lines" /\ pc' = "mirror" /\ Band' = Band
    BY <1>2 DEF LinesDone, Band
  <2>2. TypeOK'
    BY <2>1 DEF IInv, TypeOK, local
  <2>3. Checked'
    BY <2>1 DEF IInv, Checked, Reading
  <2> QED BY <2>1, <2>2, <2>3 DEF IInv, Unset, Placed, Looping, Held, Decoding, CrashCauses
<1> QED BY <1>1, <1>2 DEF LinesDone

LEMMA MirrorDoneIInv == ASSUME IInv, MirrorDone PROVE IInv'
  BY ReturnIInv DEF MirrorDone

LEMMA MirrorLineIInv == ASSUME IInv, MirrorLine PROVE IInv'
<1>1. /\ pc = "mirror" /\ pc' = "mirror" /\ Band' = Band /\ raster \in Rasters
      /\ raster # NoRaster /\ row' \in Nat
  BY RasterFacts DEF MirrorLine, NextRow, Band, IInv, TypeOK, Checked
<1>2. buf' \in [0 .. NumElems(raster) - 1 -> Int]
  <2> DEFINE w == RasterWidth(raster)
             D == 0 .. NumElems(raster) - 1
             start == row * w
             end == start + w - 1
  <2>1. buf \in [D -> Int] /\ w \in Nat \ {0} /\ start \in Nat
    BY <1>1, RasterFacts DEF IInv, TypeOK
  <2>2. row \in 0 .. RasterHeight(raster) - 1 /\ RasterHeight(raster) \in Nat
    BY <1>1, RasterFacts DEF IInv, TypeOK, MirrorLine
  <2>3. ASSUME NEW i \in start .. end PROVE start + end - i \in D
    <3>1. end - i \in 0 .. w - 1 /\ start + end - i = row * w + (end - i)
      BY <2>1
    <3>2. row * w + (end - i) \in 0 .. w * RasterHeight(raster) - 1
      BY <2>1, <2>2, <3>1, PosInBuffer
    <3> QED BY <3>1, <3>2 DEF NumElems
  <2>4. buf' = [i \in D |-> IF i \in start .. end THEN buf[start + end - i] ELSE buf[i]]
    BY <2>1 DEF MirrorLine, LineReversed
  <2> HIDE DEF w, D, start, end
  <2> QED BY <2>1, <2>3, <2>4 DEF D
<1>3. TypeOK'
  BY <1>1, <1>2 DEF IInv, TypeOK, MirrorLine
<1>4. Checked'
  BY <1>1 DEF IInv, Checked, Reading, MirrorLine
<1> QED BY <1>1, <1>3, <1>4 DEF IInv, Unset, Placed, Looping, Held, Decoding, CrashCauses, MirrorLine

LEMMA LineDoneIInv == ASSUME IInv, LineDone PROVE IInv'
<1>1. /\ pc = "pixels" /\ pc' = "lines" /\ Band' = Band
      /\ raster \in Rasters /\ call \in Calls /\ TwoHeld
      /\ iY \in Nat /\ pos \in Nat /\ iY' = iY + raster.sy /\ pos' = pos + RasterWidth(raster)
  BY RasterFacts DEF LineDone, Band, IInv, TypeOK, Checked, Decoding
<1>2. PICK h \in Nat : PlacedAt(h)
  BY <1>1 DEF IInv, Placed, Looping
<1>3. PlacedAt(h + 1)'
  <2>1. call.oy \in Nat /\ raster.sy \in Nat /\ RasterWidth(raster) \in Nat
    BY <1>1, CallFacts, RasterFacts
  <2>2. /\ (h + 1) * raster.sy = h * raster.sy + raster.sy
        /\ (h + 1) * RasterWidth(raster) = h * RasterWidth(raster) + RasterWidth(raster)
        /\ h * raster.sy \in Nat /\ h * RasterWidth(raster) \in Nat
    BY <2>1
  <2>3. raster' = raster /\ call' = call
    BY DEF LineDone
  <2>4. iY' = call.oy + (h + 1) * raster.sy /\ pos' = (h + 1) * RasterWidth(raster)
    BY <1>1, <1>2, <2>1, <2>2 DEF PlacedAt
  <2> QED BY <2>3, <2>4 DEF PlacedAt
<1>4. TypeOK'
  <2>1. raster.sy \in Nat /\ RasterWidth(raster) \in Nat
    BY <1>1, RasterFacts
  <2>2. iY' \in Nat /\ pos' \in Nat
    BY <1>1, <2>1
  <2> QED BY <1>1, <2>2 DEF IInv, TypeOK, LineDone
<1>5. Checked'
  BY <1>1 DEF IInv, Checked, Reading, LineDone
<1>6. Held'
  BY <1>1 DEF Held, TwoHeld, LineDone
<1> QED BY <1>1, <1>3, <1>4, <1>5, <1>6 DEF IInv, Unset, Placed, Decoding, CrashCauses

\* What a pixel changes: the lines keep their domain, the buffer its.
LEMMA DecodePixelType ==
  ASSUME IInv, DecodePixel
  PROVE  /\ lineBeg' \in [0 .. Band.numElems - 1 -> Int]
         /\ lineEnd' \in [0 .. Band.numElems - 1 -> Int]
         /\ inter' \in BOOLEAN
         /\ buf' \in [0 .. NumElems(raster) - 1 -> Int]
<1> DEFINE D == 0 .. Band.numElems - 1
           lift == Band.longitude /\ Crosses(Knot)
           lb == IF lift THEN Lifted(lineBeg, Knot) ELSE lineBeg
           le == IF lift THEN Lifted(lineEnd, Knot) ELSE lineEnd
           x == SamplePos - Knot * StepX(Band)
           y == LinePos(iY) - recBeg * StepY(Band)
           v == Interpolated(lb, le, Knot, x, y)
<1>1. /\ pc = "pixels" /\ call \in Calls /\ raster \in Rasters /\ raster # NoRaster
      /\ ~GridCrash(Band) /\ Band \in Bands /\ k \in Nat /\ recBeg \in Nat /\ iY \in Nat
      /\ lineBeg \in [D -> Int] /\ lineEnd \in [D -> Int] /\ inter \in BOOLEAN
      /\ buf \in [0 .. NumElems(raster) - 1 -> Int]
  BY RasterFacts, CallFacts
     DEF DecodePixel, IInv, TypeOK, Checked, Reading, Decoding, TwoHeld, Band
<1>2. ASSUME NEW l \in [D -> Int], NEW e \in Int PROVE Lifted(l, e) \in [D -> Int]
  BY DEF Lifted, Circle
<1>3. Knot \in 0 .. Band.numElems - 2 /\ SamplePos \in Int /\ Band.numElems \in Nat
  BY <1>1, KnotFacts, BandFacts
<1>4. lb \in [D -> Int] /\ le \in [D -> Int]
  BY <1>1, <1>2, <1>3
<1>5. x \in Int /\ y \in Int
  <2>1. StepX(Band) \in Int /\ StepY(Band) \in Int /\ ScanY(Band) \in Int
    BY <1>1, GridFacts
  <2>2. Knot * StepX(Band) \in Int /\ recBeg * StepY(Band) \in Int
    BY <1>1, <1>3, <2>1, Products
  <2> QED BY <1>1, <1>3, <2>1, <2>2 DEF LinePos
<1>6. v \in Int
  <2> HIDE DEF lb, le, x, y, lift
  <2> QED BY <1>1, <1>3, <1>4, <1>5, InterpolatedType
<1>7. Circle * Scale(Band) \in Int
  <2>1. StepX(Band) \in Int /\ StepY(Band) \in Int
    BY <1>1, GridFacts
  <2>2. Scale(Band) \in Int
    BY <2>1, Products DEF Scale
  <2> QED BY <2>2, Products DEF Circle
<1>8. /\ lineBeg' = lb /\ lineEnd' = le /\ inter' = (inter \/ lift)
      /\ buf' = [buf EXCEPT ![pos + k] =
                   IF inter' /\ v > Half * Scale(Band) THEN v - Circle * Scale(Band) ELSE v]
  BY DEF DecodePixel
<1>9. inter' \in BOOLEAN
  BY <1>8
<1> HIDE DEF lb, le, v, lift, D
<1>10. (IF inter' /\ v > Half * Scale(Band) THEN v - Circle * Scale(Band) ELSE v) \in Int
  BY <1>6, <1>7
<1> QED BY <1>1, <1>4, <1>8, <1>9, <1>10 DEF D

LEMMA DecodePixelIInv == ASSUME IInv, DecodePixel PROVE IInv'
<1>1. /\ pc = "pixels" /\ pc' = "pixels" /\ call' = call /\ Band' = Band
      /\ UNCHANGED <<raster, iY, pos, recBeg, recEnd, begOld, endOld, row, failed, last, reads>>
      /\ raster \in Rasters /\ raster # NoRaster /\ k' \in Nat
  BY RasterFacts DEF DecodePixel, Band, IInv, TypeOK, Checked
<1>2. TypeOK'
  BY <1>1, DecodePixelType DEF IInv, TypeOK
<1>3. Checked'
  BY <1>1 DEF IInv, Checked, Reading
<1>4. Placed'
  BY <1>1 DEF IInv, Placed, Looping, PlacedAt
<1>5. TwoHeld'
  BY <1>1 DEF IInv, Decoding, TwoHeld
<1>6. MoreLines' /\ begOld' = FirstLine(iY)'
  BY <1>1 DEF IInv, Decoding, MoreLines, FirstLine, LinePos
<1>7. Decoding'
  BY <1>1, <1>5, <1>6, DecodePixelType DEF Decoding
<1> QED BY <1>1, <1>2, <1>3, <1>4, <1>5, <1>7 DEF IInv, Unset, Held, CrashCauses

\* A record that is not read anew, or was read, is the one asked for; one that
\* is missing has a cause.
LEMMA ReadLinesFacts ==
  ASSUME IInv, ReadLines, NEW y, y = FirstLine(iY)
  PROVE  /\ y \in Nat
         /\ recBeg' \in {y, NoRecord} /\ recEnd' \in {y + 1, NoRecord}
         /\ recEnd' = y + 1 => y + 1 < Band.numDsr
         /\ NoRecord \in {recBeg', recEnd'} =>
              failed' \/ Band.numDsr = 1 \/ Band.numDsr > Sentinel
<1> DEFINE n == Band.numDsr
<1>1. /\ pc = "lines" /\ call \in Calls /\ ~GridCrash(Band) /\ n >= 1 /\ StepY(Band) # 0
      /\ iY \in Nat /\ begOld \in Nat /\ endOld \in Nat
      /\ NoneHeld \/ TwoHeld
  BY DEF ReadLines, IInv, TypeOK, Checked, Reading, Held, Looping
<1>2. n \in Nat /\ Sentinel \in Nat
  BY <1>1, CallFacts, BandFacts, SentinelAssumption DEF Band
<1>3. y \in Nat /\ (n >= 2 => y <= n - 2)
  BY <1>1, FirstLineFacts
<1>4. /\ recBeg' \in IF Changed(begOld, y) THEN RecordsRead(y) ELSE {recBeg}
      /\ recEnd' \in IF Changed(endOld, y + 1) THEN RecordsRead(y + 1) ELSE {recEnd}
      /\ failed' = \/ Changed(begOld, y) /\ recBeg' = NoRecord /\ y < n
                   \/ Changed(endOld, y + 1) /\ recEnd' = NoRecord /\ y + 1 < n
  BY DEF ReadLines
<1>5. \A r : RecordsRead(r) = IF r < n THEN {r, NoRecord} ELSE {NoRecord}
  BY DEF RecordsRead
<1>6. NoRecord = -1
  BY DEF NoRecord
<1> HIDE DEF n
<1>7. CASE NoneHeld
  BY <1>1, <1>2, <1>3, <1>4, <1>5, <1>6, <1>7 DEF NoneHeld, Changed, n
<1>8. CASE TwoHeld
  BY <1>1, <1>2, <1>3, <1>4, <1>5, <1>6, <1>8 DEF TwoHeld, Changed, n
<1> QED BY <1>1, <1>7, <1>8

LEMMA ReadLinesIInv == ASSUME IInv, ReadLines PROVE IInv'
<1> DEFINE y == FirstLine(iY)
<1>1. /\ pc = "lines" /\ call \in Calls /\ raster \in Rasters /\ MoreLines
      /\ begOld' = y /\ endOld' = y + 1 /\ failed' \in BOOLEAN
  BY DEF ReadLines, IInv, Checked
<1>2. /\ y \in Nat
      /\ recBeg' \in {y, NoRecord} /\ recEnd' \in {y + 1, NoRecord}
      /\ recEnd' = y + 1 => y + 1 < Band.numDsr
      /\ NoRecord \in {recBeg', recEnd'} =>
           failed' \/ Band.numDsr = 1 \/ Band.numDsr > Sentinel
  BY ReadLinesFacts
<1>3. CASE NoRecord \in {recBeg', recEnd'}
  <2>1. Crash
    BY <1>3 DEF ReadLines
  <2> HIDE DEF y
  <2> QED BY <1>1, <1>2, <1>3, <2>1, CrashIInv
<1>4. CASE NoRecord \notin {recBeg', recEnd'}
  <2>1. /\ lineBeg' = TieLine(Band, recBeg') /\ lineEnd' = TieLine(Band, recEnd')
        /\ pc' = "pixels" /\ k' = 0 /\ inter' = FALSE
        /\ UNCHANGED <<raster, buf, call, iY, pos, row, last, reads>>
    BY <1>4 DEF ReadLines
  <2>2. Band' = Band /\ Band \in Bands
    BY <1>1, <2>1, CallFacts DEF Band
  <2>3. recBeg' = y /\ recEnd' = y + 1
    BY <1>2, <1>4
  <2>4. /\ lineBeg' \in [0 .. Band.numElems - 1 -> Int]
        /\ lineEnd' \in [0 .. Band.numElems - 1 -> Int]
    <3> HIDE DEF y
    <3> QED BY <1>2, <2>1, <2>2, <2>3, TieLineType
  <2>5. MoreLines' /\ y = FirstLine(iY)'
    BY <1>1, <2>1, <2>2 DEF MoreLines, FirstLine, LinePos
  <2> HIDE DEF y
  <2>6. TypeOK'
    <3>1. /\ recBeg' \in Nat /\ recEnd' \in Nat /\ begOld' \in Nat /\ endOld' \in Nat
          /\ k' \in Nat /\ inter' \in BOOLEAN
      <4>1. y + 1 \in Nat
        BY <1>2
      <4>2. begOld' = y /\ endOld' = y + 1
        BY <1>1
      <4> QED BY <1>2, <2>1, <2>3, <4>1, <4>2
    <3>2. /\ raster' \in Rasters \cup {NoRaster} /\ call' \in Calls \cup {NoCall}
          /\ IF raster' = NoRaster THEN buf' = << >> ELSE buf' \in [0 .. NumElems(raster') - 1 -> Int]
          /\ iY' \in Nat /\ pos' \in Nat /\ row' \in Nat /\ reads' \in Nat
          /\ last' \in {"unread", "none", "file_read_error"}
      BY <2>1 DEF IInv, TypeOK
    <3>3. /\ lineBeg' \in [0 .. Band'.numElems - 1 -> Int]
          /\ lineEnd' \in [0 .. Band'.numElems - 1 -> Int]
      BY <2>2, <2>4
    <3> QED BY <1>1, <2>1, <3>1, <3>2, <3>3 DEF TypeOK
  <2>7. Checked'
    BY <1>1, <2>1, <2>2 DEF IInv, Checked, Reading
  <2>8. Placed'
    BY <1>1, <2>1 DEF IInv, Placed, Looping, PlacedAt
  <2>9. TwoHeld'
    BY <1>1, <1>2, <2>2, <2>3 DEF TwoHeld
  <2>10. Decoding'
    BY <1>1, <2>2, <2>4, <2>5, <2>9 DEF Decoding
  <2> QED BY <2>1, <2>6, <2>7, <2>8, <2>9, <2>10 DEF IInv, Unset, Held, CrashCauses
<1> QED BY <1>3, <1>4

LEMMA StutterIInv == ASSUME IInv, UNCHANGED vars PROVE IInv'
<1>1. /\ UNCHANGED <<raster, buf, pc, call, last, reads>>
      /\ UNCHANGED <<iY, pos, recBeg, recEnd, begOld, endOld, lineBeg, lineEnd, k, inter, row, failed>>
      /\ Band' = Band
  BY DEF vars, local, Band
<1>2. TypeOK'
  BY <1>1 DEF IInv, TypeOK
<1>3. Decoding'
  BY <1>1 DEF IInv, Decoding, MoreLines, TwoHeld, FirstLine, LinePos
<1> QED BY <1>1, <1>2, <1>3
        DEF IInv, Unset, Checked, Reading, Placed, PlacedAt, Looping, Held, NoneHeld, TwoHeld, CrashCauses

\* The pixel at hand lies in its line, and the line in the raster.
LEMMA InRaster ==
  ASSUME IInv, pc = "pixels", MorePixels, NEW h \in Nat, PlacedAt(h)
  PROVE  /\ k \in 0 .. RasterWidth(raster) - 1
         /\ h \in 0 .. RasterHeight(raster) - 1
         /\ pos + k \in 0 .. NumElems(raster) - 1
<1>1. /\ call \in Calls /\ raster \in Rasters /\ raster # NoRaster /\ k \in Nat /\ MoreLines
  BY RasterFacts DEF IInv, TypeOK, Checked, Reading, Decoding
<1>2. k \in 0 .. RasterWidth(raster) - 1
  <2>1. k * raster.sx <= raster.sw - 1 <=> k < (raster.sw - 1) \div raster.sx + 1
    BY <1>1, RasterFacts, Steps
  <2>2. k < RasterWidth(raster)
    BY <2>1 DEF MorePixels, RasterWidth
  <2> QED BY <1>1, <2>2, RasterFacts
<1>3. h \in 0 .. RasterHeight(raster) - 1
  <2>1. h * raster.sy <= raster.sh - 1
    <3>1. call.oy + h * raster.sy < call.oy + raster.sh
      BY <1>1 DEF MoreLines, PlacedAt
    <3>2. h * raster.sy \in Int /\ call.oy \in Int /\ raster.sh \in Int
      BY <1>1, RasterFacts, CallFacts, Products
    <3> QED BY <3>1, <3>2
  <2>2. h * raster.sy <= raster.sh - 1 <=> h < (raster.sh - 1) \div raster.sy + 1
    BY <1>1, RasterFacts, Steps
  <2>3. h < RasterHeight(raster)
    BY <2>1, <2>2 DEF RasterHeight
  <2> QED BY <1>1, <2>3, RasterFacts
<1>4. h * RasterWidth(raster) + k \in 0 .. RasterWidth(raster) * RasterHeight(raster) - 1
  BY <1>1, <1>2, <1>3, RasterFacts, PosInBuffer
<1> QED BY <1>2, <1>3, <1>4 DEF PlacedAt, NumElems

-----------------------------------------------------------------------------
(***************************************************************************)
(* Theorems.                                                               *)
(***************************************************************************)

\* The inductive invariant holds in every state of every behaviour of a read
\* (epr_band.c:866-1068).
THEOREM Invariance == Spec => []IInv
<1>1. ASSUME IInv, [Next]_vars PROVE IInv'
  <2>1. CASE UNCHANGED vars
    BY <1>1, <2>1, StutterIInv
  <2>2. CASE CheckCall
    BY <1>1, <2>2, CheckCallIInv
  <2>3. CASE ReadLines
    BY <1>1, <2>3, ReadLinesIInv
  <2>4. CASE DecodePixel
    BY <1>1, <2>4, DecodePixelIInv
  <2>5. CASE LineDone
    BY <1>1, <2>5, LineDoneIInv
  <2>6. CASE LinesDone
    BY <1>1, <2>6, LinesDoneIInv
  <2>7. CASE MirrorLine
    BY <1>1, <2>7, MirrorLineIInv
  <2>8. CASE MirrorDone
    BY <1>1, <2>8, MirrorDoneIInv
  <2>9. ASSUME NEW r \in Rasters, CreateRaster(r) PROVE IInv'
    BY <1>1, <2>9, CreateRasterIInv
  <2>10. CASE FreeRaster
    BY <1>1, <2>10, FreeRasterIInv
  <2>11. ASSUME NEW c \in Calls, ReadBandRaster(c) PROVE IInv'
    BY <1>1, <2>11, ReadBandRasterIInv
  <2> QED BY <1>1, <2>1, <2>2, <2>3, <2>4, <2>5, <2>6, <2>7, <2>8, <2>9, <2>10, <2>11
          DEF Next, ReadStep
<1> QED BY <1>1, InitIInv, PTL DEF Spec

\* The variables of a tie-point read keep their types: the interpolation lines
\* always have the elements of the band, the buffer those of the raster.
THEOREM TypeCorrect == Spec => []TypeOK
<1>1. IInv => TypeOK
  BY DEF IInv
<1> QED BY <1>1, Invariance, PTL

\* Whatever records are kept from one raster line to the next (epr_band.c:1033,
\* 1041), a line is decoded with the two neighbours that bracket it.
THEOREM RecordsBracket == Spec => []Bracketed
<1>1. IInv => Bracketed
  <2> SUFFICES ASSUME IInv, pc = "pixels" PROVE Bracketed
    BY DEF Bracketed
  <2> DEFINE n == Band.numDsr
             s == StepY(Band)
             p == LinePos(iY)
  <2>1. /\ call \in Calls /\ ~GridCrash(Band) /\ n >= 1 /\ s # 0 /\ iY \in Nat /\ n \in Nat
    BY CallFacts, BandFacts DEF IInv, TypeOK, Checked, Reading, Band
  <2>2. /\ recBeg = FirstLine(iY) /\ recEnd = recBeg + 1 /\ recEnd < n
    BY DEF IInv, Decoding, TwoHeld
  <2>3. /\ recBeg * s <= p \/ recBeg = 0
        /\ p < (recBeg + 1) * s \/ recBeg + 1 = n - 1
    BY <2>1, <2>2, FirstLineFacts
  <2> HIDE DEF n, s, p
  <2>4. p < recEnd * s \/ recEnd = n - 1
    BY <2>2, <2>3
  <2> QED BY <2>2, <2>3, <2>4 DEF Bracketed, n, s, p
<1> QED BY <1>1, Invariance, PTL

\* A pixel is decoded only from elements the tie-point lines have and only into
\* the raster's buffer (epr_band.c:1624-1634), for offsets and steps that the
\* check of the bounds accepts, also those beyond the scene.
THEOREM KnotsInside == Spec => []KnotsInLine
<1>1. IInv => KnotsInLine
  <2> SUFFICES ASSUME IInv, pc = "pixels", MorePixels PROVE KnotsInLine
    BY DEF KnotsInLine
  <2>1. /\ call \in Calls /\ raster \in Rasters /\ raster # NoRaster /\ ~GridCrash(Band)
        /\ k \in Nat /\ MoreLines
        /\ DOMAIN buf = 0 .. NumElems(raster) - 1
    BY RasterFacts DEF IInv, TypeOK, Checked, Reading, Decoding
  <2>2. Knot \in 0 .. Band.numElems - 2
    BY <2>1, KnotFacts
  <2>3. PICK h \in Nat : PlacedAt(h)
    BY DEF IInv, Placed, Looping
  <2>4. pos + k \in DOMAIN buf
    BY <2>1, <2>3, InRaster
  <2> QED BY <2>2, <2>4 DEF KnotsInLine
<1> QED BY <1>1, Invariance, PTL

\* A read that ends the process met a record that could not be read
\* (epr_band.c:1034-1045, unchecked) or one of three data sets.
THEOREM CrashesHaveCauses == Spec => []CrashCauses
<1>1. IInv => CrashCauses
  BY DEF IInv
<1> QED BY <1>1, Invariance, PTL

-----------------------------------------------------------------------------
(***************************************************************************)
(* What a read shows.                                                      *)
(***************************************************************************)

\* The band has no longitudes, or lines that do not reach half round the globe.
Narrow == Band.longitude => Span(Band) < Half

\* The value of tie point e of record r, not taken round the circle.
Value(b, e, r) == b.c + b.dx * e + b.dy * r

\* The plane of a band at sample s, as the product stores it, of line y.
PlaneAt(b, s, y) ==
  b.c * Scale(b) + b.dx * (2 * s - ScanX(b)) * StepY(b) + b.dy * (2 * y - ScanY(b)) * StepX(b)

\* A value is the plane's, for a longitude up to whole circles.
Agrees(b, v, p) == IF b.longitude THEN \E t \in Int : v = p - t * (Circle * Scale(b)) ELSE v = p

\* The first sample that a line is decoded from, and the j-th.
FirstSample == IF Band.mirrored THEN OffsetMirrored(raster, call.ox, Band.width) ELSE call.ox
SampleAt(j) == FirstSample + j * raster.sx

\* Line l of tie points of record r lies between 0 and a circle once m circles
\* are taken off, and what is not lifted of it is a circle less.
LiftedBy(l, r, m) ==
  \A e \in 0 .. Band.numElems - 1 :
    LET u == Value(Band, e, r) - Circle * m
    IN  u \in 0 .. Circle - 1 /\ l[e] \in {u, u - Circle}

\* The tie-point lines are as they were read; or the date line was met, and with
\* it both lines lie in the same circle.
LinesHeld ==
  \/ ~inter /\ lineBeg = TieLine(Band, recBeg) /\ lineEnd = TieLine(Band, recEnd)
  \/ /\ inter /\ Band.longitude
     /\ \E m \in Int : LiftedBy(lineBeg, recBeg, m) /\ LiftedBy(lineEnd, recEnd, m)

\* Pixel j of line h shows the i-th sample of the line.
Shows(h, j, i) ==
  Agrees(Band, buf[h * RasterWidth(raster) + j], PlaneAt(Band, SampleAt(i), call.oy + h * raster.sy))

\* The lines before the one at hand are decoded.
LinesShown ==
  Looping => \E h \in Nat :
    /\ PlacedAt(h)
    /\ Narrow => \A g \in 0 .. h - 1, j \in 0 .. RasterWidth(raster) - 1 : Shows(g, j, j)

\* Of the line at hand the pixels before k are.
PixelsShown ==
  pc = "pixels" /\ Narrow =>
    /\ LinesHeld
    /\ \A j \in 0 .. k - 1 : Agrees(Band, buf[pos + j], PlaneAt(Band, SampleAt(j), iY))

\* The lines before row are turned round, the others are not.
Mirroring ==
  pc = "mirror" =>
    /\ Band.mirrored
    /\ row <= RasterHeight(raster)
    /\ Narrow => \A h \in 0 .. RasterHeight(raster) - 1, j \in 0 .. RasterWidth(raster) - 1 :
                   Shows(h, j, IF h < row THEN RasterWidth(raster) - 1 - j ELSE j)

\* Lines are turned round last, and a new raster has not been read.
Orderly ==
  /\ pc \in {"idle", "checks", "lines", "pixels"} => row = 0
  /\ raster = NoRaster => last = "unread"

PInv == Orderly /\ LinesShown /\ PixelsShown /\ Mirroring /\ PixelsCorrect

-----------------------------------------------------------------------------
(***************************************************************************)
(* Values at tie points, and between them.                                 *)
(***************************************************************************)

LEMMA WrappedFacts ==
  ASSUME NEW v \in Int
  PROVE  \E t \in Int : Wrapped(v) = v - Circle * t /\ Wrapped(v) \in -Half .. Half - 1
<1> DEFINE t == (v + 180) \div 360
<1>1. t \in Int /\ (v + 180) % 360 = (v + 180) - 360 * t /\ (v + 180) % 360 \in 0 .. 359
  OBVIOUS
<1> QED BY <1>1 DEF Wrapped, Half, Circle

LEMMA ValueType ==
  ASSUME NEW b \in Bands, NEW e \in Int, NEW r \in Int
  PROVE  Value(b, e, r) \in Int
  BY BandFacts, Products DEF Value

\* Neighbours differ by the slopes of the plane.
LEMMA ValueSteps ==
  ASSUME NEW b \in Bands, NEW e \in Int, NEW r \in Int
  PROVE  /\ Value(b, e + 1, r) = Value(b, e, r) + b.dx
         /\ Value(b, e, r + 1) = Value(b, e, r) + b.dy
         /\ Value(b, e + 1, r + 1) = Value(b, e, r) + b.dx + b.dy
<1> DEFINE c == b.c
           dx == b.dx
           dy == b.dy
<1>1. c \in Int /\ dx \in Int /\ dy \in Int
  BY BandFacts
<1>2. \A i, j : Value(b, i, j) = c + dx * i + dy * j
  BY DEF Value
<1> HIDE DEF c, dx, dy
<1>3. /\ dx * (e + 1) = dx * e + dx /\ dy * (r + 1) = dy * r + dy
      /\ dx * e \in Int /\ dy * r \in Int
  BY <1>1
<1>4. /\ c + dx * (e + 1) + dy * r = c + dx * e + dy * r + dx
      /\ c + dx * e + dy * (r + 1) = c + dx * e + dy * r + dy
      /\ c + dx * (e + 1) + dy * (r + 1) = c + dx * e + dy * r + dx + dy
  BY <1>1, <1>3
<1> QED BY <1>2, <1>4 DEF dx, dy

LEMMA MagnitudeFacts ==
  ASSUME NEW d \in Int, NEW n \in Nat, NEW i \in -n .. n
  PROVE  d * i <= Magnitude(d) * n /\ -(Magnitude(d) * n) <= d * i /\ Magnitude(d) \in Nat
<1>1. \A a \in Nat, x, y \in Int : x <= y => a * x <= a * y
  OBVIOUS
<1>2. CASE d >= 0
  <2>1. d * (-n) <= d * i /\ d * i <= d * n /\ d * (-n) = -(d * n)
    BY <1>1, <1>2
  <2> QED BY <1>2, <2>1 DEF Magnitude
<1>3. CASE d < 0
  <2>1. -d \in Nat
    BY <1>3
  <2>2. (-d) * (-n) <= (-d) * i /\ (-d) * i <= (-d) * n
    BY <1>1, <2>1
  <2>3. (-d) * i = -(d * i) /\ (-d) * (-n) = -((-d) * n) /\ d * i \in Int /\ (-d) * n \in Int
    BY <2>1
  <2> QED BY <1>3, <2>1, <2>2, <2>3 DEF Magnitude
<1> QED BY <1>2, <1>3

\* No two values of two lines are further apart than the span.
LEMMA SpanFacts ==
  ASSUME NEW b \in Bands, NEW r \in Nat,
         NEW e \in 0 .. b.numElems - 1, NEW f \in 0 .. b.numElems - 1,
         NEW p \in {r, r + 1}, NEW q \in {r, r + 1}
  PROVE  /\ Value(b, e, p) - Value(b, f, q) <= Span(b)
         /\ Value(b, f, q) - Value(b, e, p) <= Span(b)
<1> DEFINE c == b.c
           dx == b.dx
           dy == b.dy
           n == b.numElems - 1
           x == Magnitude(dx) * n
           y == Magnitude(dy) * 1
<1>1. c \in Int /\ dx \in Int /\ dy \in Int /\ n \in Nat
  BY BandFacts
<1>2. e \in 0 .. n /\ f \in 0 .. n /\ p \in Int /\ q \in Int
  OBVIOUS
<1>3. /\ Span(b) = x + Magnitude(dy)
      /\ Value(b, e, p) = c + dx * e + dy * p /\ Value(b, f, q) = c + dx * f + dy * q
  BY DEF Span, Value
<1> HIDE DEF c, dx, dy, n
<1>4. e - f \in -n .. n /\ p - q \in -1 .. 1
  BY <1>1, <1>2
<1>5. dx * (e - f) <= x /\ -x <= dx * (e - f) /\ Magnitude(dx) \in Nat
  BY <1>1, <1>4, MagnitudeFacts
<1>6. dy * (p - q) <= y /\ -y <= dy * (p - q) /\ Magnitude(dy) \in Nat
  BY <1>1, <1>4, MagnitudeFacts
<1>7. /\ dx * (e - f) = dx * e - dx * f /\ dy * (p - q) = dy * p - dy * q
      /\ dx * e \in Int /\ dx * f \in Int /\ dy * p \in Int /\ dy * q \in Int
  BY <1>1, <1>2
<1>8. x \in Int /\ y = Magnitude(dy)
  BY <1>1, <1>5, <1>6
<1> HIDE DEF x, y
<1> QED BY <1>1, <1>3, <1>5, <1>6, <1>7, <1>8

\* Between four tie points of a plane the interpolation is the plane.
LEMMA InterpolatedPlane ==
  ASSUME call \in Calls, ~GridCrash(Band), NEW lb, NEW le, NEW e \in Int, NEW r \in Int,
         NEW s \in Int, NEW y \in Int, NEW m \in Int,
         lb[e] = Value(Band, e, r) - m, lb[e + 1] = Value(Band, e + 1, r) - m,
         le[e] = Value(Band, e, r + 1) - m, le[e + 1] = Value(Band, e + 1, r + 1) - m
  PROVE  Interpolated(lb, le, e, 2 * s - ScanX(Band) - e * StepX(Band),
                      2 * y - ScanY(Band) - r * StepY(Band))
           = PlaneAt(Band, s, y) - m * Scale(Band)
<1> DEFINE b == Band
           sx == StepX(b)
           sy == StepY(b)
           X == 2 * s - ScanX(b)
           Y == 2 * y - ScanY(b)
           v == Value(b, e, r)
           u == X - e * sx
           w == Y - r * sy
<1>1. /\ b \in Bands /\ sx \in Int /\ sy \in Int /\ X \in Int /\ Y \in Int /\ v \in Int
      /\ b.c \in Int /\ b.dx \in Int /\ b.dy \in Int
  BY CallFacts, BandFacts, GridFacts, ValueType DEF Band
<1>2. /\ lb[e] = v - m /\ lb[e + 1] - lb[e] = b.dx /\ le[e] - lb[e] = b.dy
      /\ le[e + 1] + lb[e] - le[e] - lb[e + 1] = 0
  BY <1>1, ValueSteps
<1>3. u \in Int /\ w \in Int
  BY <1>1, Products
<1>4. Interpolated(lb, le, e, u, w) = (v - m) * sx * sy + u * sy * b.dx + w * sx * b.dy + u * w * 0
  <2> HIDE DEF u, w, v, sx, sy
  <2> QED BY <1>2 DEF Interpolated, sx, sy
<1>5. v = b.c + b.dx * e + b.dy * r
  BY DEF Value
<1>6. PlaneAt(b, s, y) = b.c * Scale(b) + b.dx * X * sy + b.dy * Y * sx /\ Scale(b) = sx * sy
  BY DEF PlaneAt, Scale
<1> HIDE DEF sx, sy, X, Y, v
<1>7. \A c, dx, dy, p, q, i, j, a, z, n \in Int :
        ((c + dx * i + dy * j) - n) * p * q + (a - i * p) * q * dx + (z - j * q) * p * dy + (a - i * p) * (z - j * q) * 0
          = (c * (p * q) + dx * a * q + dy * z * p) - n * (p * q)
  OBVIOUS
<1>8. ((b.c + b.dx * e + b.dy * r) - m) * sx * sy + u * sy * b.dx + w * sx * b.dy + u * w * 0
        = (b.c * (sx * sy) + b.dx * X * sy + b.dy * Y * sx) - m * (sx * sy)
  BY <1>1, <1>7
<1>9. Interpolated(lb, le, e, X - e * sx, Y - r * sy) = PlaneAt(b, s, y) - m * Scale(b)
  <2>1. Interpolated(lb, le, e, u, w)
          = ((b.c + b.dx * e + b.dy * r) - m) * sx * sy + u * sy * b.dx + w * sx * b.dy + u * w * 0
    BY <1>4 DEF v, Value
  <2>2. PlaneAt(b, s, y) - m * Scale(b) = (b.c * (sx * sy) + b.dx * X * sy + b.dy * Y * sx) - m * (sx * sy)
    BY DEF PlaneAt, Scale, X, Y, sx, sy
  <2> QED BY <1>8, <2>1, <2>2, Zenon
<1>10. Interpolated(lb, le, e, 2 * s - ScanX(b) - e * StepX(b), 2 * y - ScanY(b) - r * StepY(b))
         = PlaneAt(b, s, y) - m * Scale(b)
  BY <1>9 DEF X, Y, sx, sy
<1> QED BY <1>10 DEF b

-----------------------------------------------------------------------------
(***************************************************************************)
(* Longitudes, as they are read and lifted.                                *)
(***************************************************************************)

\* Two values less than half a circle apart that are not shown far apart are
\* shown with the same number of circles taken off.
LEMMA SameCircle ==
  ASSUME NEW v \in Int, NEW w \in Int, NEW s \in Int, NEW t \in Int,
         v - w < Half, w - v < Half, ~Far(v - Circle * s, w - Circle * t)
  PROVE  s = t
<1>1. (v - 360 * s) - (w - 360 * t) <= 180 /\ (w - 360 * t) - (v - 360 * s) <= 180
  BY DEF Far, Half, Circle
<1>2. v - w < 180 /\ w - v < 180
  BY DEF Half
<1> QED BY <1>1, <1>2

\* Where two values are read far apart, the date line lies between them: every
\* value close to both is read in the circle that begins there, or one below.
LEMMA DateLine ==
  ASSUME NEW v \in Int, NEW w \in Int, v - w < Half, w - v < Half,
         Wrapped(v) - Wrapped(w) > Half
  PROVE  \E m \in Int : \A u \in Int :
           u - v < Half /\ v - u < Half /\ u - w < Half /\ w - u < Half =>
             /\ u - Circle * m \in 0 .. Circle - 1
             /\ Wrapped(u) \in {u - Circle * m, u - Circle * m - Circle}
<1>0. ASSUME NEW u \in Int
      PROVE  \E q \in Int : Wrapped(u) = u - 360 * q /\ Wrapped(u) \in -180 .. 179
  <2>1. PICK q \in Int : Wrapped(u) = u - Circle * q /\ Wrapped(u) \in -Half .. Half - 1
    BY WrappedFacts
  <2> QED BY <2>1 DEF Half, Circle
<1>1. PICK s \in Int : Wrapped(v) = v - 360 * s /\ Wrapped(v) \in -180 .. 179
  BY <1>0
<1>2. PICK t \in Int : Wrapped(w) = w - 360 * t /\ Wrapped(w) \in -180 .. 179
  BY <1>0
<1>3. v - w < 180 /\ w - v < 180 /\ Wrapped(v) - Wrapped(w) > 180
  BY DEF Half
<1>4. t = s + 1
  BY <1>1, <1>2, <1>3
<1>5. ASSUME NEW u \in Int, u - v < 180, v - u < 180, u - w < 180, w - u < 180
      PROVE  /\ u - 360 * s \in 0 .. 359
             /\ Wrapped(u) \in {u - 360 * s, u - 360 * s - 360}
  <2>1. PICK q \in Int : Wrapped(u) = u - 360 * q /\ Wrapped(u) \in -180 .. 179
    BY <1>0
  <2>2. u - 360 * s \in 0 .. 359
    BY <1>1, <1>2, <1>3, <1>4, <1>5
  <2>3. q = s \/ q = s + 1
    BY <2>1, <2>2
  <2> QED BY <2>1, <2>2, <2>3
<1> QED BY <1>5 DEF Half, Circle

LEMMA TieLineValue ==
  ASSUME NEW b \in Bands, NEW r \in Int, NEW e \in 0 .. b.numElems - 1
  PROVE  TieLine(b, r)[e] = IF b.longitude THEN Wrapped(Value(b, e, r)) ELSE Value(b, e, r)
  BY DEF TieLine, Value

\* A line that lies in one circle still does when two tie points are lifted, and
\* the two are what the circle says.
LEMMA LiftedStays ==
  ASSUME call \in Calls, NEW r \in Int, NEW m \in Int,
         NEW l \in [0 .. Band.numElems - 1 -> Int], LiftedBy(l, r, m),
         NEW e \in 0 .. Band.numElems - 2
  PROVE  /\ LiftedBy(Lifted(l, e), r, m)
         /\ Lifted(l, e)[e] = Value(Band, e, r) - Circle * m
         /\ Lifted(l, e)[e + 1] = Value(Band, e + 1, r) - Circle * m
<1> DEFINE D == 0 .. Band.numElems - 1
           u(i) == Value(Band, i, r) - Circle * m
<1>1. Band \in Bands /\ Band.numElems \in Nat
  BY CallFacts, BandFacts DEF Band
<1>2. ASSUME NEW i \in D
      PROVE  /\ Lifted(l, e)[i] = IF i \in {e, e + 1} /\ l[i] < 0 THEN l[i] + 360 ELSE l[i]
             /\ u(i) \in 0 .. 359 /\ l[i] \in {u(i), u(i) - 360}
  <2>1. u(i) \in 0 .. 359 /\ l[i] \in {u(i), u(i) - 360}
    BY DEF LiftedBy, Circle
  <2>2. Lifted(l, e)[i] = IF i \in {e, e + 1} /\ l[i] < 0 THEN l[i] + 360 ELSE l[i]
    BY DEF Lifted, Circle
  <2> QED BY <2>1, <2>2
<1> HIDE DEF u
<1>3. ASSUME NEW i \in D
      PROVE  /\ Lifted(l, e)[i] \in {u(i), u(i) - 360}
             /\ i \in {e, e + 1} => Lifted(l, e)[i] = u(i)
             /\ u(i) \in 0 .. 359
  <2> DEFINE x == u(i)
             y == l[i]
             z == Lifted(l, e)[i]
  <2>1. z = (IF i \in {e, e + 1} /\ y < 0 THEN y + 360 ELSE y) /\ x \in 0 .. 359 /\ y \in {x, x - 360}
    BY <1>2
  <2> HIDE DEF x, y, z
  <2>2. z \in {x, x - 360} /\ (i \in {e, e + 1} => z = x)
    BY <2>1
  <2> QED BY <2>1, <2>2 DEF x, z
<1>4. e \in D /\ e + 1 \in D
  BY <1>1
<1> QED BY <1>3, <1>4 DEF LiftedBy, u, Circle

\* The values of two neighbouring lines of a narrow band are close.
LEMMA Close ==
  ASSUME NEW b \in Bands, Span(b) < Half, NEW r \in Nat,
         NEW e \in 0 .. b.numElems - 1, NEW f \in 0 .. b.numElems - 1,
         NEW p \in {r, r + 1}, NEW q \in {r, r + 1}
  PROVE  Value(b, e, p) - Value(b, f, q) < Half /\ Value(b, f, q) - Value(b, e, p) < Half
<1>1. /\ Value(b, e, p) - Value(b, f, q) <= Span(b)
      /\ Value(b, f, q) - Value(b, e, p) <= Span(b)
  BY SpanFacts
<1>2. Value(b, e, p) \in Int /\ Value(b, f, q) \in Int
  BY ValueType
<1>3. Span(b) \in Int
  BY BandFacts, Products DEF Span, Magnitude
<1> QED BY <1>1, <1>2, <1>3 DEF Half

\* The lines as they were read, where the date line is met: both lie in one
\* circle.
LEMMA FirstCrossing ==
  ASSUME call \in Calls, Band.longitude, Span(Band) < Half, NEW r \in Nat,
         NEW e \in 0 .. Band.numElems - 1, NEW f \in 0 .. Band.numElems - 1,
         NEW p \in {r, r + 1}, NEW q \in {r, r + 1},
         Far(TieLine(Band, p)[e], TieLine(Band, q)[f])
  PROVE  \E m \in Int : LiftedBy(TieLine(Band, r), r, m) /\ LiftedBy(TieLine(Band, r + 1), r + 1, m)
<1> DEFINE v(i, j) == Value(Band, i, j)
<1>1. Band \in Bands
  BY CallFacts DEF Band
<1>2. /\ v(e, p) \in Int /\ v(f, q) \in Int
      /\ TieLine(Band, p)[e] = Wrapped(v(e, p)) /\ TieLine(Band, q)[f] = Wrapped(v(f, q))
  BY <1>1, ValueType, TieLineValue
<1>3. v(e, p) - v(f, q) < Half /\ v(f, q) - v(e, p) < Half
  BY <1>1, Close
<1>4. \E m \in Int : \A u \in Int :
         u - v(e, p) < Half /\ v(e, p) - u < Half /\ u - v(f, q) < Half /\ v(f, q) - u < Half =>
           /\ u - Circle * m \in 0 .. Circle - 1
           /\ Wrapped(u) \in {u - Circle * m, u - Circle * m - Circle}
  <2>1. CASE Wrapped(v(e, p)) - Wrapped(v(f, q)) > Half
    <3> HIDE DEF v
    <3> QED BY <1>2, <1>3, <2>1, DateLine
  <2>2. CASE Wrapped(v(f, q)) - Wrapped(v(e, p)) > Half
    <3> DEFINE x == v(e, p)
               y == v(f, q)
    <3> HIDE DEF v
    <3>1. x \in Int /\ y \in Int /\ x - y < Half /\ y - x < Half /\ Wrapped(y) - Wrapped(x) > Half
      BY <1>2, <1>3, <2>2
    <3> HIDE DEF x, y
    <3>2. PICK m \in Int : \A u \in Int :
            u - y < Half /\ y - u < Half /\ u - x < Half /\ x - u < Half =>
              /\ u - Circle * m \in 0 .. Circle - 1
              /\ Wrapped(u) \in {u - Circle * m, u - Circle * m - Circle}
      BY <3>1, DateLine
    <3> QED BY <3>2 DEF x, y
  <2> QED BY <1>2, <2>1, <2>2 DEF Far
<1>5. PICK m \in Int : \A u \in Int :
         u - v(e, p) < Half /\ v(e, p) - u < Half /\ u - v(f, q) < Half /\ v(f, q) - u < Half =>
           /\ u - Circle * m \in 0 .. Circle - 1
           /\ Wrapped(u) \in {u - Circle * m, u - Circle * m - Circle}
  BY <1>4
<1>6. ASSUME NEW o \in {r, r + 1} PROVE LiftedBy(TieLine(Band, o), o, m)
  <2> SUFFICES ASSUME NEW i \in 0 .. Band.numElems - 1
               PROVE  /\ v(i, o) - Circle * m \in 0 .. Circle - 1
                      /\ TieLine(Band, o)[i] \in {v(i, o) - Circle * m, v(i, o) - Circle * m - Circle}
    BY DEF LiftedBy
  <2>1. /\ v(i, o) \in Int
        /\ v(i, o) - v(e, p) < Half /\ v(e, p) - v(i, o) < Half
        /\ v(i, o) - v(f, q) < Half /\ v(f, q) - v(i, o) < Half
        /\ TieLine(Band, o)[i] = Wrapped(v(i, o))
    <3>1. v(i, o) \in Int /\ TieLine(Band, o)[i] = Wrapped(v(i, o))
      BY <1>1, ValueType, TieLineValue
    <3>2. v(i, o) - v(e, p) < Half /\ v(e, p) - v(i, o) < Half
      BY <1>1, Close
    <3>3. v(i, o) - v(f, q) < Half /\ v(f, q) - v(i, o) < Half
      BY <1>1, Close
    <3> QED BY <3>1, <3>2, <3>3
  <2> HIDE DEF v
  <2> QED BY <1>5, <2>1
<1> QED BY <1>6

\* The four tie points that surround a pixel, in two lines.
Corner(lb, le, e, t) ==
  /\ lb[e] = Value(Band, e, recBeg) - Circle * t
  /\ lb[e + 1] = Value(Band, e + 1, recBeg) - Circle * t
  /\ le[e] = Value(Band, e, recBeg + 1) - Circle * t
  /\ le[e + 1] = Value(Band, e + 1, recBeg + 1) - Circle * t

\* Four corners, each shown with some circles taken off, that are not far apart
\* are shown with the same number of circles taken off.
LEMMA UncrossedCorners ==
  ASSUME call \in Calls, Span(Band) < Half, recBeg \in Nat,
         NEW e \in 0 .. Band.numElems - 2, ~Crosses(e),
         NEW s \in Int, NEW t \in Int, NEW u \in Int, NEW w \in Int,
         lineBeg[e] = Value(Band, e, recBeg) - Circle * s,
         lineBeg[e + 1] = Value(Band, e + 1, recBeg) - Circle * t,
         lineEnd[e] = Value(Band, e, recBeg + 1) - Circle * u,
         lineEnd[e + 1] = Value(Band, e + 1, recBeg + 1) - Circle * w
  PROVE  Corner(lineBeg, lineEnd, e, s)
<1> DEFINE a == Value(Band, e, recBeg)
           b == Value(Band, e + 1, recBeg)
           c == Value(Band, e, recBeg + 1)
           d == Value(Band, e + 1, recBeg + 1)
<1>1. /\ Band \in Bands /\ e \in 0 .. Band.numElems - 1 /\ e + 1 \in 0 .. Band.numElems - 1
      /\ a \in Int /\ b \in Int /\ c \in Int /\ d \in Int
  <2>1. Band \in Bands /\ Band.numElems \in Nat
    BY CallFacts, BandFacts DEF Band
  <2> QED BY <2>1, ValueType
<1>2. b - a < Half /\ a - b < Half
  BY <1>1, Close
<1>3. a - c < Half /\ c - a < Half
  BY <1>1, Close
<1>4. c - d < Half /\ d - c < Half
  BY <1>1, Close
<1>5. /\ ~Far(b - Circle * t, a - Circle * s)
      /\ ~Far(a - Circle * s, c - Circle * u)
      /\ ~Far(c - Circle * u, d - Circle * w)
  BY DEF Crosses
<1> HIDE DEF a, b, c, d
<1>6. t = s
  BY <1>1, <1>2, <1>5, SameCircle
<1>7. s = u
  BY <1>1, <1>3, <1>5, SameCircle
<1>8. u = w
  BY <1>1, <1>4, <1>5, SameCircle
<1> QED BY <1>6, <1>7, <1>8 DEF Corner, a, b, c, d

\* Whatever was lifted before, the tie points that surround a pixel are shown in
\* one circle once the lines are lifted, and the lines are held as before.
LEMMA CornersShared ==
  ASSUME call \in Calls, Band.longitude, Span(Band) < Half, recBeg \in Nat, recEnd = recBeg + 1,
         lineBeg \in [0 .. Band.numElems - 1 -> Int], lineEnd \in [0 .. Band.numElems - 1 -> Int],
         LinesHeld, NEW e \in 0 .. Band.numElems - 2
  PROVE  /\ ~Crosses(e) => \E t \in Int : Corner(lineBeg, lineEnd, e, t)
         /\ Crosses(e) =>
              /\ \E t \in Int : Corner(Lifted(lineBeg, e), Lifted(lineEnd, e), e, t)
              /\ \E m \in Int : /\ LiftedBy(Lifted(lineBeg, e), recBeg, m)
                                /\ LiftedBy(Lifted(lineEnd, e), recEnd, m)
<1> DEFINE D == 0 .. Band.numElems - 1
<1>1. Band \in Bands /\ e \in D /\ e + 1 \in D
  <2>1. Band \in Bands /\ Band.numElems \in Nat
    BY CallFacts, BandFacts DEF Band
  <2> QED BY <2>1
<1>2. ASSUME NEW m \in Int, LiftedBy(lineBeg, recBeg, m), LiftedBy(lineEnd, recEnd, m)
      PROVE  /\ \E t \in Int : Corner(Lifted(lineBeg, e), Lifted(lineEnd, e), e, t)
             /\ \E t \in Int : /\ LiftedBy(Lifted(lineBeg, e), recBeg, t)
                               /\ LiftedBy(Lifted(lineEnd, e), recEnd, t)
  <2>1. /\ LiftedBy(Lifted(lineBeg, e), recBeg, m)
        /\ Lifted(lineBeg, e)[e] = Value(Band, e, recBeg) - Circle * m
        /\ Lifted(lineBeg, e)[e + 1] = Value(Band, e + 1, recBeg) - Circle * m
    BY <1>2, LiftedStays
  <2>2. /\ LiftedBy(Lifted(lineEnd, e), recBeg + 1, m)
        /\ Lifted(lineEnd, e)[e] = Value(Band, e, recBeg + 1) - Circle * m
        /\ Lifted(lineEnd, e)[e + 1] = Value(Band, e + 1, recBeg + 1) - Circle * m
    BY <1>2, LiftedStays
  <2>3. Corner(Lifted(lineBeg, e), Lifted(lineEnd, e), e, m)
    BY <2>1, <2>2 DEF Corner
  <2> QED BY <2>1, <2>2, <2>3
<1>3. ASSUME Crosses(e)
      PROVE  \E m \in Int : LiftedBy(lineBeg, recBeg, m) /\ LiftedBy(lineEnd, recEnd, m)
  <2>1. CASE inter
    BY <2>1 DEF LinesHeld
  <2>2. CASE ~inter
    <3>1. lineBeg = TieLine(Band, recBeg) /\ lineEnd = TieLine(Band, recBeg + 1)
      BY <2>2 DEF LinesHeld
    <3>2. PICK i \in D, f \in D, p \in {recBeg, recBeg + 1}, q \in {recBeg, recBeg + 1} :
            Far(TieLine(Band, p)[i], TieLine(Band, q)[f])
      <4>1. CASE Far(lineBeg[e + 1], lineBeg[e])
        BY <1>1, <3>1, <4>1
      <4>2. CASE Far(lineBeg[e], lineEnd[e])
        BY <1>1, <3>1, <4>2
      <4>3. CASE Far(lineEnd[e], lineEnd[e + 1])
        BY <1>1, <3>1, <4>3
      <4>4. CASE Far(lineEnd[e + 1], lineBeg[e + 1])
        BY <1>1, <3>1, <4>4
      <4> QED BY <1>3, <4>1, <4>2, <4>3, <4>4 DEF Crosses
    <3> QED BY <3>1, <3>2, FirstCrossing
  <2> QED BY <2>1, <2>2
<1>4. ASSUME ~Crosses(e) PROVE \E t \in Int : Corner(lineBeg, lineEnd, e, t)
  <2>1. ASSUME NEW i \in D
        PROVE  /\ \E t \in Int : lineBeg[i] = Value(Band, i, recBeg) - Circle * t
               /\ \E t \in Int : lineEnd[i] = Value(Band, i, recBeg + 1) - Circle * t
    <3>1. CASE inter
      <4>1. PICK m \in Int : LiftedBy(lineBeg, recBeg, m) /\ LiftedBy(lineEnd, recEnd, m)
        BY <3>1 DEF LinesHeld
      <4>2. /\ lineBeg[i] \in {Value(Band, i, recBeg) - Circle * m, (Value(Band, i, recBeg) - Circle * m) - Circle}
            /\ lineEnd[i] \in {Value(Band, i, recBeg + 1) - Circle * m, (Value(Band, i, recBeg + 1) - Circle * m) - Circle}
        BY <4>1 DEF LiftedBy
      <4>3. Value(Band, i, recBeg) \in Int /\ Value(Band, i, recBeg + 1) \in Int
        BY <1>1, ValueType
      <4>4. ASSUME NEW v \in Int, NEW y \in {v - Circle * m, (v - Circle * m) - Circle}
            PROVE  \E t \in Int : y = v - Circle * t
        <5>1. (v - Circle * m) - Circle = v - Circle * (m + 1) /\ m + 1 \in Int
          BY DEF Circle
        <5> QED BY <5>1
      <4>5. \E t \in Int : lineBeg[i] = Value(Band, i, recBeg) - Circle * t
        BY <4>2, <4>3, <4>4
      <4>6. \E t \in Int : lineEnd[i] = Value(Band, i, recBeg + 1) - Circle * t
        BY <4>2, <4>3, <4>4
      <4> QED BY <4>5, <4>6
    <3>2. CASE ~inter
      <4>1. /\ lineBeg[i] = Wrapped(Value(Band, i, recBeg))
            /\ lineEnd[i] = Wrapped(Value(Band, i, recBeg + 1))
        <5>1. lineBeg = TieLine(Band, recBeg) /\ lineEnd = TieLine(Band, recBeg + 1)
          BY <3>2 DEF LinesHeld
        <5>2. recBeg \in Int /\ recBeg + 1 \in Int
          OBVIOUS
        <5> QED BY <1>1, <5>1, <5>2, TieLineValue
      <4>2. Value(Band, i, recBeg) \in Int /\ Value(Band, i, recBeg + 1) \in Int
        BY <1>1, ValueType
      <4> QED BY <4>1, <4>2, WrappedFacts
    <3> QED BY <3>1, <3>2
  <2>2. PICK s \in Int : lineBeg[e] = Value(Band, e, recBeg) - Circle * s
    BY <1>1, <2>1
  <2>3. PICK t \in Int : lineBeg[e + 1] = Value(Band, e + 1, recBeg) - Circle * t
    BY <1>1, <2>1
  <2>4. PICK u \in Int : lineEnd[e] = Value(Band, e, recBeg + 1) - Circle * u
    BY <1>1, <2>1
  <2>5. PICK w \in Int : lineEnd[e + 1] = Value(Band, e + 1, recBeg + 1) - Circle * w
    BY <1>1, <2>1
  <2>6. Corner(lineBeg, lineEnd, e, s)
    BY <1>4, <2>2, <2>3, <2>4, <2>5, UncrossedCorners
  <2> QED BY <2>6
<1> QED BY <1>2, <1>3, <1>4

-----------------------------------------------------------------------------
(***************************************************************************)
(* One pixel.                                                              *)
(***************************************************************************)

\* Taking circles off the corners takes them off the interpolated value.
LEMMA CornersAgree ==
  ASSUME call \in Calls, ~GridCrash(Band), recBeg \in Nat,
         NEW lb, NEW le, NEW e \in Int, NEW t \in Int, Corner(lb, le, e, t),
         ~Band.longitude => t = 0, NEW s \in Int, NEW y \in Int, NEW v,
         v = Interpolated(lb, le, e, 2 * s - ScanX(Band) - e * StepX(Band),
                          2 * y - ScanY(Band) - recBeg * StepY(Band))
  PROVE  /\ Agrees(Band, v, PlaneAt(Band, s, y))
         /\ Band.longitude => Agrees(Band, v - Circle * Scale(Band), PlaneAt(Band, s, y))
<1> DEFINE p == PlaneAt(Band, s, y)
           q == Scale(Band)
           c == Circle * t
<1>1. p \in Int /\ q \in Int /\ c \in Int
  <2>1. /\ StepX(Band) \in Int /\ StepY(Band) \in Int /\ ScanX(Band) \in Int /\ ScanY(Band) \in Int
        /\ Band.c \in Int /\ Band.dx \in Int /\ Band.dy \in Int
    BY CallFacts, GridFacts, BandFacts DEF Band
  <2>2. q \in Int
    BY <2>1, Products DEF Scale
  <2>3. 2 * s - ScanX(Band) \in Int /\ 2 * y - ScanY(Band) \in Int
    BY <2>1
  <2>4. Band.dx * (2 * s - ScanX(Band)) \in Int /\ Band.dy * (2 * y - ScanY(Band)) \in Int
    BY <2>1, <2>3, Products
  <2>5. /\ Band.c * Scale(Band) \in Int
        /\ Band.dx * (2 * s - ScanX(Band)) * StepY(Band) \in Int
        /\ Band.dy * (2 * y - ScanY(Band)) * StepX(Band) \in Int
    BY <2>1, <2>2, <2>4, Products
  <2> QED BY <2>2, <2>5 DEF PlaneAt, Circle
<1>2. v = p - c * q
  <2> HIDE DEF c
  <2>1. /\ lb[e] = Value(Band, e, recBeg) - c /\ lb[e + 1] = Value(Band, e + 1, recBeg) - c
        /\ le[e] = Value(Band, e, recBeg + 1) - c /\ le[e + 1] = Value(Band, e + 1, recBeg + 1) - c
    BY DEF Corner, c
  <2> QED BY <1>1, <2>1, InterpolatedPlane
<1>3. c * q = t * (Circle * q) /\ p - t * (Circle * q) - Circle * q = p - (t + 1) * (Circle * q)
  BY <1>1 DEF Circle
<1> HIDE DEF p, q, c
<1>4. CASE Band.longitude
  <2>1. v = p - t * (Circle * q) /\ v - Circle * q = p - (t + 1) * (Circle * q) /\ t + 1 \in Int
    BY <1>2, <1>3
  <2> QED BY <1>4, <2>1 DEF Agrees, p, q
<1>5. CASE ~Band.longitude
  <2>1. v = p
    BY <1>1, <1>2, <1>5 DEF c, Circle
  <2> QED BY <1>5, <2>1 DEF Agrees, p, q
<1> QED BY <1>4, <1>5

LEMMA SampleType ==
  ASSUME call \in Calls, raster \in Rasters, NEW j \in Int
  PROVE  SampleAt(j) \in Int
<1>1. j * raster.sx \in Int
  BY RasterFacts, Products
<1>2. OffsetMirrored(raster, call.ox, Band.width) \in Int
  <2>1. (RasterWidth(raster) - 1) * raster.sx \in Int
    BY RasterFacts, Products
  <2> QED BY <2>1, CallFacts, BandFacts, RasterFacts DEF OffsetMirrored, Band
<1> QED BY <1>1, <1>2, CallFacts DEF SampleAt, FirstSample

\* What is shown at the pixel at hand, and how the lines are held after it.
LEMMA PixelDecoded ==
  ASSUME IInv, PixelsShown, Narrow, DecodePixel, pos + k \in DOMAIN buf
  PROVE  /\ LinesHeld'
         /\ Agrees(Band, buf'[pos + k], PlaneAt(Band, SampleAt(k), iY))
         /\ \A i \in DOMAIN buf : i # pos + k => buf'[i] = buf[i]
<1> DEFINE lift == Band.longitude /\ Crosses(Knot)
           lb == IF lift THEN Lifted(lineBeg, Knot) ELSE lineBeg
           le == IF lift THEN Lifted(lineEnd, Knot) ELSE lineEnd
           v == Interpolated(lb, le, Knot, SamplePos - Knot * StepX(Band),
                             LinePos(iY) - recBeg * StepY(Band))
           s == SampleAt(k)
           p == PlaneAt(Band, s, iY)
<1>1. /\ pc = "pixels" /\ call \in Calls /\ raster \in Rasters /\ raster # NoRaster
      /\ ~GridCrash(Band) /\ Band \in Bands /\ k \in Nat /\ recBeg \in Nat /\ iY \in Nat
      /\ lineBeg \in [0 .. Band.numElems - 1 -> Int] /\ lineEnd \in [0 .. Band.numElems - 1 -> Int]
      /\ inter \in BOOLEAN /\ recEnd = recBeg + 1
  BY RasterFacts, CallFacts
     DEF DecodePixel, IInv, TypeOK, Checked, Reading, Decoding, TwoHeld, Band
<1>2. Knot \in 0 .. Band.numElems - 2 /\ Knot \in Int
  BY <1>1, KnotFacts, BandFacts
<1>3. LinesHeld /\ (Band.longitude => Span(Band) < Half) /\ Band.longitude \in BOOLEAN
  BY <1>1, BandFacts DEF PixelsShown, Narrow
<1>4. /\ lineBeg' = lb /\ lineEnd' = le /\ inter' = (inter \/ lift)
      /\ buf' = [buf EXCEPT ![pos + k] =
                   IF inter' /\ v > Half * Scale(Band) THEN v - Circle * Scale(Band) ELSE v]
      /\ UNCHANGED <<recBeg, recEnd, call, raster>> /\ Band' = Band
  BY DEF DecodePixel, Band
<1>5. /\ \E t \in Int : Corner(lb, le, Knot, t) /\ (~Band.longitude => t = 0)
      /\ lift => \E m \in Int : LiftedBy(lb, recBeg, m) /\ LiftedBy(le, recEnd, m)
  <2>1. CASE ~Band.longitude
    <3>1. lb = TieLine(Band, recBeg) /\ le = TieLine(Band, recBeg + 1) /\ ~lift
      BY <1>1, <1>3, <2>1 DEF LinesHeld
    <3>2. ASSUME NEW i \in 0 .. Band.numElems - 1, NEW r \in Int
          PROVE  TieLine(Band, r)[i] = Value(Band, i, r) - Circle * 0
      <4>1. TieLine(Band, r)[i] = Value(Band, i, r) /\ Value(Band, i, r) \in Int
        BY <1>1, <2>1, TieLineValue, ValueType
      <4> QED BY <4>1 DEF Circle
    <3>3. Knot \in 0 .. Band.numElems - 1 /\ Knot + 1 \in 0 .. Band.numElems - 1 /\ recBeg + 1 \in Int
      BY <1>1, <1>2, BandFacts
    <3>4. Corner(lb, le, Knot, 0)
      <4> HIDE DEF lb, le
      <4> QED BY <1>1, <3>1, <3>2, <3>3 DEF Corner
    <3> QED BY <2>1, <3>4
  <2>2. CASE Band.longitude /\ Crosses(Knot)
    <3>1. lb = Lifted(lineBeg, Knot) /\ le = Lifted(lineEnd, Knot)
      BY <2>2
    <3> QED BY <1>1, <1>2, <1>3, <2>2, <3>1, CornersShared
  <2>3. CASE Band.longitude /\ ~Crosses(Knot)
    <3>1. lb = lineBeg /\ le = lineEnd /\ ~lift
      BY <2>3
    <3> QED BY <1>1, <1>2, <1>3, <2>3, <3>1, CornersShared
  <2> QED BY <1>3, <2>1, <2>2, <2>3
<1>6. s \in Int /\ SamplePos = 2 * s - ScanX(Band) /\ LinePos(iY) = 2 * iY - ScanY(Band)
  <2>1. s \in Int
    BY <1>1, SampleType
  <2>2. Sample = s
    BY DEF Sample, SampleAt, FirstSample
  <2> QED BY <2>1, <2>2 DEF SamplePos, LinePos
<1> HIDE DEF lb, le, s
<1>7. Agrees(Band, v, p) /\ (Band.longitude => Agrees(Band, v - Circle * Scale(Band), p))
  <2>1. PICK t \in Int : Corner(lb, le, Knot, t) /\ (~Band.longitude => t = 0)
    BY <1>5
  <2>2. v = Interpolated(lb, le, Knot, 2 * s - ScanX(Band) - Knot * StepX(Band),
                         2 * iY - ScanY(Band) - recBeg * StepY(Band))
    BY <1>6
  <2> DEFINE e == Knot
  <2>3. e \in Int /\ iY \in Int
    BY <1>1, <1>2
  <2> HIDE DEF v, e
  <2> QED BY <1>1, <1>6, <2>1, <2>2, <2>3, CornersAgree DEF e
<1> HIDE DEF v, p
<1>8. inter' => Band.longitude
  BY <1>3, <1>4 DEF LinesHeld
<1>9. Agrees(Band, buf'[pos + k], p)
  <2>1. buf'[pos + k] = IF inter' /\ v > Half * Scale(Band) THEN v - Circle * Scale(Band) ELSE v
    BY <1>4
  <2> QED BY <1>7, <1>8, <2>1
<1>10. LinesHeld'
  <2>1. CASE lift
    <3>1. inter' /\ Band'.longitude
      BY <1>4, <2>1
    <3>2. PICK m \in Int : LiftedBy(lb, recBeg, m) /\ LiftedBy(le, recEnd, m)
      BY <1>5, <2>1
    <3>3. LiftedBy(lineBeg, recBeg, m)' /\ LiftedBy(lineEnd, recEnd, m)'
      BY <1>4, <3>2 DEF LiftedBy
    <3> QED BY <3>1, <3>3 DEF LinesHeld
  <2>2. CASE ~lift
    <3>1. lineBeg' = lineBeg /\ lineEnd' = lineEnd /\ inter' = inter
      BY <1>1, <1>4, <2>2 DEF lb, le
    <3>2. CASE ~inter
      <4>1. lineBeg = TieLine(Band, recBeg) /\ lineEnd = TieLine(Band, recEnd)
        BY <1>3, <3>2 DEF LinesHeld
      <4> QED BY <1>4, <3>1, <3>2, <4>1 DEF LinesHeld
    <3>3. CASE inter
      <4>1. PICK m \in Int : LiftedBy(lineBeg, recBeg, m) /\ LiftedBy(lineEnd, recEnd, m)
        BY <1>3, <3>3 DEF LinesHeld
      <4>2. LiftedBy(lineBeg, recBeg, m)' /\ LiftedBy(lineEnd, recEnd, m)'
        BY <1>4, <3>1, <4>1 DEF LiftedBy
      <4>3. Band'.longitude
        BY <1>3, <1>4, <3>3 DEF LinesHeld
      <4> QED BY <3>1, <3>3, <4>2, <4>3 DEF LinesHeld
    <3> QED BY <3>2, <3>3
  <2> QED BY <2>1, <2>2
<1> QED BY <1>4, <1>9, <1>10 DEF p, s

LEMMA MultipleRemainder ==
  ASSUME NEW t \in Int, NEW q \in Nat \ {0}
  PROVE  (t * q) % q = 0
<1> DEFINE x == t * q
           d == x \div q
           m == x % q
<1>1. x \in Int
  OBVIOUS
<1>2. d \in Int /\ m \in 0 .. q - 1 /\ x = q * d + m
  <2> HIDE DEF x
  <2> QED BY <1>1
<1> HIDE DEF d, m
<1>3. m = q * (t - d)
  BY <1>2
<1>4. \A n \in Int : (n >= 1 => q * n >= q) /\ (n <= -1 => q * n <= -q)
  OBVIOUS
<1>5. t - d \in Int /\ ~(t - d >= 1) /\ ~(t - d <= -1)
  <2> DEFINE n == t - d
  <2>1. n \in Int /\ m = q * n
    BY <1>2, <1>3
  <2> HIDE DEF n
  <2> QED BY <1>2, <1>4, <2>1 DEF n
<1>6. t - d = 0
  BY <1>5
<1>7. m = 0
  BY <1>3, <1>6
<1> QED BY <1>7 DEF m

\* A raster whose pixels, mirrored or not, show their samples is what the
\* property asks for.
Correct ==
  \A h \in 0 .. RasterHeight(raster) - 1, j \in 0 .. RasterWidth(raster) - 1 :
    LET v == buf[h * RasterWidth(raster) + j]
        p == Plane(Band, call.ox + j * raster.sx, call.oy + h * raster.sy)
    IN  IF Band.longitude THEN (v - p) % (Circle * Scale(Band)) = 0 ELSE v = p

AllShown ==
  \A h \in 0 .. RasterHeight(raster) - 1, j \in 0 .. RasterWidth(raster) - 1 :
    Shows(h, j, IF Band.mirrored THEN RasterWidth(raster) - 1 - j ELSE j)

LEMMA ShownIsCorrect ==
  ASSUME call \in Calls, raster \in Rasters, ~GridCrash(Band), StepY(Band) # 0, AllShown
  PROVE  Correct
<1> SUFFICES ASSUME NEW h \in 0 .. RasterHeight(raster) - 1, NEW j \in 0 .. RasterWidth(raster) - 1,
                    NEW v, v = buf[h * RasterWidth(raster) + j],
                    NEW p, p = Plane(Band, call.ox + j * raster.sx, call.oy + h * raster.sy)
             PROVE  IF Band.longitude THEN (v - p) % (Circle * Scale(Band)) = 0 ELSE v = p
  BY DEF Correct
<1> DEFINE W == RasterWidth(raster)
           i == IF Band.mirrored THEN W - 1 - j ELSE j
           y == call.oy + h * raster.sy
           q == Circle * Scale(Band)
<1>1. /\ Band \in Bands /\ Band.width \in Int /\ call.ox \in Int /\ raster.sx \in Int /\ raster.sw \in Int
      /\ raster.sy \in Int /\ call.oy \in Int /\ W \in Int /\ Band.mirrored \in BOOLEAN
  BY CallFacts, BandFacts, RasterFacts DEF Band
<1>2. p = PlaneAt(Band, SampleAt(i), y)
  <2>1. SampleAt(i) = IF Band.mirrored THEN Band.width - 1 - (call.ox + j * raster.sx)
                                       ELSE call.ox + j * raster.sx
    <3>1. CASE Band.mirrored
      <4>1. SampleAt(i) = OffsetMirrored(raster, call.ox, Band.width) + (W - 1 - j) * raster.sx
        BY <3>1 DEF SampleAt, FirstSample
      <4>2. OffsetMirrored(raster, call.ox, Band.width)
              = ((Band.width - 1) - ((call.ox + raster.sw) - 1)) + (raster.sw - ((W - 1) * raster.sx + 1))
        BY <1>1 DEF OffsetMirrored
      <4>3. (W - 1 - j) * raster.sx = (W - 1) * raster.sx - j * raster.sx
        BY <1>1
      <4>4. (W - 1) * raster.sx \in Int /\ j * raster.sx \in Int
        BY <1>1, Products
      <4> QED BY <1>1, <3>1, <4>1, <4>2, <4>3, <4>4
    <3>2. CASE ~Band.mirrored
      BY <3>2 DEF SampleAt, FirstSample
    <3> QED BY <1>1, <3>1, <3>2
  <2> QED BY <1>1, <2>1 DEF Plane, PlaneAt
<1>3. Agrees(Band, v, p)
  BY <1>2 DEF AllShown, Shows
<1>4. p \in Int /\ q \in Nat \ {0}
  <2>1. /\ StepX(Band) \in Nat \ {0} /\ StepY(Band) \in Nat \ {0}
        /\ ScanX(Band) \in Int /\ ScanY(Band) \in Int
        /\ Band.c \in Int /\ Band.dx \in Int /\ Band.dy \in Int
    BY <1>1, GridFacts, BandFacts
  <2>2. Scale(Band) \in Nat \ {0}
    <3>1. \A a, b \in Nat \ {0} : a * b \in Nat \ {0}
      OBVIOUS
    <3> QED BY <2>1, <3>1 DEF Scale
  <2>3. SampleAt(i) \in Int /\ h * raster.sy \in Int
    BY <1>1, SampleType, Products
  <2>4. 2 * SampleAt(i) - ScanX(Band) \in Int /\ 2 * y - ScanY(Band) \in Int
    BY <1>1, <2>1, <2>3
  <2>5. /\ Band.c * Scale(Band) \in Int
        /\ Band.dx * (2 * SampleAt(i) - ScanX(Band)) \in Int /\ Band.dy * (2 * y - ScanY(Band)) \in Int
    BY <2>1, <2>2, <2>4, Products
  <2>6. /\ Band.dx * (2 * SampleAt(i) - ScanX(Band)) * StepY(Band) \in Int
        /\ Band.dy * (2 * y - ScanY(Band)) * StepX(Band) \in Int
    BY <2>1, <2>5, Products
  <2>7. q \in Nat \ {0}
    BY <2>2 DEF Circle
  <2> QED BY <1>2, <2>5, <2>6, <2>7 DEF PlaneAt
<1> HIDE DEF q
<1>5. CASE Band.longitude
  <2>1. PICK t \in Int : v = p - t * q
    BY <1>3, <1>5 DEF Agrees, q
  <2>2. v - p = (-t) * q /\ -t \in Int
    BY <1>4, <2>1
  <2>3. (v - p) % q = 0
    BY <1>4, <2>2, MultipleRemainder
  <2> QED BY <1>5, <2>3 DEF q
<1>6. CASE ~Band.longitude
  BY <1>3, <1>6 DEF Agrees
<1> QED BY <1>5, <1>6

-----------------------------------------------------------------------------
(***************************************************************************)
(* Every action preserves what is shown.                                   *)
(***************************************************************************)

\* A state in which no line is decoded or mirrored, or the read has not ended
\* with zero, promises nothing about the pixels.
LEMMA QuietPInv ==
  ASSUME pc' \in {"idle", "checks", "crash"}, Orderly', pc' = "idle" => last' # "none"
  PROVE  PInv'
  BY DEF PInv, LinesShown, Looping, PixelsShown, Mirroring, PixelsCorrect, Idle

LEMMA InitPInv == Init => PInv
  BY DEF Init, PInv, Orderly, LinesShown, Looping, PixelsShown, Mirroring, PixelsCorrect, Idle

LEMMA CreateRasterPInv == ASSUME IInv, PInv, NEW r \in Rasters, CreateRaster(r) PROVE PInv'
<1>1. r # NoRaster /\ last = "unread"
  BY RasterFacts DEF PInv, Orderly, CreateRaster
<1> QED BY <1>1, QuietPInv DEF PInv, Orderly, CreateRaster, Idle, local

LEMMA FreeRasterPInv == ASSUME IInv, PInv, FreeRaster PROVE PInv'
  BY QuietPInv DEF PInv, Orderly, FreeRaster, Idle, local

LEMMA ReadBandRasterPInv == ASSUME IInv, PInv, NEW c \in Calls, ReadBandRaster(c) PROVE PInv'
  BY QuietPInv DEF PInv, Orderly, ReadBandRaster, Idle, local

LEMMA CheckCallPInv == ASSUME IInv, PInv, CheckCall PROVE PInv'
<1>1. /\ pc = "checks" /\ call \in Calls /\ raster \in Rasters /\ raster # NoRaster
      /\ pos = 0 /\ row = 0
  BY RasterFacts DEF CheckCall, IInv, PInv, Orderly, Unset, Checked
<1>2. CASE Crash
  BY <1>1, <1>2, QuietPInv DEF Crash, Orderly
<1>3. CASE Fail
  BY <1>1, <1>3, QuietPInv DEF Fail, Return, Orderly
<1>4. CASE /\ pc' = "lines"
           /\ iY' = call.oy
           /\ UNCHANGED <<raster, buf, call, pos, recBeg, recEnd, begOld, endOld,
                          lineBeg, lineEnd, k, inter, row, failed, last, reads>>
  <2>1. LinesShown'
    <3>1. call.oy \in Nat /\ 0 * raster.sy = 0 /\ 0 * RasterWidth(raster) = 0
      BY <1>1, CallFacts, RasterFacts
    <3>2. PlacedAt(0)'
      BY <1>1, <1>4, <3>1 DEF PlacedAt
    <3>3. \A g \in 0 .. 0 - 1 : FALSE
      OBVIOUS
    <3> QED BY <3>2, <3>3 DEF LinesShown
  <2>2. Orderly'
    BY <1>1, <1>4 DEF PInv, Orderly
  <2> QED BY <1>4, <2>1, <2>2 DEF PInv, PixelsShown, Mirroring, PixelsCorrect, Idle
<1> QED BY <1>2, <1>3, <1>4 DEF CheckCall

LEMMA ReadLinesPInv == ASSUME IInv, PInv, ReadLines PROVE PInv'
<1>1. pc = "lines" /\ call \in Calls /\ raster \in Rasters /\ raster # NoRaster /\ row = 0
  BY RasterFacts DEF ReadLines, IInv, PInv, Orderly, Checked
<1>2. CASE Crash
  BY <1>1, <1>2, QuietPInv DEF Crash, Orderly
<1>3. CASE /\ lineBeg' = TieLine(Band, recBeg')
           /\ lineEnd' = TieLine(Band, recEnd')
           /\ pc' = "pixels"
           /\ k' = 0 /\ inter' = FALSE
           /\ UNCHANGED <<raster, buf, call, iY, pos, row, last, reads>>
  <2>1. Band' = Band
    BY <1>3 DEF Band
  <2>2. LinesHeld'
    BY <1>3, <2>1 DEF LinesHeld
  <2>3. PixelsShown'
    <3>1. \A j \in 0 .. k' - 1 : FALSE
      BY <1>3
    <3> QED BY <2>2, <3>1 DEF PixelsShown
  <2>4. LinesShown'
    <3>1. PICK h \in Nat :
            /\ PlacedAt(h)
            /\ Narrow => \A g \in 0 .. h - 1, j \in 0 .. RasterWidth(raster) - 1 : Shows(g, j, j)
      BY <1>1 DEF PInv, LinesShown, Looping
    <3>2. PlacedAt(h)'
      BY <1>3, <3>1 DEF PlacedAt
    <3>3. Narrow' => \A g \in 0 .. h - 1, j \in 0 .. RasterWidth(raster') - 1 : Shows(g, j, j)'
      BY <1>3, <2>1, <3>1 DEF Narrow, Shows, SampleAt, FirstSample
    <3> QED BY <3>2, <3>3 DEF LinesShown
  <2>5. Orderly'
    BY <1>1, <1>3 DEF Orderly
  <2> QED BY <1>3, <2>3, <2>4, <2>5 DEF PInv, Mirroring, PixelsCorrect, Idle
<1> QED BY <1>2, <1>3 DEF ReadLines

\* An earlier line is elsewhere in the buffer.
LEMMA EarlierLine ==
  ASSUME NEW W \in Nat, NEW h \in Nat, NEW g \in 0 .. h - 1, NEW j \in 0 .. W - 1
  PROVE  g * W + j < h * W
<1>1. (g + 1) * W <= h * W /\ (g + 1) * W = g * W + W /\ g * W \in Nat /\ h * W \in Nat
  BY TimesMonotone
<1> QED BY <1>1

LEMMA DecodePixelPInv == ASSUME IInv, PInv, DecodePixel PROVE PInv'
<1> DEFINE W == RasterWidth(raster)
           H == RasterHeight(raster)
<1>1. /\ pc = "pixels" /\ pc' = "pixels" /\ MorePixels /\ k \in Nat /\ k' = k + 1
      /\ raster \in Rasters /\ raster # NoRaster /\ row = 0 /\ W \in Nat /\ H \in Nat
      /\ UNCHANGED <<raster, call, iY, pos, row, last>> /\ Band' = Band
      /\ DOMAIN buf = 0 .. NumElems(raster) - 1
  BY RasterFacts DEF DecodePixel, IInv, TypeOK, PInv, Orderly, Checked, Band
<1>2. PICK h \in Nat :
        /\ PlacedAt(h)
        /\ Narrow => \A g \in 0 .. h - 1, j \in 0 .. W - 1 : Shows(g, j, j)
  BY <1>1 DEF PInv, LinesShown, Looping
<1>3. k \in 0 .. W - 1 /\ h \in 0 .. H - 1 /\ pos + k \in DOMAIN buf
  BY <1>1, <1>2, InRaster
<1>4. Narrow' <=> Narrow
  BY <1>1 DEF Narrow
<1>5. pos = h * W /\ iY = call.oy + h * raster.sy
  BY <1>2 DEF PlacedAt
<1>6. \A g \in 0 .. H - 1, j \in 0 .. W - 1 : g * W + j \in DOMAIN buf
  BY <1>1, PosInBuffer DEF NumElems
<1>7. ASSUME Narrow
      PROVE  /\ LinesHeld'
             /\ Agrees(Band, buf'[pos + k], PlaneAt(Band, SampleAt(k), iY))
             /\ \A i \in DOMAIN buf : i # pos + k => buf'[i] = buf[i]
  BY <1>1, <1>3, <1>7, PixelDecoded DEF PInv
<1> HIDE DEF W, H
<1>8. LinesShown'
  <2>1. PlacedAt(h)'
    BY <1>1, <1>2 DEF PlacedAt
  <2>2. ASSUME Narrow, NEW g \in 0 .. h - 1, NEW j \in 0 .. W - 1 PROVE Shows(g, j, j)'
    <3>1. g * W + j < h * W /\ g * W + j \in Int /\ h * W \in Int
      BY <1>1, <1>3, EarlierLine, Products
    <3>2. g * W + j # pos + k
      BY <1>1, <1>5, <3>1
    <3>3. g * W + j \in DOMAIN buf
      <4>1. g \in 0 .. H - 1
        BY <1>1, <1>3
      <4> QED BY <1>6, <4>1
    <3>4. buf'[g * W + j] = buf[g * W + j]
      BY <1>7, <2>2, <3>2, <3>3
    <3>5. Shows(g, j, j)
      BY <1>2, <2>2
    <3> QED BY <1>1, <3>4, <3>5 DEF Shows, SampleAt, FirstSample, W
  <2>3. W' = W
    BY <1>1 DEF W
  <2> QED BY <1>4, <2>1, <2>2, <2>3 DEF LinesShown, W
<1>9. PixelsShown'
  <2> SUFFICES ASSUME Narrow
               PROVE  /\ LinesHeld'
                      /\ \A j \in 0 .. k' - 1 : Agrees(Band, buf[pos + j], PlaneAt(Band, SampleAt(j), iY))'
    BY <1>4 DEF PixelsShown
  <2>1. ASSUME NEW j \in 0 .. k' - 1
        PROVE  Agrees(Band, buf'[pos + j], PlaneAt(Band, SampleAt(j), iY))
    <3>1. CASE j = k
      BY <1>7, <3>1
    <3>2. CASE j # k
      <4>1. j \in 0 .. k - 1 /\ j \in 0 .. W - 1
        BY <1>1, <1>3, <3>2
      <4>2. pos + j \in DOMAIN buf /\ pos + j # pos + k
        <5>1. pos + j \in DOMAIN buf
          BY <1>3, <1>5, <1>6, <4>1
        <5>2. h * W \in Int
          BY <1>1, Products
        <5> QED BY <1>1, <1>5, <3>2, <4>1, <5>1, <5>2
      <4>3. Agrees(Band, buf[pos + j], PlaneAt(Band, SampleAt(j), iY))
        BY <1>1, <4>1 DEF PInv, PixelsShown
      <4> QED BY <1>7, <4>2, <4>3
    <3> QED BY <3>1, <3>2
  <2>2. ASSUME NEW j \in 0 .. k' - 1
        PROVE  Agrees(Band, buf[pos + j], PlaneAt(Band, SampleAt(j), iY))'
    BY <1>1, <2>1 DEF SampleAt, FirstSample
  <2> QED BY <1>7, <2>2
<1>10. Orderly'
  BY <1>1 DEF Orderly
<1> QED BY <1>1, <1>8, <1>9, <1>10 DEF PInv, Mirroring, PixelsCorrect, Idle

LEMMA LineDonePInv == ASSUME IInv, PInv, LineDone PROVE PInv'
<1> DEFINE W == RasterWidth(raster)
<1>1. /\ pc = "pixels" /\ pc' = "lines" /\ ~MorePixels /\ k \in Nat /\ call \in Calls
      /\ raster \in Rasters /\ raster # NoRaster /\ row = 0 /\ W \in Nat
      /\ raster.sx \in Nat \ {0} /\ raster.sw \in Nat \ {0} /\ raster.sy \in Nat
      /\ UNCHANGED <<raster, buf, call, row, last>> /\ Band' = Band
      /\ iY' = iY + raster.sy /\ pos' = pos + W
  BY RasterFacts DEF LineDone, IInv, TypeOK, PInv, Orderly, Checked, Band
<1>2. PICK h \in Nat :
        /\ PlacedAt(h)
        /\ Narrow => \A g \in 0 .. h - 1, j \in 0 .. W - 1 : Shows(g, j, j)
  BY <1>1 DEF PInv, LinesShown, Looping
<1>3. k >= W
  <2>1. k * raster.sx <= raster.sw - 1 <=> k < (raster.sw - 1) \div raster.sx + 1
    BY <1>1, Steps
  <2>2. ~(k < W)
    BY <1>1, <2>1 DEF MorePixels, RasterWidth
  <2> QED BY <1>1, <2>2
<1>4. Narrow' <=> Narrow
  BY <1>1 DEF Narrow
<1>5. PlacedAt(h + 1)'
  <2>1. call.oy \in Nat /\ raster.sy \in Nat /\ W \in Nat
    BY <1>1, CallFacts
  <2>2. /\ (h + 1) * raster.sy = h * raster.sy + raster.sy /\ (h + 1) * W = h * W + W
        /\ h * raster.sy \in Nat /\ h * W \in Nat
    BY <2>1
  <2>3. iY' = call.oy + (h + 1) * raster.sy /\ pos' = (h + 1) * W
    BY <1>1, <1>2, <2>1, <2>2 DEF PlacedAt
  <2> QED BY <1>1, <2>3 DEF PlacedAt
<1>6. ASSUME Narrow, NEW g \in 0 .. (h + 1) - 1, NEW j \in 0 .. W - 1 PROVE Shows(g, j, j)
  <2>1. CASE g = h
    <3>1. j \in 0 .. k - 1
      BY <1>1, <1>3
    <3>2. Agrees(Band, buf[pos + j], PlaneAt(Band, SampleAt(j), iY))
      BY <1>1, <1>6, <3>1 DEF PInv, PixelsShown
    <3> QED BY <1>2, <2>1, <3>2 DEF PlacedAt, Shows
  <2>2. CASE g # h
    <3>1. g \in 0 .. h - 1
      BY <2>2
    <3> QED BY <1>2, <1>6, <3>1
  <2> QED BY <2>1, <2>2
<1>7. LinesShown'
  <2>1. ASSUME Narrow, NEW g \in 0 .. (h + 1) - 1, NEW j \in 0 .. W - 1 PROVE Shows(g, j, j)'
    <3>1. Shows(g, j, j)
      BY <1>6, <2>1
    <3> QED BY <1>1, <3>1 DEF Shows, SampleAt, FirstSample
  <2>2. W' = W /\ h + 1 \in Nat
    BY <1>1
  <2> QED BY <1>4, <1>5, <2>1, <2>2 DEF LinesShown
<1>8. Orderly'
  BY <1>1 DEF Orderly
<1> QED BY <1>1, <1>7, <1>8 DEF PInv, PixelsShown, Mirroring, PixelsCorrect, Idle

LEMMA LinesDonePInv == ASSUME IInv, PInv, LinesDone PROVE PInv'
<1> DEFINE W == RasterWidth(raster)
           H == RasterHeight(raster)
<1>1. /\ pc = "lines" /\ ~MoreLines /\ call \in Calls
      /\ raster \in Rasters /\ raster # NoRaster /\ row = 0 /\ W \in Nat /\ H \in Nat
      /\ raster.sh \in Nat \ {0} /\ raster.sy \in Nat \ {0}
      /\ UNCHANGED <<raster, buf, call>> /\ Band' = Band
      /\ ~GridCrash(Band) /\ StepY(Band) # 0 /\ Band.mirrored \in BOOLEAN
  BY RasterFacts, CallFacts, BandFacts
     DEF LinesDone, IInv, TypeOK, PInv, Orderly, Checked, Reading, Band
<1>2. PICK h \in Nat :
        /\ PlacedAt(h)
        /\ Narrow => \A g \in 0 .. h - 1, j \in 0 .. W - 1 : Shows(g, j, j)
  BY <1>1 DEF PInv, LinesShown, Looping
<1>3. h >= H
  <2>1. call.oy \in Nat /\ h * raster.sy \in Nat
    BY <1>1, CallFacts, Products
  <2>2. ~(h * raster.sy <= raster.sh - 1)
    BY <1>1, <1>2, <2>1 DEF PlacedAt, MoreLines
  <2>3. h * raster.sy <= raster.sh - 1 <=> h < (raster.sh - 1) \div raster.sy + 1
    BY <1>1, Steps
  <2>4. ~(h < H)
    BY <2>2, <2>3 DEF RasterHeight
  <2> QED BY <1>1, <2>4
<1>4. Narrow => \A g \in 0 .. H - 1, j \in 0 .. W - 1 : Shows(g, j, j)
  <2>1. ASSUME NEW g \in 0 .. H - 1 PROVE g \in 0 .. h - 1
    BY <1>1, <1>3
  <2> QED BY <1>2, <2>1
<1>5. CASE Band.mirrored
  <2>1. pc' = "mirror" /\ row' = 0 /\ last' = last
    BY <1>1, <1>5 DEF LinesDone, local
  <2>2. Narrow' <=> Narrow
    BY <1>1 DEF Narrow
  <2>3. ASSUME Narrow, NEW g \in 0 .. H - 1, NEW j \in 0 .. W - 1
        PROVE  Shows(g, j, IF g < row THEN W - 1 - j ELSE j)'
    <3>1. Shows(g, j, j) /\ ~(g < 0)
      BY <1>4, <2>3
    <3> QED BY <1>1, <2>1, <3>1 DEF Shows, SampleAt, FirstSample
  <2>4. Mirroring'
    <3>1. row' <= H
      BY <1>1, <2>1
    <3> QED BY <1>1, <1>5, <2>2, <2>3, <3>1 DEF Mirroring
  <2>5. Orderly'
    BY <1>1, <2>1 DEF Orderly
  <2> QED BY <2>1, <2>4, <2>5 DEF PInv, LinesShown, Looping, PixelsShown, PixelsCorrect, Idle
<1>6. CASE ~Band.mirrored
  <2>1. pc' = "idle" /\ row' = 0
    BY <1>6 DEF LinesDone, Return
  <2>2. PixelsCorrect'
    <3> SUFFICES ASSUME Narrow PROVE Correct'
      BY <1>1 DEF PixelsCorrect, Correct, Narrow
    <3>1. AllShown
      BY <1>4, <1>6 DEF AllShown
    <3>2. Correct
      BY <1>1, <3>1, ShownIsCorrect
    <3> QED BY <1>1, <3>2 DEF Correct
  <2>3. Orderly'
    BY <1>1, <2>1 DEF Orderly
  <2> QED BY <2>1, <2>2, <2>3 DEF PInv, LinesShown, Looping, PixelsShown, Mirroring
<1> QED BY <1>1, <1>5, <1>6

LEMMA MirrorDonePInv == ASSUME IInv, PInv, MirrorDone PROVE PInv'
<1> DEFINE W == RasterWidth(raster)
           H == RasterHeight(raster)
<1>1. /\ pc = "mirror" /\ row = H /\ call \in Calls /\ raster \in Rasters /\ raster # NoRaster
      /\ UNCHANGED <<raster, buf, call>> /\ Band' = Band /\ pc' = "idle" /\ row' = 0
      /\ ~GridCrash(Band) /\ StepY(Band) # 0 /\ Band.mirrored
  BY RasterFacts DEF MirrorDone, Return, IInv, PInv, Mirroring, Checked, Reading, Band
<1>2. PixelsCorrect'
  <2> SUFFICES ASSUME Narrow PROVE Correct'
    BY <1>1 DEF PixelsCorrect, Correct, Narrow
  <2>1. \A h \in 0 .. H - 1, j \in 0 .. W - 1 : Shows(h, j, IF h < row THEN W - 1 - j ELSE j)
    BY <1>1 DEF PInv, Mirroring
  <2>2. \A h \in 0 .. H - 1 : h < row
    BY <1>1, RasterFacts
  <2>3. AllShown
    BY <1>1, <2>1, <2>2 DEF AllShown
  <2>4. Correct
    BY <1>1, <2>3, ShownIsCorrect
  <2> QED BY <1>1, <2>4 DEF Correct
<1>3. Orderly'
  BY <1>1 DEF Orderly
<1> QED BY <1>1, <1>2, <1>3 DEF PInv, LinesShown, Looping, PixelsShown, Mirroring

LEMMA MirrorLinePInv == ASSUME IInv, PInv, MirrorLine PROVE PInv'
<1> DEFINE W == RasterWidth(raster)
           H == RasterHeight(raster)
           D == 0 .. NumElems(raster) - 1
           start == row * W
           end == start + W - 1
<1>1. /\ pc = "mirror" /\ pc' = "mirror" /\ row < H /\ row' = row + 1 /\ row \in Nat
      /\ raster \in Rasters /\ raster # NoRaster /\ Band.mirrored
      /\ W \in Nat \ {0} /\ H \in Nat
      /\ UNCHANGED <<raster, call, last>> /\ Band' = Band /\ DOMAIN buf = D
  BY RasterFacts DEF MirrorLine, NextRow, IInv, TypeOK, PInv, Mirroring, Checked, Band
<1>2. buf' = [i \in D |-> IF i \in start .. end THEN buf[start + end - i] ELSE buf[i]]
  BY <1>1 DEF MirrorLine, LineReversed
<1>3. ASSUME NEW h \in 0 .. H - 1, NEW j \in 0 .. W - 1
      PROVE  buf'[h * W + j] = buf[h * W + (IF h = row THEN W - 1 - j ELSE j)]
  <2>1. h * W + j \in D
    BY <1>1, PosInBuffer DEF NumElems
  <2>2. buf'[h * W + j] = IF h * W + j \in start .. end THEN buf[start + end - (h * W + j)] ELSE buf[h * W + j]
    <3> HIDE DEF D, start, end
    <3> QED BY <1>2, <2>1
  <2>3. h * W \in Int /\ start \in Int /\ h \in Nat
    BY <1>1, Products
  <2>4. CASE h = row
    <3>1. h * W = start
      BY <2>4
    <3> HIDE DEF start, W
    <3>2. start + j \in start .. end /\ start + end - (start + j) = start + (W - 1 - j)
      BY <1>1, <2>3
    <3> QED BY <2>2, <2>4, <3>1, <3>2
  <2>5. CASE h # row
    <3>1. h * W + j \notin start .. end
      <4>1. CASE h < row
        <5>1. h * W + j < start
          BY <1>1, <2>3, <4>1, EarlierLine
        <5> HIDE DEF start, W
        <5> QED BY <1>1, <2>3, <5>1
      <4>2. CASE row < h
        <5>1. row * W + (W - 1) < h * W
          <6>1. row \in 0 .. h - 1 /\ W - 1 \in 0 .. W - 1 /\ W \in Nat
            BY <1>1, <2>3, <4>2
          <6> HIDE DEF W
          <6> QED BY <2>3, <6>1, EarlierLine
        <5>2. end < h * W
          <6> HIDE DEF W
          <6>1. row * W \in Int
            BY <1>1, Products
          <6> QED BY <1>1, <5>1, <6>1
        <5> HIDE DEF start, W, end
        <5>3. start \in Int /\ end \in Int
          BY <1>1, <2>3 DEF end
        <5> QED BY <1>1, <2>3, <5>2, <5>3
      <4> QED BY <1>1, <2>3, <2>5, <4>1, <4>2
    <3> QED BY <2>2, <2>5, <3>1
  <2> QED BY <2>4, <2>5
<1> HIDE DEF W, H, D, start, end
<1>4. ASSUME Narrow, NEW h \in 0 .. H - 1, NEW j \in 0 .. W - 1
      PROVE  Shows(h, j, IF h < row THEN W - 1 - j ELSE j)'
  <2>0. \A g \in 0 .. H - 1, i \in 0 .. W - 1 : Shows(g, i, IF g < row THEN W - 1 - i ELSE i)
    BY <1>1, <1>4 DEF PInv, Mirroring, W, H
  <2> DEFINE i == IF h = row THEN W - 1 - j ELSE j
  <2>1. i \in 0 .. W - 1 /\ h \in Nat
    BY <1>1
  <2>2. Shows(h, i, IF h < row THEN W - 1 - i ELSE i)
    BY <2>0, <2>1
  <2>3. (IF h < row THEN W - 1 - i ELSE i) = IF h < row' THEN W - 1 - j ELSE j
    BY <1>1, <2>1
  <2>4. buf'[h * W + j] = buf[h * W + i]
    BY <1>3
  <2> DEFINE n == IF h < row' THEN W - 1 - j ELSE j
  <2>5. Agrees(Band, buf[h * W + i], PlaneAt(Band, SampleAt(n), call.oy + h * raster.sy))
    BY <2>2, <2>3 DEF Shows, W
  <2> HIDE DEF i, n
  <2>6. Agrees(Band, buf'[h * W + j], PlaneAt(Band, SampleAt(n), call.oy + h * raster.sy))
    BY <2>4, <2>5
  <2>7. W' = W
    BY <1>1 DEF W
  <2> QED BY <1>1, <2>6, <2>7 DEF Shows, SampleAt, FirstSample, n, W
<1>5. Mirroring'
  <2>1. Narrow' <=> Narrow
    BY <1>1 DEF Narrow
  <2>2. row' <= H
    BY <1>1
  <2> QED BY <1>1, <1>4, <2>1, <2>2 DEF Mirroring, W, H
<1>6. Orderly'
  BY <1>1 DEF Orderly
<1> QED BY <1>1, <1>5, <1>6 DEF PInv, LinesShown, Looping, PixelsShown, PixelsCorrect, Idle

LEMMA StutterPInv == ASSUME PInv, UNCHANGED vars PROVE PInv'
<1>1. /\ UNCHANGED <<raster, buf, pc, call, last, reads>>
      /\ UNCHANGED <<iY, pos, recBeg, recEnd, begOld, endOld, lineBeg, lineEnd, k, inter, row, failed>>
      /\ Band' = Band
  BY DEF vars, local, Band
<1>2. Orderly'
  BY <1>1 DEF PInv, Orderly
<1>3. LinesShown'
  BY <1>1 DEF PInv, LinesShown, Looping, PlacedAt, Narrow, Shows, SampleAt, FirstSample
<1>4. PixelsShown'
  BY <1>1 DEF PInv, PixelsShown, Narrow, LinesHeld, LiftedBy, SampleAt, FirstSample
<1>5. Mirroring'
  BY <1>1 DEF PInv, Mirroring, Narrow, Shows, SampleAt, FirstSample
<1>6. PixelsCorrect'
  BY <1>1 DEF PInv, PixelsCorrect, Idle
<1> QED BY <1>2, <1>3, <1>4, <1>5, <1>6 DEF PInv

-----------------------------------------------------------------------------
\* When a read returns zero every pixel of the raster is the value of the plane
\* there, for rasters of any size and step, before the first and beyond the last
\* tie point, mirrored or not (epr_band.c:1025-1062, 1592-1655); of a longitude it is
\* the value up to whole circles, whatever pixels the line was lifted for before.
THEOREM PixelsAreCorrect == Spec => []PixelsCorrect
<1>1. ASSUME IInv, PInv, [Next]_vars PROVE PInv'
  <2>1. CASE UNCHANGED vars
    BY <1>1, <2>1, StutterPInv
  <2>2. CASE CheckCall
    BY <1>1, <2>2, CheckCallPInv
  <2>3. CASE ReadLines
    BY <1>1, <2>3, ReadLinesPInv
  <2>4. CASE DecodePixel
    BY <1>1, <2>4, DecodePixelPInv
  <2>5. CASE LineDone
    BY <1>1, <2>5, LineDonePInv
  <2>6. CASE LinesDone
    BY <1>1, <2>6, LinesDonePInv
  <2>7. CASE MirrorLine
    BY <1>1, <2>7, MirrorLinePInv
  <2>8. CASE MirrorDone
    BY <1>1, <2>8, MirrorDonePInv
  <2>9. ASSUME NEW r \in Rasters, CreateRaster(r) PROVE PInv'
    BY <1>1, <2>9, CreateRasterPInv
  <2>10. CASE FreeRaster
    BY <1>1, <2>10, FreeRasterPInv
  <2>11. ASSUME NEW c \in Calls, ReadBandRaster(c) PROVE PInv'
    BY <1>1, <2>11, ReadBandRasterPInv
  <2> QED BY <1>1, <2>1, <2>2, <2>3, <2>4, <2>5, <2>6, <2>7, <2>8, <2>9, <2>10, <2>11
          DEF Next, ReadStep
<1>2. PInv => PixelsCorrect
  BY DEF PInv
<1> QED BY <1>1, <1>2, InitPInv, Invariance, PTL DEF Spec

=============================================================================
