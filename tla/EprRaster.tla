----------------------------- MODULE EprRaster -----------------------------
(***************************************************************************)
(* The geometry of rasters (epr_band.c): how a source region with steps    *)
(* becomes lines of pixels in one linear buffer, and how lines that a      *)
(* product stores from right to left are read and turned round.  Readers   *)
(* of measurement bands and of tie-point bands share it.                   *)
(***************************************************************************)
EXTENDS Integers

\* What a raster is created from: width, height and steps of the source.
Sizes == [ sw : Nat \ {0}, sh : Nat \ {0}, sx : Nat \ {0}, sy : Nat \ {0} ]

\* Mutant of RasterWidth: the last sub-sampled column is forgotten.
MutRasterWidth(r) == r.sw \div r.sx

\* raster_width and raster_height.
RasterWidth(r)  == (r.sw - 1) \div r.sx + 1
RasterHeight(r) == (r.sh - 1) \div r.sy + 1
NumElems(r)     == RasterWidth(r) * RasterHeight(r)

\* The k for which a decoder's loop reads sample first + k * step_x.
LineSteps(r) == {k \in 0 .. r.sw - 1 : k * r.sx <= r.sw - 1}

\* delta_raster_pos.
LinePixels(r) == (r.sw - 1) \div r.sx + 1

\* Mutant of OffsetMirrored: without the extra offset, which only matters
\* when the step does not divide the source width.
MutOffsetMirrored(r, ox, width) == (width - 1) - (ox + r.sw - 1)

\* offset_x_mirrored for a mirrored band in a scene of the given width.
OffsetMirrored(r, ox, width) ==
  LET extra == r.sw - ((RasterWidth(r) - 1) * r.sx + 1)
  IN  (width - 1) - (ox + r.sw - 1) + extra

\* mirror_*_array: one turn of the outer loop reverses a raster line in place.
LineReversed(buf, r, h) ==
  LET start == h * RasterWidth(r)
      end   == start + RasterWidth(r) - 1
  IN  [i \in DOMAIN buf |-> IF i \in start .. end THEN buf[start + end - i] ELSE buf[i]]

=============================================================================
