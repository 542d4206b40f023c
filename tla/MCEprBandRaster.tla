-------------------------- MODULE MCEprBandRaster --------------------------
(***************************************************************************)
(* EprBandRaster on a scene four samples wide and three lines high, with   *)
(* one band of each kind and all rasters of up to four pixels that         *)
(* sub-sampling can give.                                                  *)
(***************************************************************************)
EXTENDS EprBandRaster

Band(type, smod, raw, mirrored, masked) ==
  [dsType |-> "M", numDsr |-> 3, type |-> type, smod |-> smod, raw |-> raw,
   mirrored |-> mirrored, masked |-> masked]

MCBands ==
  { Band("float", "1OF1", "ushort", TRUE, TRUE),
    Band("float", "1OF2", "short", FALSE, TRUE),
    Band("uchar", "2OF2", "uchar", TRUE, FALSE),
    Band("float", "3TOI", "uchar", FALSE, FALSE),           \* no decoder
    [Band("uchar", "1OF1", "uchar", FALSE, FALSE) EXCEPT !.numDsr = 1],
    [Band("uchar", "1OF1", "uchar", FALSE, FALSE) EXCEPT !.dsType = "other"] }

MCRasters ==
  {r \in [type : {"float", "uchar"}, sw : 1 .. 4, sh : 1 .. 3, sx : 1 .. 3, sy : 1 .. 2] :
     /\ NumElems(r) <= 4
     /\ r.sx <= r.sw /\ r.sy <= r.sh}

MCOffsets == {-1, 0, 1, 2}

MCValid(b, line, x) == (line + x) % 3 # 0
=============================================================================
