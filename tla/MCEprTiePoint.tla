--------------------------- MODULE MCEprTiePoint ---------------------------
(***************************************************************************)
(* EprTiePoint on small MERIS and ASAR grids and on AATSR lines of their   *)
(* real size, with longitudes that cross the date line eastwards,          *)
(* westwards and along the orbit, and the grids a read must not survive.   *)
(***************************************************************************)
EXTENDS EprTiePoint

\* A MERIS band: nine samples, three tie points; six lines, three records.
Mer == [ inst |-> "MER", width |-> 9, height |-> 6, lines |-> 2, samples |-> 4,
         gridRecs |-> 0, numElems |-> 3, numDsr |-> 3, mirrored |-> TRUE,
         float |-> TRUE, longitude |-> FALSE, c |-> 5, dx |-> 3, dy |-> -2 ]
Ats == [Mer EXCEPT !.inst = "ATS", !.width = 512, !.numElems = Solar, !.mirrored = FALSE]
Asa == [Mer EXCEPT !.inst = "ASA", !.width = 21, !.height = 7, !.gridRecs = 3, !.numElems = AsarLocat]

Lon(b, c, dx, dy) == [b EXCEPT !.longitude = TRUE, !.c = c, !.dx = dx, !.dy = dy]

MCBands ==
  { Mer, Asa, [Ats EXCEPT !.numElems = Locat],
    Lon(Mer, 150, 25, 7),                       \* to the east, at element 2
    Lon(Mer, -165, -50, 20),                    \* to the west, and lines differ
    Lon([Mer EXCEPT !.mirrored = FALSE], 175, 1, 4),  \* only between lines
    Lon(Ats, 165, 5, -3), Lon(Asa, -150, -15, 5),
    [Mer EXCEPT !.numDsr = 5],                  \* more records than Sentinel
    [Mer EXCEPT !.numDsr = 1],
    [Asa EXCEPT !.gridRecs = 1], [Asa EXCEPT !.gridRecs = 0],
    [Mer EXCEPT !.inst = "other"], [Mer EXCEPT !.float = FALSE] }

MCRasters ==
  {r \in [sw : {1, 2, 4, 5}, sh : 1 .. 3, sx : 1 .. 4, sy : 1 .. 2] :
     /\ NumElems(r) <= 6
     /\ r.sx <= r.sw /\ r.sy <= r.sh}

MCOffsets == {0, 1, 3, 5, 508}
=============================================================================
