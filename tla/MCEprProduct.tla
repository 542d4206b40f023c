--------------------------- MODULE MCEprProduct ---------------------------
(***************************************************************************)
(* EprProduct on two product structures and files of every kind: good ones *)
(* of each instrument with different header sizes, and one for each thing  *)
(* that can be wrong with a file.                                          *)
(***************************************************************************)
EXTENDS EprProduct

Good(mission, sph, mds) ==
  [mission |-> mission, mphFields |-> TRUE, sphSize |-> sph, numDsd |-> 2,
   filled |-> 2, dsOffset |-> MphSize + sph, sphDyn |-> TRUE, known |-> TRUE,
   banded |-> TRUE, mds |-> mds]

MER == Good("MER", 7, {2, 3})
ASA == Good("ASA", 8, {4})

MCFiles ==
  { MER, ASA, Good("ATS", 8, {}),
    [Good("WVI", 7, {1}) EXCEPT !.sphDyn = FALSE, !.banded = FALSE],
    [MER EXCEPT !.mission = "other"],
    [MER EXCEPT !.mphFields = FALSE],
    [MER EXCEPT !.sphDyn = FALSE],
    [MER EXCEPT !.known = FALSE],
    [MER EXCEPT !.dsOffset = @ + 1],          \* the head size of ASA
    [Good("ATS", 8, {}) EXCEPT !.sphSize = 0],
    [Good("ATS", 8, {}) EXCEPT !.numDsd = 0, !.filled = 0],
    [Good("ATS", 8, {2}) EXCEPT !.sphSize = 5, !.dsOffset = MphSize + 5],
    [Good("ATS", 8, {2}) EXCEPT !.sphSize = 62, !.dsOffset = 8] }   \* the sum wraps
=============================================================================
