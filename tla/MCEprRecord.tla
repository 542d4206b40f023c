---------------------------- MODULE MCEprRecord ----------------------------
(***************************************************************************)
(* EprRecord on a dataset of two fields, with an array of field infos that *)
(* must grow for the second; one of a field that has the same size; one of *)
(* a field without elements; and one whose number of elements cannot be    *)
(* parsed.                                                                 *)
(***************************************************************************)
EXTENDS EprRecord

CONSTANTS pair, twin, empty, unknown

Field(b, c) == [bytes |-> b, count |-> c, parses |-> TRUE, ordered |-> b > 1]

MCLayout ==
  [d \in Datasets |->
     CASE d = pair    -> <<Field(2, 2), Field(1, 1)>>
       [] d = twin    -> <<Field(1, 5)>>
       [] d = empty   -> <<Field(1, 0)>>
       [] d = unknown -> <<[Field(2, 0) EXCEPT !.parses = FALSE]>>]

\* The pair ends where uint arithmetic does.
MCDsd ==
  [d \in Datasets |->
     CASE d = pair    -> [offset |-> 54, size |-> 5, num |-> 2]
       [] d = twin    -> [offset |-> 20, size |-> 5, num |-> 1]
       [] d = empty   -> [offset |-> 30, size |-> 0, num |-> 1]
       [] d = unknown -> [offset |-> 40, size |-> 4, num |-> 1]]
=============================================================================
