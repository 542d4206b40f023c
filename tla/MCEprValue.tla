----------------------------- MODULE MCEprValue -----------------------------
(***************************************************************************)
(* Bytes with two values, so that every word of every type is tried.       *)
(***************************************************************************)
EXTENDS EprValue

MCFileTypes == Types \ {"double"}
=============================================================================
