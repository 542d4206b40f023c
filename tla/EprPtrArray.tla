---------------------------- MODULE EprPtrArray ----------------------------
(***************************************************************************)
(* EPR_SPtrArray (epr_ptrarray.c): an array of pointers that doubles its   *)
(* capacity when it is full.  Memory may run out then; the array is left   *)
(* as it was and the function returns an error code.                       *)
(***************************************************************************)
EXTENDS Integers, Sequences

Arrays(S) == [capacity : Nat, elems : Seq(S)]

\* epr_create_ptr_array.
NewArray(n) == [capacity |-> n, elems |-> << >>]

\* epr_grow_ptr_array: the possible arrays.
Grow(a, n) == {a, [a EXCEPT !.capacity = n]}

Full(a) == Len(a.elems) + 1 > a.capacity

\* Mutant of AddElem: whether the array grew is not looked at.
MutAddElem(a, e) ==
  LET room == IF Full(a) THEN Grow(a, 2 * a.capacity) ELSE {a}
  IN  {[b EXCEPT !.elems = Append(@, e)] : b \in room}

\* epr_add_ptr_array_elem: the possible arrays; the old one if it did not grow.
AddElem(a, e) ==
  LET room == IF Full(a) THEN Grow(a, 2 * a.capacity) ELSE {a}
  IN  {IF Full(b) THEN b ELSE [b EXCEPT !.elems = Append(@, e)] : b \in room}

\* Several elements, one after the other, by callers that ignore the result.
AddElems(a, s) ==
  LET add[n \in 0 .. Len(s)] ==
        IF n = 0 THEN {a} ELSE UNION {AddElem(b, s[n]) : b \in add[n - 1]}
  IN  add[Len(s)]
=============================================================================
