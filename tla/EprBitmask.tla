---------------------------- MODULE EprBitmask ----------------------------
(***************************************************************************)
(* The reading of a bitmask (epr_bitmask.c): epr_read_bitmask_raster with  *)
(* its evaluation context, the recursive epr_eval_bm_term and the lazy     *)
(* epr_resolve_bm_ref.                                                     *)
(*                                                                         *)
(* For every pixel the term is walked with short-circuit AND and OR.  A    *)
(* reference to a flag is resolved when it is first met: the raster of its *)
(* band is read, once per call, and kept in the context; the mask of the   *)
(* flag is looked up.  Resolving may set the global error, and almost      *)
(* everything else clears it: the walk is modelled node by node, with the  *)
(* call stack of the recursion, so that the order of the two is kept.      *)
(*                                                                         *)
(* What is kept of a pixel is which flags are set in it.                   *)
(***************************************************************************)
EXTENDS EprBmTerm

CONSTANTS
  Terms,             \* the terms the expressions of a caller parse to
  Bands,             \* names of the bands of the product
  Flags,             \* names of flags
  Coding,            \* the flags in the flag coding of each band
  IsSet(_, _, _),    \* whether a flag of a band is set at a pixel
  NumPixels          \* raster_width * raster_height of the bitmask raster

\* M gives every node of t its truth at pixel i; a NULL argument is false, and
\* so is a reference to what the product does not have.
IsMeaning(t, i, M) ==
  /\ M[0] = FALSE
  /\ \A k \in DOMAIN t :
       M[k] = CASE t[k].op = "REF" -> /\ t[k].band \in Bands
                                      /\ t[k].flag \in Coding[t[k].band]
                                      /\ IsSet(t[k].band, t[k].flag, i)
                [] t[k].op = "AND" -> M[t[k].arg1] /\ M[t[k].arg2]
                [] t[k].op = "OR"  -> M[t[k].arg1] \/ M[t[k].arg2]
                [] t[k].op = "NOT" -> ~M[t[k].arg1]

Pixels == 0 .. NumPixels - 1

ASSUME CodingAssumption == Coding \in [Bands -> SUBSET Flags]
ASSUME PixelsAssumption == NumPixels \in Nat \ {0}
ASSUME IsSetAssumption  ==
  \A b \in Bands, f \in Flags, i \in Pixels : IsSet(b, f, i) \in BOOLEAN

\* The parser builds trees.
ASSUME TermsAssumption ==
  \A t \in Terms :
    /\ t \in Seq(NodeType) /\ t # << >>
    /\ \A k \in DOMAIN t : t[k].arg1 < k /\ t[k].arg2 < k

VARIABLES
  term,     \* the term of the call
  out,      \* the buffer of the bitmask raster
  errCode,  \* epr_api.last_err_code
  pc,       \* "idle", "visit" a node, a node's "result", or "crash"
  node,     \* the node to visit
  val,      \* the result of the node just evaluated
  stack,    \* the nodes whose first argument is being evaluated
  pix,      \* the pixel
  loaded,   \* the bands of context->flag_band_ids, with their rasters
  refs,     \* for each node: flag_raster and flag_mask of a reference
  failed,   \* whether a reference could not be resolved in this call
  last      \* what the last call returned, and for which term

vars == <<term, out, errCode, pc, node, val, stack, pix, loaded, refs, failed, last>>

ReadErrors == {"file_read_error", "file_access_denied", "illegal_arg"}
ErrCodes   == {"none", "flag_not_found", "illegal_data_type", "out_of_memory"} \cup ReadErrors

\* A reference is new, or has the raster of a band and the mask of its flag,
\* or has a raster and FLAG_MASK_NOT_COMPUTED.
New       == [state |-> "new", band |-> ""]
Ready(b)  == [state |-> "ready", band |-> b]
NoMask(b) == [state |-> "noMask", band |-> b]
RefStates == {New} \cup {Ready(b) : b \in Bands} \cup {NoMask(b) : b \in Bands}

Idle == pc = "idle"

NotRead == [code |-> "unread", term |-> << >>, failed |-> FALSE]

-----------------------------------------------------------------------------
(***************************************************************************)
(* epr_read_bitmask_raster: the call and the loop over the pixels.         *)
(***************************************************************************)

\* The call is refused: the raster is of another type than char, or has no
\* buffer, or the context or the term cannot be made.
ReadRefused ==
  /\ Idle
  /\ \E err \in {"illegal_data_type", "out_of_memory", "illegal_arg"} :
       /\ errCode' = err
       /\ last' = [NotRead EXCEPT !.code = err]
  /\ UNCHANGED <<term, out, pc, node, val, stack, pix, loaded, refs, failed>>

\* A fresh context, a fresh term, and whatever the raster held before.  The
\* error of a parse that failed but gave a term is cleared.
ReadBitmaskRaster(t) ==
  /\ Idle
  /\ term'    = t
  /\ errCode' = "none"
  /\ pc'      = "visit"
  /\ node'    = Len(t)
  /\ pix'     = 0
  /\ loaded'  = << >>
  /\ refs'    = [k \in DOMAIN t |-> New]
  /\ failed'  = FALSE
  /\ last'    = NotRead
  /\ UNCHANGED <<out, val, stack>>

\* Mutant of CodeToReturn: the error is asked for after the context is freed.
MutCodeToReturn == IF loaded # << >> THEN "none" ELSE errCode

\* errcode is taken before the term and the context are freed.
CodeToReturn == errCode

\* Mutant of MorePixels: one pixel too many.
MutMorePixels == pix + 1 <= NumPixels

MorePixels == pix + 1 < NumPixels

\* Mutant of NextPixel: every line starts at the first pixel again.
MutNextPixel == 0

\* The pixels are visited line by line.
NextPixel == pix + 1

\* The term has its value at pix.  The loop ends at the first error; the
\* rasters of the context are freed, and epr_free_raster clears the error.
PixelDone ==
  /\ pc = "result"
  /\ stack = << >>
  /\ out' = [out EXCEPT ![pix] = val]
  /\ \/ /\ errCode = "none" /\ MorePixels
        /\ pix'  = NextPixel
        /\ pc'   = "visit"
        /\ node' = Len(term)
        /\ UNCHANGED <<term, errCode, val, loaded, refs, failed, last>>
     \/ /\ errCode # "none" \/ ~MorePixels
        /\ last'    = [code |-> CodeToReturn, term |-> term, failed |-> failed]
        /\ errCode' = IF loaded # << >> THEN "none" ELSE errCode
        /\ pc'      = "idle"
        /\ term' = << >> /\ refs' = << >> /\ loaded' = << >>
        /\ node' = 0 /\ pix' = 0 /\ val' = FALSE /\ failed' = FALSE
  /\ UNCHANGED stack

-----------------------------------------------------------------------------
(***************************************************************************)
(* epr_eval_bm_term.                                                       *)
(***************************************************************************)

\* The node at hand is evaluated.
Answer(v) == val' = v /\ pc' = "result" /\ UNCHANGED <<node, stack>>

VisitNull ==
  /\ pc = "visit" /\ node = 0
  /\ Answer(FALSE)
  /\ UNCHANGED <<term, out, errCode, pix, loaded, refs, failed, last>>

VisitOperator ==
  /\ pc = "visit" /\ node # 0
  /\ term[node].op # "REF"
  /\ stack' = Append(stack, node)
  /\ node'  = term[node].arg1
  /\ UNCHANGED <<term, out, errCode, pc, val, pix, loaded, refs, failed, last>>

\* Mutant of GoesOn: AND and OR both evaluate their second argument.
MutGoesOn(op, v) == op # "NOT"

\* Whether the second argument is to be evaluated after the first one gave v.
GoesOn(op, v) == (op = "AND" /\ v) \/ (op = "OR" /\ ~v)

\* The first argument of the node on top of the stack has its value.  A second
\* argument is evaluated in the place of the node.
FirstArgument ==
  /\ pc = "result" /\ stack # << >>
  /\ LET top == stack[Len(stack)]
         op  == term[top].op
     IN  /\ stack' = SubSeq(stack, 1, Len(stack) - 1)
         /\ IF GoesOn(op, val)
            THEN /\ node' = term[top].arg2
                 /\ pc' = "visit"
                 /\ val' = val
            ELSE /\ val' = IF op = "NOT" THEN ~val ELSE val
                 /\ UNCHANGED <<node, pc>>
  /\ UNCHANGED <<term, out, errCode, pix, loaded, refs, failed, last>>

-----------------------------------------------------------------------------
(***************************************************************************)
(* References to flags.                                                    *)
(***************************************************************************)

AtRef(state) ==
  /\ pc = "visit" /\ node # 0
  /\ term[node].op = "REF"
  /\ refs[node].state = state

\* A resolved reference: epr_get_pixel_as_uint clears the error.
VisitReady ==
  /\ AtRef("ready")
  /\ errCode' = "none"
  /\ Answer(IsSet(refs[node].band, term[node].flag, pix))
  /\ UNCHANGED <<term, out, pix, loaded, refs, failed, last>>

\* A reference with a raster but no mask: the assertion fails, or, in a build
\* with NDEBUG, all 32 bits are asked for, which no flag band has.
VisitNoMask ==
  /\ AtRef("noMask")
  /\ \/ /\ pc' = "crash"
        /\ UNCHANGED <<errCode, node, val, stack>>
     \/ /\ errCode' = "none"
        /\ Answer(FALSE)
  /\ UNCHANGED <<term, out, pix, loaded, refs, failed, last>>

\* Mutant of InContext: only the first band of the context is looked at.
MutFirstOnly(b) == {i \in DOMAIN loaded : i = 1 /\ loaded[i] = b}

\* Mutant of InContext: any band of the context will do.
MutInContext(b) == {i \in DOMAIN loaded : TRUE}

\* Where the context has the band.
InContext(b) == {i \in DOMAIN loaded : loaded[i] = b}

ResolveFails(err) ==
  /\ errCode' = err
  /\ failed'  = TRUE
  /\ Answer(FALSE)

UnknownBand ==
  /\ AtRef("new")
  /\ InContext(term[node].band) = {}
  /\ term[node].band \notin Bands
  /\ ResolveFails("flag_not_found")
  /\ UNCHANGED <<term, out, pix, loaded, refs, last>>

\* The raster of the band is created and read, and registered when it could be
\* read; either one clears the error first.  A raster that could not be
\* created is used all the same.
LoadBand ==
  /\ AtRef("new")
  /\ InContext(term[node].band) = {}
  /\ term[node].band \in Bands
  /\ \/ /\ \E err \in ReadErrors : ResolveFails(err)
        /\ UNCHANGED loaded
     \/ /\ pc' = "crash"
        /\ UNCHANGED <<errCode, loaded, node, val, stack, failed>>
     \/ /\ loaded' = Append(loaded, term[node].band)
        /\ errCode' = "none"
        /\ UNCHANGED <<pc, node, val, stack, failed>>
  /\ UNCHANGED <<term, out, pix, refs, last>>

\* The flag is looked up in the flag coding of the band of the context.
FindFlag ==
  /\ AtRef("new")
  /\ InContext(term[node].band) # {}
  /\ \E i \in InContext(term[node].band) :
       \/ /\ term[node].flag \in Coding[loaded[i]]
          /\ refs' = [refs EXCEPT ![node] = Ready(loaded[i])]
          /\ UNCHANGED <<errCode, failed, pc, node, val, stack>>
       \/ /\ term[node].flag \notin Coding[loaded[i]]
          /\ refs' = [refs EXCEPT ![node] = NoMask(loaded[i])]
          /\ ResolveFails("flag_not_found")
  /\ UNCHANGED <<term, out, pix, loaded, last>>

-----------------------------------------------------------------------------
Init ==
  /\ term    = << >>
  /\ out     = [i \in Pixels |-> FALSE]
  /\ errCode = "none"
  /\ pc      = "idle"
  /\ node    = 0
  /\ val     = FALSE
  /\ stack   = << >>
  /\ pix     = 0
  /\ loaded  = << >>
  /\ refs    = << >>
  /\ failed  = FALSE
  /\ last    = NotRead

EvalStep ==
  \/ VisitNull \/ VisitOperator \/ FirstArgument
  \/ VisitReady \/ VisitNoMask \/ UnknownBand \/ LoadBand \/ FindFlag
  \/ PixelDone

Next ==
  \/ EvalStep
  \/ ReadRefused
  \/ \E t \in Terms : ReadBitmaskRaster(t)

\* A call that has begun runs on: the library is sequential code.
Spec == Init /\ [][Next]_vars /\ WF_vars(EvalStep)

-----------------------------------------------------------------------------
(***************************************************************************)
(* Properties.                                                             *)
(***************************************************************************)

\* Every variable has its type; the stack holds operators, each inside the
\* one below it.
TypeOK ==
  /\ term \in Terms \cup {<< >>}
  /\ out \in [Pixels -> BOOLEAN]
  /\ errCode \in ErrCodes
  /\ pc \in {"idle", "visit", "result", "crash"}
  /\ node \in 0 .. Len(term)
  /\ val \in BOOLEAN
  /\ \A k \in DOMAIN stack : stack[k] \in DOMAIN term /\ term[stack[k]].op # "REF"
  /\ \A j, k \in DOMAIN stack : j < k => stack[k] < stack[j]
  /\ pix \in Pixels
  /\ \A k \in DOMAIN loaded : loaded[k] \in Bands
  /\ refs \in [DOMAIN term -> RefStates]
  /\ failed \in BOOLEAN
  /\ last \in [code : ErrCodes \cup {"unread"}, term : Terms \cup {<< >>}, failed : BOOLEAN]

\* Truth of the term at a pixel.
Meaning(t, i) ==
  (CHOOSE M \in [0 .. Len(t) -> BOOLEAN] : IsMeaning(t, i, M))[Len(t)]

\* When epr_read_bitmask_raster returns zero and every reference it met could
\* be resolved, each pixel of the raster is the truth of the expression there,
\* in spite of short circuits, of references resolved only at later pixels,
\* and of what the raster held before.
MaskCorrect ==
  Idle /\ last.code = "none" /\ ~last.failed =>
    \A i \in Pixels : out[i] = Meaning(last.term, i)

\* An expression without OR and NOT reports its errors: false ends its
\* evaluation, so that nothing comes after the error to clear it.
ConjunctionsReport ==
  Idle /\ last.failed /\ (\A k \in DOMAIN last.term : last.term[k].op \in {"REF", "AND"}) =>
    last.code # "none"

\* A band is read at most once in a call, however many references there are
\* to its flags and however many pixels.
ReadOnce == \A i, j \in DOMAIN loaded : loaded[i] = loaded[j] => i = j

\* Every call comes to an end.
ReadEnds == ~Idle ~> (Idle \/ pc = "crash")

\* epr_bitmask.c:194 asserts that a reference that has its raster has its mask
\* too.  The code reaches the assertion without a mask, when the error of a
\* flag that does not exist was cleared and the next pixel is evaluated (see
\* the run that violates it).
MaskComputed == ~AtRef("noMask")
=============================================================================
