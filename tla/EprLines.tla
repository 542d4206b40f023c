------------------------------ MODULE EprLines ------------------------------
(***************************************************************************)
(* What records promise to a caller: each holds nothing yet, one whole     *)
(* line of its dataset, or, after a failed read, no line; a read that      *)
(* returns a record has put the line asked for into it, and no read        *)
(* touches another record.  EprRecord implements this.                     *)
(***************************************************************************)
EXTENDS Integers

CONSTANTS
  Datasets,  \* the datasets of a product
  Records,   \* the records a caller may have at a time
  NumLines,  \* the number of lines of each dataset
  Free,      \* a record that does not exist
  Blank,     \* a new record holds no line yet
  Damaged,   \* a record a failed read has left holds no line
  Nothing    \* no read is in progress, or a read returned no record

VARIABLES
  content,  \* what each record holds
  reading,  \* the read in progress: record, dataset, line
  result    \* the record the last call returned, or Nothing

vars == <<content, reading, result>>

Held(d) == [ds : {d}, line : {Blank, Damaged} \cup 0 .. NumLines[d] - 1]
Reads   == UNION {[rec : Records, ds : {d}, line : 0 .. NumLines[d] - 1] : d \in Datasets}

Init ==
  /\ content = [r \in Records |-> Free]
  /\ reading = Nothing
  /\ result  = Nothing

\* A new record.
Create(r, d) ==
  /\ reading = Nothing
  /\ content[r] = Free
  /\ content' = [content EXCEPT ![r] = [ds |-> d, line |-> Blank]]
  /\ result' = r
  /\ UNCHANGED reading

\* A read begins, into a record of the dataset or a new one.
Begin(c) ==
  /\ reading = Nothing
  /\ \/ content[c.rec] = Free /\ content' = [content EXCEPT ![c.rec] = [ds |-> c.ds, line |-> Blank]]
     \/ content[c.rec] \in Held(c.ds) /\ UNCHANGED content
  /\ reading' = c
  /\ result'  = Nothing

\* The record read into changes: it holds the line asked for or none.
Change ==
  /\ reading # Nothing
  /\ \E l \in {Damaged, reading.line} :
       content' = [content EXCEPT ![reading.rec] = [ds |-> reading.ds, line |-> l]]
  /\ UNCHANGED <<reading, result>>

\* The read returns its record.
Succeed ==
  /\ reading # Nothing
  /\ content[reading.rec] = [ds |-> reading.ds, line |-> reading.line]
  /\ result'  = reading.rec
  /\ reading' = Nothing
  /\ UNCHANGED content

\* The read fails.  It may have damaged the record, or made it in vain.
Fail ==
  /\ reading # Nothing
  /\ content' \in {[content EXCEPT ![reading.rec] = v] :
                     v \in {Free, [ds |-> reading.ds, line |-> Damaged], content[reading.rec]}}
  /\ result'  = Nothing
  /\ reading' = Nothing

\* A call that is refused, or that only looks at a record.
Refuse ==
  /\ reading = Nothing
  /\ result' = Nothing
  /\ UNCHANGED <<content, reading>>

FreeRecord(r) ==
  /\ reading = Nothing
  /\ content' = [content EXCEPT ![r] = Free]
  /\ result'  = Nothing
  /\ UNCHANGED reading

Next ==
  \/ (\E r \in Records, d \in Datasets : Create(r, d))
  \/ (\E c \in Reads : Begin(c))
  \/ Change \/ Succeed \/ Fail \/ Refuse
  \/ (\E r \in Records : FreeRecord(r))

Spec == Init /\ [][Next]_vars
=============================================================================
