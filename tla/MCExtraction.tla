---------------------------- MODULE MCExtraction ----------------------------
(***************************************************************************)
(* A small instance of Extraction.  Outputs hold one observation that is   *)
(* right, or wrong or at a limit in one respect, two, or one too many.     *)
(***************************************************************************)
EXTENDS Extraction, TLC

Plain == [path |-> "supplier.name", type |-> "text", raw |-> 1, normalized |-> Nothing,
          typed |-> TRUE, storable |-> TRUE, confidence |-> Nothing, page |-> Nothing,
          locator |-> "good"]
Other == [Plain EXCEPT !.path = "invoice.total", !.type = "decimal", !.normalized = 1]

Single ==
    {Plain, [Other EXCEPT !.typed = FALSE], [Plain EXCEPT !.type = "other"],
     [Plain EXCEPT !.storable = FALSE]}
    \cup {[Plain EXCEPT !.locator = l] : l \in Locator}
    \cup {[Plain EXCEPT !.path = p] : p \in BadPath}
    \cup {[Plain EXCEPT !.raw = n] : n \in {0, MaxValueChars, MaxValueChars + 1}}
    \cup {[Other EXCEPT !.normalized = n] : n \in {MaxValueChars, MaxValueChars + 1}}
    \cup {[Plain EXCEPT !.confidence = c] :
             c \in {0 - 4, 0 - 1, 0, 5, 15, 99994, 99995, 100000, 100004, 100005}}
    \cup {[Plain EXCEPT !.page = n] : n \in {0, 1, MaxInteger, MaxInteger + 1}}

SampleOutputs ==
    {<<>>, <<Plain, Other>>, <<Plain, Plain>>, <<Plain, Other, Plain>>,
     <<[Plain EXCEPT !.path = "empty"], [Other EXCEPT !.locator = "endless"]>>,
     <<Plain, [Other EXCEPT !.path = "not a string"]>>}
    \cup {<<o>> : o \in Single}

\* Without page numbers, which have a limit of their own.
LongOutputs == {<<[Plain EXCEPT !.raw = n]>> : n \in 1 .. MaxValueChars}

Interchangeable == Permutations(Upload)
=============================================================================
