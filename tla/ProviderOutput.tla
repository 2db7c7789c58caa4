--------------------------- MODULE ProviderOutput ---------------------------
(***************************************************************************)
(* What a provider may return for a document, how the service validates    *)
(* it, and what the tables of 0003 accept.  The two limits on the length   *)
(* of a value are set apart: MaxValueChars is the extraction_max_value_    *)
(* chars setting, between 1 and 10000, and ColumnChars the 4000 of the     *)
(* columns and their checks.                                               *)
(***************************************************************************)
EXTENDS Integers, Sequences, FiniteSets

CONSTANTS
    MaxFields,       \* extraction_max_fields
    MaxValueChars,   \* extraction_max_value_chars
    ColumnChars,     \* String(4000) and ck_extracted_fields_raw_value_length
    MaxInteger,      \* the largest value of an Integer column
    Nothing          \* no value

ASSUME LimitsAssumption ==
    /\ {MaxFields, MaxValueChars, ColumnChars, MaxInteger} \subseteq Nat \ {0}

\* Field paths, by what _validate_field_path makes of them; one may not even be a string.
GoodPath == {"supplier.name", "invoice.total"}
BadPath == {"empty", "too long", "malformed", "lines[0].client_id", "not a string"}

ValueType == {"text", "decimal", "date", "integer", "boolean"}

\* Locators, by what json.dumps and the json column make of them: NaN and infinity are
\* written, in words that are no JSON, and an object inside itself, or nested too deep,
\* stops json.dumps.
Locator == {"none", "good", "malformed", "not a number", "endless"}

\* A confidence is counted in units of 0.00001, a normalized value by its length and by
\* whether it is written as its type asks; storable says that both values hold no
\* character that a text column or its driver refuses (NUL, a lone surrogate).
Observation ==
    [path : GoodPath \cup BadPath, type : ValueType \cup {"other"}, raw : Nat,
     normalized : Nat \cup {Nothing}, typed : BOOLEAN, storable : BOOLEAN,
     confidence : Int \cup {Nothing}, page : Int \cup {Nothing}, locator : Locator]

-----------------------------------------------------------------------------
(* extraction/validation.py *)

\* _validate_field_path.
ValidPath(path) == path \in GoodPath

\* _validate_value_type.
ValidType(type) == type \in ValueType

\* _validate_value.
ValidValue(length) == length <= MaxValueChars

\* _validate_optional_value.
ValidOptional(length) == length # Nothing => ValidValue(length)

\* _validate_normalized_value, by type.
ValidNormalized(o) == o.normalized # Nothing => o.typed

\* A confidence of 1, before and after it is rounded to four decimals.
One == 100000
OneRounded == 10000

\* _validate_confidence, before it is rounded.
ValidConfidence(c) == c # Nothing => c \in 0 .. One

\* quantize to four decimals, half to even.
Quantize(c) ==
    LET q == c \div 10
        r == c % 10
    IN  IF r > 5 \/ (r = 5 /\ q % 2 = 1) THEN q + 1 ELSE q

\* _validate_source_page_number.
ValidPage(page) == page # Nothing => page >= 1

\* _validate_source_locator.
ValidLocator(locator) == locator \in {"none", "good", "not a number"}

\* What validate_provider_field checks before the locator.
ValidUpToLocator(o) ==
    /\ ValidPath(o.path) /\ ValidType(o.type) /\ ValidValue(o.raw)
    /\ ValidOptional(o.normalized) /\ ValidConfidence(o.confidence) /\ ValidPage(o.page)

\* validate_provider_field.
ValidField(o) ==
    ValidUpToLocator(o) /\ ValidLocator(o.locator) /\ ValidNormalized(o)

\* A check stops with an error that is none of validation's own: the length of a path
\* that is no string, or json.dumps at an object inside itself.
RaisesField(o) ==
    \/ o.path = "not a string"
    \/ ValidUpToLocator(o) /\ o.locator = "endless"

Validated(o) ==
    [o EXCEPT !.confidence = IF @ = Nothing THEN Nothing ELSE Quantize(@)]

DistinctPaths(fields) ==
    \A i, j \in DOMAIN fields : fields[i].path = fields[j].path => i = j

\* Mutant: repeated field paths are not looked for.
ValidButRepeated(fields) ==
    Len(fields) <= MaxFields /\ \A i \in DOMAIN fields : ValidField(fields[i])

\* validate_provider_result.
ValidResult(fields) ==
    /\ Len(fields) <= MaxFields
    /\ \A i \in DOMAIN fields : ValidField(fields[i])
    /\ DistinctPaths(fields)

\* Validation passes a number of fields and stops at the next by such an error.
RaisesResult(fields) ==
    /\ Len(fields) <= MaxFields
    /\ \E i \in DOMAIN fields :
          RaisesField(fields[i]) /\ ValidResult(SubSeq(fields, 1, i - 1))

-----------------------------------------------------------------------------
(* extracted_fields *)

\* The column types and checks of one row.
FitsRow(row) ==
    /\ row.path # "empty" /\ row.path # "too long"
    /\ row.type \in ValueType
    /\ row.raw <= ColumnChars
    /\ row.normalized # Nothing => row.normalized <= ColumnChars
    /\ row.confidence # Nothing => row.confidence \in 0 .. OneRounded
    /\ row.page # Nothing => row.page \in 1 .. MaxInteger
    /\ row.storable /\ row.locator # "not a number"

\* uq_extracted_fields_run_field_path.
FitsTable(rows) == DistinctPaths(rows) /\ \A i \in DOMAIN rows : FitsRow(rows[i])
=============================================================================
