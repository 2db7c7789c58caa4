-------------------------- MODULE AccountingEngine --------------------------
(***************************************************************************)
(* The deterministic accounting engine: what AccountingDecisionEngine      *)
(* concludes from the effective values of a document and from the prior    *)
(* decisions of its client.                                                *)
(*                                                                         *)
(* Values are texts.  What a conversion makes of a text (a decimal, a      *)
(* date, a currency code, a name) is looked up in Lexicon, so a model      *)
(* chooses texts for the cases it wants: unparseable, too precise,         *)
(* written in another case, blank.                                         *)
(***************************************************************************)
EXTENDS ReviewPolicy, Integers, Sequences

CONSTANTS
    Text,         \* the texts a field may hold
    Blank,        \* those that are empty once stripped
    Lexicon,      \* what the conversions make of each text
    None,         \* no value
    Directory,    \* the supplier directory: each entry is the set of its names
    MaxMoney,     \* _MAX_ACCOUNTING_MONEY
    Adjustment    \* synthetic_journal_credit_adjustment

\* The field paths the engine reads: document.type, supplier.name, invoice.*.
Path == {"type", "supplier", "number", "date", "currency", "total", "subtotal", "tax"}
MoneyPath == {"total", "subtotal", "tax"}

ASSUME TextAssumption == Blank \subseteq Text /\ None \notin Text
ASSUME LexiconAssumption ==
    /\ DOMAIN Lexicon = Text
    /\ \A t \in Text :
          LET r == Lexicon[t]
          IN  /\ r.decimal = None \/ r.decimal \in Int      \* Decimal(text), if finite
              /\ r.fine \in BOOLEAN                         \* more than four decimals
              /\ r.day = None \/ r.day \in Int              \* date.fromisoformat(text)
              /\ r.currency = None \/ r.currency \in STRING \* upper case, if three letters
              /\ r.name \in Seq(STRING)                     \* tokens of _normalize_name
              /\ r.key \in Seq(STRING)                      \* the matcher's _normalized_text
              /\ r.folded \in STRING                        \* casefold and strip
ASSUME MoneyAssumption == MaxMoney \in Nat /\ Adjustment \in Int

\* An extracted or corrected value: its raw text and, perhaps, a normalized one.
Value == [raw : Text, normalized : Text \cup {None}]

\* EffectiveExtractionValue.value, then _field_text.
FieldText(v) ==
    LET text == IF v.normalized # None THEN v.normalized ELSE v.raw
    IN  IF text \in Blank THEN None ELSE text

\* build_effective_extraction_values: the latest revision, or what was extracted.
\* Corrections are in the order of their revisions.
EffectiveTexts(fields, corrections) ==
    [p \in Path |->
        LET of == SelectSeq(corrections, LAMBDA c : c.path = p)
        IN  FieldText(IF of = <<>> THEN fields[p] ELSE of[Len(of)].value)]

-----------------------------------------------------------------------------
(* Validation. *)

Supported(e) == e.type = "purchase_invoice"

RequiredFields(type) ==
    IF type = "purchase_invoice"
      THEN {"type", "supplier", "number", "date", "currency", "total"}
      ELSE {"type"}

RelevantFields(type) ==
    RequiredFields(type) \cup (IF type = "purchase_invoice" THEN {"subtotal", "tax"} ELSE {})

\* Mutant: an amount need not be positive.
ValidMoneyOfAnySign(path, text) ==
    /\ Lexicon[text].decimal # None
    /\ ~Lexicon[text].fine
    /\ Lexicon[text].decimal \in -MaxMoney .. MaxMoney

\* _accounting_money_value: exact in four decimals, in range, and a total
\* greater than zero.
ValidMoney(path, text) ==
    /\ Lexicon[text].decimal # None
    /\ ~Lexicon[text].fine
    /\ Lexicon[text].decimal \in (IF path = "total" THEN 1 ELSE 0) .. MaxMoney

MoneyFindings(e) == {p \in MoneyPath : e[p] # None /\ ~ValidMoney(p, e[p])}

InvalidCurrency(e) == e.currency # None /\ Lexicon[e.currency].currency = None

ArithmeticMismatch(e) ==
    /\ \A p \in MoneyPath : e[p] # None /\ ValidMoney(p, e[p])
    /\ Lexicon[e.subtotal].decimal + Lexicon[e.tax].decimal # Lexicon[e.total].decimal

-----------------------------------------------------------------------------
(* Suppliers and duplicates. *)

Tokens(name) == {name[i] : i \in DOMAIN name}

Overlaps(entry, name) ==
    LET known == UNION {Tokens(n) : n \in entry}
        both == Tokens(name) \cap known
    IN  /\ Tokens(name) # {} /\ known # {}
        /\ 2 * Cardinality(both) >= Cardinality(Tokens(name) \cup known)

\* _supplier_match.
SupplierMatch(e) ==
    IF e.supplier = None THEN "no_match"
    ELSE LET name == Lexicon[e.supplier].name
         IN  CASE \E entry \in Directory : name \in entry -> "confident_match"
               [] (\A entry \in Directory : name \notin entry)
                  /\ (\E entry \in Directory : Overlaps(entry, name)) -> "candidate_matches"
               [] OTHER -> "no_match"

\* _comparison_value.
Comparable(path, text) == IF path = "supplier" THEN Lexicon[text].name ELSE Lexicon[text].folded

\* _duplicate_signals, without the source hash.
Signals(e, prior) ==
    {p \in {"supplier", "number", "date", "currency", "total"} :
        e[p] # None /\ prior[p] # None /\ Comparable(p, e[p]) = Comparable(p, prior[p])}

\* Mutant: the confidence must exceed the threshold of 4/5.
DuplicateAboveThreshold(hash, e, priorHash, prior) ==
    hash = priorHash \/ Cardinality(Signals(e, prior)) > 4

\* _duplicate_candidates: the same source file, or a confidence of at least 4/5.
Duplicate(hash, e, priorHash, prior) ==
    hash = priorHash \/ Cardinality(Signals(e, prior)) >= 4

-----------------------------------------------------------------------------
(* AccountingDecisionEngine.decide *)

NoJournal == [currency |-> None, debits |-> 0, credits |-> 0]

\* _proposed_journal: an expense account comes with a confident supplier match.
ProposedJournal(e) ==
    IF /\ Supported(e)
       /\ MoneyFindings(e) = {} /\ ~InvalidCurrency(e)
       /\ SupplierMatch(e) = "confident_match"
       /\ e.total # None /\ e.currency # None
      THEN [currency |-> Lexicon[e.currency].currency,
            debits |-> Lexicon[e.total].decimal,
            credits |-> Lexicon[e.total].decimal + Adjustment]
      ELSE NoJournal

Balanced(journal) == journal # NoJournal /\ journal.debits = journal.credits

\* The codes of the findings; twin says that a prior decision looks like this one
\* and low are the fields extracted with low confidence, corrected or not.
Findings(e, low, twin) ==
    LET named == Supported(e) /\ e.supplier # None
    IN  {code \in {"missing_required_field", "unsupported_document_type",
                   "low_extraction_confidence", "invalid_monetary_value", "invalid_currency",
                   "arithmetic_mismatch", "new_supplier", "possible_duplicate",
                   "unknown_account_mapping", "tax_review_required", "unbalanced_journal"} :
           CASE code = "missing_required_field" -> \E p \in RequiredFields(e.type) : e[p] = None
             [] code = "unsupported_document_type" -> e.type # None /\ ~Supported(e)
             [] code = "low_extraction_confidence" -> low \cap RelevantFields(e.type) # {}
             [] code = "invalid_monetary_value" -> Supported(e) /\ MoneyFindings(e) # {}
             [] code = "invalid_currency" -> Supported(e) /\ InvalidCurrency(e)
             [] code = "arithmetic_mismatch" -> Supported(e) /\ ArithmeticMismatch(e)
             [] code = "new_supplier" -> named /\ SupplierMatch(e) = "no_match"
             [] code = "possible_duplicate" -> Supported(e) /\ twin
             [] code = "unknown_account_mapping" -> named /\ SupplierMatch(e) # "confident_match"
             [] code = "tax_review_required" -> Supported(e)
             [] code = "unbalanced_journal" -> ~Balanced(ProposedJournal(e))
                                                /\ ProposedJournal(e) # NoJournal}

ErrorCodes == {"missing_required_field", "invalid_monetary_value", "invalid_currency",
               "arithmetic_mismatch", "unbalanced_journal"}

\* _SENIOR_REVIEW_FINDING_CODES.
SeniorCodes == {"possible_duplicate", "new_supplier", "low_extraction_confidence",
                "unknown_account_mapping"}

\* What review reads of a decision.
VerdictOf(findings, journal) ==
    [error |-> findings \cap ErrorCodes # {},
     escalating |-> findings \cap SeniorCodes # {},
     journal |-> CASE journal = NoJournal -> "none"
                   [] Balanced(journal) -> "balanced"
                   [] OTHER -> "unbalanced"]
=============================================================================
