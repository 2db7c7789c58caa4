------------------------- MODULE MCPaymentPipeline -------------------------
(***************************************************************************)
(* A small instance of PaymentPipeline: two documents that look alike, the *)
(* second extracted twice with different totals.                           *)
(***************************************************************************)
EXTENDS PaymentPipeline

Plain == [decimal |-> None, fine |-> FALSE, day |-> None, currency |-> None,
          name |-> <<>>, key |-> <<>>, folded |-> ""]
Money(n, text) == [Plain EXCEPT !.decimal = n, !.folded = text]
Day(n, text) == [Plain EXCEPT !.day = n, !.folded = text]
Named(tokens, text) == [Plain EXCEPT !.name = tokens, !.key = tokens, !.folded = text]
Keyed(key, text) == [Plain EXCEPT !.key = key, !.folded = text]

\* Amounts in units of the smallest one; dates as day numbers.
SampleLexicon ==
    [t \in {"", "purchase_invoice", "receipt", "Acme", "ACME.", "Acme Group", "Zeta",
            "INV-7", "inv 7", "INV-71", "day 3", "day 9", "soon", "usd", "USD", "US",
            "0", "2", "8", "10", "10.00", "10.00000", "12"} |->
        CASE t = "Acme" -> Named(<<"acme">>, "acme")
          [] t = "ACME." -> Named(<<"acme">>, "acme.")
          [] t = "Acme Group" -> Named(<<"acme", "group">>, "acme group")
          [] t = "Zeta" -> Named(<<"zeta">>, "zeta")
          [] t = "INV-7" -> Keyed(<<"INV", "7">>, "inv-7")
          [] t = "inv 7" -> Keyed(<<"INV", "7">>, "inv 7")
          [] t = "INV-71" -> Keyed(<<"INV", "7", "1">>, "inv-71")
          [] t = "day 3" -> Day(3, t)
          [] t = "day 9" -> Day(9, t)
          [] t = "soon" -> [Plain EXCEPT !.folded = t]
          [] t \in {"usd", "USD"} -> [Plain EXCEPT !.currency = "USD", !.folded = "usd"]
          [] t = "0" -> Money(0, t)
          [] t = "2" -> Money(2, t)
          [] t = "8" -> Money(8, t)
          [] t \in {"10", "10.00"} -> Money(10, t)
          [] t = "10.00000" -> [Money(10, t) EXCEPT !.fine = TRUE]
          [] t = "12" -> Money(12, t)
          [] OTHER -> [Plain EXCEPT !.folded = t]]

SampleText == DOMAIN SampleLexicon
SampleBlank == {""}
SampleDirectory == {{<<"acme">>}}

Raw(t) == [raw |-> t, normalized |-> None]

Invoice ==
    [type |-> Raw("purchase_invoice"), supplier |-> Raw("Acme"), number |-> Raw("INV-7"),
     date |-> Raw("day 3"), currency |-> Raw("usd"), total |-> Raw("10"),
     subtotal |-> Raw("8"), tax |-> Raw("2")]

SampleDocument == [e \in ExtractionRun |-> IF e = "a" THEN "d1" ELSE "d2"]
SampleHash == [d \in {"d1", "d2"} |-> d]

\* The second document differs in its number and in how names are written; its second
\* extraction run reads another total.
SampleExtracted ==
    [e \in ExtractionRun |->
        CASE e = "a" -> [fields |-> Invoice, low |-> {}]
          [] e = "b" -> [low |-> {"date"},
                         fields |-> [Invoice EXCEPT !.number = Raw("INV-71"), !.currency = Raw("USD"),
                                                    !.supplier = Raw("ACME.")]]
          [] e = "c" -> [low |-> {}, fields |-> [Invoice EXCEPT !.total = Raw("8"), !.tax = Raw("0")]]]

Fix(path, text) == [path |-> path, value |-> Raw(text)]

\* The first document may be corrected to another date, the second in every way
\* the engine and the matcher tell apart.
SampleCorrections ==
    [e \in ExtractionRun |->
        CASE e = "a" -> {Fix("date", "day 9")}
          [] e = "c" -> {Fix("total", "10"), Fix("type", "receipt")}
          [] e = "b" -> {Fix("type", "receipt"),
              Fix("supplier", "Acme Group"), Fix("supplier", "Zeta"),
              Fix("number", "INV-7"), [path |-> "number", value |-> [raw |-> "INV-7", normalized |-> ""]],
              Fix("date", "day 9"), Fix("date", "soon"),
              Fix("currency", "US"),
              Fix("total", "0"), Fix("total", "10.00"), Fix("total", "10.00000"),
              Fix("subtotal", "2"), Fix("total", "12")}]

\* One payment that names its invoice, and one that says nothing but the amount.
SampleBank ==
    [t \in Txn |->
        [day |-> 10, direction |-> "debit", amount |-> 10, currency |-> "USD",
         reference |-> IF t = "named" THEN "inv 7" ELSE None,
         counterparty |-> IF t = "named" THEN "Acme" ELSE None]]
=============================================================================
