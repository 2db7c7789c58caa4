---------------------------- MODULE MCBankImport ----------------------------
(* Small instances of BankImport for TLC. *)
EXTENDS BankImport

\* A batch, also with its rows in the other order and with a changed value;
\* batches under other references that overlap with it and with one another, in
\* orders that can deadlock two or three requests, one of them for two periods;
\* and one that repeats a transaction.
SampleBatches ==
    LET row(s, v) == [source |-> s, value |-> v]
        batch(r, p, rows) == [ref |-> r, period |-> p, rows |-> rows]
    IN  {batch("A", 1, <<row("x", 1), row("y", 1)>>),
         batch("A", 1, <<row("y", 1), row("x", 1)>>),
         batch("A", 1, <<row("x", 1), row("y", 2)>>),
         batch("B", 1, <<row("y", 1), row("z", 1)>>),
         batch("B", 2, <<row("y", 1), row("x", 1)>>),
         batch("C", 1, <<row("z", 1), row("x", 1)>>),
         batch("C", 1, <<row("z", 1), row("z", 1)>>)}
=============================================================================
