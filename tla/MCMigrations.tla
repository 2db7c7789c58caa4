---------------------------- MODULE MCMigrations ----------------------------
\* One ordinary decision and one that calls for a senior reviewer.
EXTENDS Migrations, TLC

CONSTANTS t1, t2

MCClassOf == t1 :> "ordinary" @@ t2 :> "senior_review_required"
=============================================================================
