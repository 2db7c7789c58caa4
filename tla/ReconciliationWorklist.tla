----------------------- MODULE ReconciliationWorklist -----------------------
(***************************************************************************)
(* ReconciliationWorklistService.list_items beside the requests that       *)
(* change what it lists.  It locks nothing and runs one query after        *)
(* another, each of which sees what is committed by then: the match runs,  *)
(* then the reviews, then the outcomes, then the transactions.  A list is  *)
(* therefore put together from four different moments.                     *)
(*                                                                         *)
(* The filter by state and the limit only leave items out and are not      *)
(* modelled.                                                               *)
(***************************************************************************)
EXTENDS Reconciliation

VARIABLES
    list,         \* the query the request has reached, and what the earlier ones read
    seen          \* auxiliary: the workflow states of each transaction since it began

allVars == <<vars, list, seen>>

\* _project_workflow_state, from a transaction's latest match run, if any, and
\* its review: the state is the review's if there is one.
ProjectWorkflowState(run, r) ==
    CASE r.status = "open" -> "in_review"
      [] r.status = "disputed" -> "disputed"
      [] r.status = "matched" -> "matched"
      [] r.status = "unmatched" -> "resolved_unmatched"
      [] r.status = "absent" /\ run = None -> "not_evaluated"
      [] r.status = "absent" /\ run # None ->
            IF run = {} THEN "unmatched" ELSE "candidates_available"

NotListing == [phase |-> "idle", latestRuns |-> [t \in Txn |-> None],
               reviews |-> [t \in Txn |-> NoReview], outcomes |-> {}, items |-> {}]

WorklistInit == Init /\ list = NotListing /\ seen = [t \in Txn |-> {}]

\* The workflow state an imported transaction is really in.
StateNow(t) ==
    IF t \in imported
      THEN {ProjectWorkflowState(IF runs[t] = <<>> THEN None ELSE runs[t][Len(runs[t])], review[t])}
      ELSE {}

\* Mutant: the first run of each transaction wins.
ListFirstMatchRuns ==
    /\ list.phase = "idle"
    /\ list' = [list EXCEPT !.phase = "reviews",
                  !.latestRuns = [t \in Txn |-> IF runs[t] = <<>> THEN None ELSE runs[t][1]]]
    /\ seen' = [t \in Txn |-> StateNow(t)]
    /\ UNCHANGED vars

\* list_match_runs, the first query: the last run of each transaction wins.
ListMatchRuns ==
    /\ list.phase = "idle"
    /\ list' = [list EXCEPT !.phase = "reviews",
                  !.latestRuns = [t \in Txn |->
                      IF runs[t] = <<>> THEN None ELSE runs[t][Len(runs[t])]]]
    /\ seen' = [t \in Txn |-> StateNow(t)]
    /\ UNCHANGED vars

ListReviews ==
    /\ list.phase = "reviews"
    /\ list' = [list EXCEPT !.phase = "outcomes", !.reviews = review]
    /\ UNCHANGED <<vars, seen>>

ListOutcomes ==
    /\ list.phase = "outcomes"
    /\ list' = [list EXCEPT !.phase = "transactions", !.outcomes = outcomes]
    /\ UNCHANGED <<vars, seen>>

\* Mutant: the reviews are queried after the outcomes.
ListTransactionsAndReviews ==
    /\ list.phase = "transactions"
    /\ list' = [list EXCEPT !.phase = "done",
                  !.items = {[txn |-> t,
                              state |-> ProjectWorkflowState(list.latestRuns[t], review[t]),
                              outcome |-> {p \in list.outcomes : p.txn = t}] : t \in imported}]
    /\ UNCHANGED <<vars, seen>>

\* list_transactions, and one item for each.
ListTransactions ==
    /\ list.phase = "transactions"
    /\ list' = [list EXCEPT !.phase = "done",
                  !.items = {[txn |-> t,
                              state |-> ProjectWorkflowState(list.latestRuns[t], list.reviews[t]),
                              outcome |-> {p \in list.outcomes : p.txn = t}] : t \in imported}]
    /\ UNCHANGED <<vars, seen>>

\* The answer is sent; only what it said matters from here on.
Answered ==
    /\ list.phase = "done"
    /\ list' = NotListing
    /\ seen' = [t \in Txn |-> {}]
    /\ UNCHANGED vars

\* Any step of the other requests.
Change ==
    /\ Next
    /\ seen' = IF list.phase = "idle" THEN seen ELSE [t \in Txn |-> seen[t] \cup StateNow(t)']
    /\ UNCHANGED list

WorklistNext == Change \/ ListMatchRuns \/ ListReviews \/ ListOutcomes \/ ListTransactions \/ Answered

WorklistSpec == WorklistInit /\ [][WorklistNext]_allVars

-----------------------------------------------------------------------------
(* Properties. *)

\* The workflow state listed for a transaction is one it was really in at some
\* moment of the request, although its match run and its review were read at
\* different moments.
ListedStateWasReal ==
    list.phase = "done" => \A item \in list.items : item.state \in seen[item.txn]

\* A transaction listed as resolved is listed with the outcome that resolved it.
ResolvedItemHasOutcome ==
    list.phase = "done" =>
        \A item \in list.items :
            item.state \in {"matched", "resolved_unmatched"} =>
                \E p \in item.outcome :
                    item.state = IF p.type = "matched" THEN "matched" ELSE "resolved_unmatched"
=============================================================================
