--------------------------- MODULE ReviewLifecycle ---------------------------
(***************************************************************************)
(* What human review promises about one set of tasks, without sessions,    *)
(* locks or corrections: a task moves only along the allowed transitions,  *)
(* an information request returns to the state it interrupted, seniority   *)
(* once reached is never given up, and a task ends together with its one   *)
(* outcome.                                                                *)
(***************************************************************************)
EXTENDS ReviewPolicy

CONSTANT Task

VARIABLES
    status,      \* "absent" until the task is created
    resume,      \* where an outstanding information request returns to
    resolution   \* "none" until the task has its outcome

lifecycle == <<status, resume, resolution>>

Begin ==
    /\ status = [t \in Task |-> "absent"]
    /\ resume = [t \in Task |-> "open"]
    /\ resolution = [t \in Task |-> "none"]

Create(t) ==
    /\ status[t] = "absent"
    /\ status' = [status EXCEPT ![t] = "open"]
    /\ UNCHANGED <<resume, resolution>>

Escalate(t) ==
    /\ status[t] = "open"
    /\ status' = [status EXCEPT ![t] = "escalated"]
    /\ resume' = [resume EXCEPT ![t] = "escalated"]
    /\ UNCHANGED resolution

AskForInformation(t) ==
    /\ status[t] \in {"open", "escalated"}
    /\ status' = [status EXCEPT ![t] = "information_requested"]
    /\ resume' = [resume EXCEPT ![t] = status[t]]
    /\ UNCHANGED resolution

ReceiveInformation(t) ==
    /\ status[t] = "information_requested"
    /\ status' = [status EXCEPT ![t] = resume[t]]
    /\ UNCHANGED <<resume, resolution>>

Resolve(t, s, r) ==
    /\ status[t] \in Status
    /\ s \in AllowedTransitions[status[t]] \cap Terminal
    /\ resolution[t] = "none"
    /\ IF s = "rejected" THEN r = "rejected" ELSE r \in {"approved", "corrected_and_approved"}
    /\ status' = [status EXCEPT ![t] = s]
    /\ resolution' = [resolution EXCEPT ![t] = r]
    /\ UNCHANGED resume

Step ==
    \E t \in Task :
        \/ Create(t) \/ Escalate(t) \/ AskForInformation(t) \/ ReceiveInformation(t)
        \/ \E s \in Terminal, r \in {"approved", "corrected_and_approved", "rejected"} :
              Resolve(t, s, r)

Lifecycle == Begin /\ [][Step]_lifecycle
=============================================================================
