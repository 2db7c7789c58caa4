----------------------- MODULE HumanReviewTaskProofs -----------------------
(***************************************************************************)
(* Proofs about the review tasks and their outcomes: each operation        *)
(* changes the task it has locked from what it read, so the history of a   *)
(* task explains its row, a resolved task has exactly one outcome, given   *)
(* by somebody with the authority for it, and the committed rows implement *)
(* the abstract lifecycle.                                                 *)
(***************************************************************************)
EXTENDS HumanReviewProofs, WellFoundedInduction

\* What an operation that has locked task t is about to make of it.
TaskChange(t, new, event, actor) ==
    /\ t.status \in Status \ Terminal
    /\ new.risk = t.risk
    /\ \/ event = "commented" /\ new = t
       \/ /\ event = "escalated" /\ t.status = "open" /\ new.status = "escalated"
          /\ new.owner \in Reviewer /\ new.escalation = "senior_review"
       \/ /\ new.owner = t.owner /\ new.escalation = t.escalation
          /\ \/ /\ event = "information_requested" /\ t.status \in {"open", "escalated"}
                /\ new.status = "information_requested"
             \/ /\ event = "information_responded" /\ t.status = "information_requested"
                /\ new.status = IF t.escalation = "senior_review" THEN "escalated" ELSE "open"
             \/ event = "rejected" /\ t.owner = actor /\ new.status = "rejected"
             \/ /\ event = "approved" /\ t.status \in {"open", "escalated"}
                /\ t.owner = actor /\ MayApprove(actor, t) /\ new.status = "approved"

\* The risk a task was given is that of its decision.
OnDecision(t, dec) ==
    dec.status = "succeeded" /\ t.risk = ClassifyReviewRisk(dec.verdict) /\ t.owner \in Reviewer

\* What a session relies on between locking a task, or finding none, and its commit.
PreparedTask(row, t, dec) ==
    /\ row.state = "approve_wait" => t.status \in {"open", "escalated"} /\ t.owner = row.actor
    /\ row.state = "task_commit" => TaskChange(t, row.row, row.event, row.actor)
    /\ row.state = "create_commit" =>
          OnDecision(row.row, dec) /\ row.row.status = "open" /\ row.row.escalation = "none"

\* f assigns the status of a task to each number of the events of h.
IsReplay(f, h) ==
    f = [n \in 0 .. Len(h) |->
            IF n = 0 THEN "absent"
                     ELSE StatusAfter(f[n - 1], EscalatedBy(h, n - 1), h[n])]

Explained(t, h) ==
    /\ \E f : IsReplay(f, h) /\ f[Len(h)] = t.status
    /\ t.escalation = "senior_review" <=> EscalatedBy(h, Len(h))

\* A row of review_tasks, with its decision and its history.
TaskRowOK(t, dec, h) ==
    /\ t.status = "absent" => t = NoTask /\ h = <<>>
    /\ t.status # "absent" => OnDecision(t, dec)
    /\ t.status = "open" => t.escalation = "none"
    /\ t.status = "escalated" => t.escalation = "senior_review"
    /\ Explained(t, h)

\* A row of review_outcomes, with its task, its decision and its history.
OutcomeOK(o, t, dec, h) ==
    /\ t.status = (IF ApprovedOutcome(o) THEN "approved" ELSE "rejected") /\ t.owner = o.actor
    /\ ApprovedOutcome(o) =>
          LET risk == ClassifyReviewRisk(dec.verdict)
          IN  /\ risk # "blocked"
              /\ risk = "senior_review_required" =>
                    o.actor \in Senior /\ EscalatedBy(h, Len(h))

TaskOf(s) == session[s].decision
Locking(row) == row.state \in {"approve_wait", "task_commit"}

TaskLocks ==
    \A s1, s2 \in Session :
        /\ s1 # s2 /\ Locking(session[s1]) /\ Locking(session[s2])
        => TaskOf(s1) # TaskOf(s2)

TasksPrepared == \A s \in Session : PreparedTask(session[s], task[TaskOf(s)], decision[TaskOf(s)])

TaskRowsOK == \A d \in Decision : TaskRowOK(task[d], decision[d], history[d])

OutcomesOK ==
    /\ \A d \in Decision : task[d].status \in Terminal => \E o \in outcomes : o.task = d
    /\ \A o \in outcomes :
          /\ OutcomeOK(o, task[o.task], decision[o.task], history[o.task])
          /\ \A p \in outcomes : p.task = o.task => p = o

Tasks == TaskLocks /\ TasksPrepared /\ TaskRowsOK /\ OutcomesOK

-----------------------------------------------------------------------------
(* Replaying a history. *)

\* Induction up to n, from the well-foundedness of < on the naturals.
LEMMA UpTo ==
    ASSUME NEW n \in Nat, NEW S, 0 \in S, \A k \in 1 .. n : k - 1 \in S => k \in S
    PROVE  \A k \in 0 .. n : k \in S
<1> SUFFICES ASSUME NEW bad \in 0 .. n, bad \notin S PROVE FALSE
  OBVIOUS
<1> DEFINE T == {k \in 0 .. n : k \notin S}
           R == OpToRel(<, Nat)
<1>1. IsWellFoundedOn(R, Nat)
  BY NatLessThanWellFounded
<1>2. \A x, y \in Nat : <<x, y>> \in R <=> x < y
  BY DEF OpToRel
<1>3. T \subseteq Nat /\ T # {}
  OBVIOUS
<1> HIDE DEF R
<1>4. PICK x \in T : \A y \in T : ~(<<y, x>> \in R)
  <2> HIDE DEF T
  <2> QED
    BY <1>1, <1>3, WFMin
<1>5. x \in 1 .. n /\ x \notin S /\ x - 1 \in 0 .. n /\ x - 1 < x /\ x \in Nat /\ x - 1 \in Nat
  OBVIOUS
<1>6. x - 1 \in T
  BY <1>5
<1>7. ~(<<x - 1, x>> \in R)
  BY <1>4, <1>6
<1>8. <<x - 1, x>> \in R <=> x - 1 < x
  BY <1>2, <1>5
<1> QED
  BY <1>5, <1>7, <1>8

\* There is one replay of a history.
LEMMA ReplayUnique ==
    ASSUME NEW h \in Seq(Event), NEW f, IsReplay(f, h)
    PROVE  Replay(h)[Len(h)] = f[Len(h)]
<1> DEFINE g == Replay(h)
           S == {n \in 0 .. Len(h) : f[n] = g[n]}
<1>1. IsReplay(g, h)
  BY DEF Replay, IsReplay
<1>2. Len(h) \in Nat
  OBVIOUS
<1> HIDE DEF g
<1>3. 0 \in S
  BY <1>1, <1>2 DEF IsReplay
<1>4. ASSUME NEW k \in 1 .. Len(h), k - 1 \in S PROVE k \in S
  <2>1. k \in 0 .. Len(h) /\ k # 0
    BY <1>2
  <2>2. f[k] = StatusAfter(f[k - 1], EscalatedBy(h, k - 1), h[k])
    BY <2>1 DEF IsReplay
  <2>3. g[k] = StatusAfter(g[k - 1], EscalatedBy(h, k - 1), h[k])
    BY <1>1, <2>1 DEF IsReplay
  <2> QED
    BY <1>4, <2>1, <2>2, <2>3
<1> HIDE DEF S
<1>5. \A k \in 0 .. Len(h) : k \in S
  BY <1>2, <1>3, <1>4, UpTo
<1> QED
  BY <1>2, <1>5 DEF S, g

\* The first events of a history, and its escalation, are those of its prefix.
LEMMA EscalatedAppend ==
    ASSUME NEW h \in Seq(Event), NEW event \in Event
    PROVE  /\ Len(Append(h, event)) = Len(h) + 1 /\ Len(h) \in Nat
           /\ Append(h, event)[Len(h) + 1] = event
           /\ \A n \in 1 .. Len(h) : Append(h, event)[n] = h[n]
           /\ \A n \in 0 .. Len(h) : EscalatedBy(Append(h, event), n) <=> EscalatedBy(h, n)
           /\ EscalatedBy(Append(h, event), Len(h) + 1)
                 <=> EscalatedBy(h, Len(h)) \/ event = "escalated"
<1> DEFINE l == Len(h)
           a == Append(h, event)
<1>1. /\ Len(a) = l + 1 /\ l \in Nat /\ a[l + 1] = event
      /\ \A n \in 1 .. l : a[n] = h[n]
  OBVIOUS
<1> HIDE DEF l, a
<1>2. \A n \in 0 .. l : EscalatedBy(a, n) <=> EscalatedBy(h, n)
  BY <1>1 DEF EscalatedBy
<1>3. EscalatedBy(a, l + 1) <=> EscalatedBy(h, l) \/ event = "escalated"
  <2>1. \A i \in 1 .. l + 1 : i \in 1 .. l \/ i = l + 1
    BY <1>1
  <2>2. l + 1 \in 1 .. l + 1 /\ \A i \in 1 .. l : i \in 1 .. l + 1
    BY <1>1
  <2> QED
    BY <1>1, <2>1, <2>2 DEF EscalatedBy
<1> QED
  BY <1>1, <1>2, <1>3 DEF l, a

LEMMA ReplayEmpty ==
    /\ IsReplay([n \in 0 .. 0 |-> "absent"], <<>>) /\ Len(<<>>) = 0
    /\ ~EscalatedBy(<<>>, 0)
  BY DEF IsReplay, EscalatedBy

\* One more event takes the replay one step further.
LEMMA ReplayAppend ==
    ASSUME NEW h \in Seq(Event), NEW event \in Event, NEW f, IsReplay(f, h)
    PROVE  \E g : /\ IsReplay(g, Append(h, event))
                  /\ g[Len(Append(h, event))]
                        = StatusAfter(f[Len(h)], EscalatedBy(h, Len(h)), event)
<1> DEFINE l == Len(h)
           a == Append(h, event)
           last == StatusAfter(f[l], EscalatedBy(h, l), event)
           g == [n \in 0 .. l + 1 |-> IF n = l + 1 THEN last ELSE f[n]]
<1>1. /\ Len(a) = l + 1 /\ l \in Nat /\ a[l + 1] = event
      /\ \A n \in 1 .. l : a[n] = h[n]
      /\ \A n \in 0 .. l : EscalatedBy(a, n) = EscalatedBy(h, n)
  <2>1. \A n \in 0 .. l : EscalatedBy(a, n) <=> EscalatedBy(h, n)
    BY EscalatedAppend
  <2>2. \A n : EscalatedBy(a, n) \in BOOLEAN /\ EscalatedBy(h, n) \in BOOLEAN
    BY DEF EscalatedBy
  <2> QED
    BY <2>1, <2>2, EscalatedAppend
<1>0. IsReplay(f, h)
  OBVIOUS
<1> HIDE DEF l, a
<1>3. ASSUME NEW n \in 0 .. l + 1
      PROVE  g[n] = IF n = 0 THEN "absent"
                             ELSE StatusAfter(g[n - 1], EscalatedBy(a, n - 1), a[n])
  <2>1. CASE n = l + 1
    <3>1. n # 0 /\ n - 1 = l /\ l \in 0 .. l + 1 /\ l # l + 1 /\ l \in 0 .. l
      BY <1>1, <2>1
    <3>2. g[n] = last /\ g[n - 1] = f[l]
      BY <2>1, <3>1
    <3>3. EscalatedBy(a, n - 1) = EscalatedBy(h, l) /\ a[n] = event
      BY <1>1, <2>1, <3>1
    <3> HIDE DEF g
    <3> QED
      BY <3>1, <3>2, <3>3
  <2>2. CASE n # l + 1
    <3>1. n \in 0 .. l /\ n - 1 # l + 1 /\ (n # 0 => n - 1 \in 0 .. l /\ n \in 1 .. l)
      BY <1>1, <2>2
    <3>2. f[n] = IF n = 0 THEN "absent"
                          ELSE StatusAfter(f[n - 1], EscalatedBy(h, n - 1), h[n])
      BY <1>0, <3>1 DEF IsReplay, l
    <3>3. g[n] = f[n] /\ (n # 0 => g[n - 1] = f[n - 1])
      <4>1. n # 0 => n - 1 \in 0 .. l + 1
        BY <1>1, <3>1
      <4> HIDE DEF last
      <4> QED
        BY <2>2, <3>1, <4>1
    <3>4. n # 0 => EscalatedBy(a, n - 1) = EscalatedBy(h, n - 1) /\ a[n] = h[n]
      BY <1>1, <3>1
    <3> HIDE DEF g
    <3> QED
      BY <3>2, <3>3, <3>4
  <2> QED
    BY <2>1, <2>2
<1>4. IsReplay(g, a)
  <2> DEFINE k == [n \in 0 .. l + 1 |->
                      IF n = 0 THEN "absent"
                               ELSE StatusAfter(g[n - 1], EscalatedBy(a, n - 1), a[n])]
  <2>1. g = k
    BY <1>3
  <2> QED
    BY <1>1, <2>1 DEF IsReplay
<1>5. g[l + 1] = last
  <2> HIDE DEF last
  <2> QED
    BY <1>1
<1> QED
  BY <1>1, <1>4, <1>5 DEF l, a

-----------------------------------------------------------------------------
(* The rows of tasks and outcomes. *)

\* A change leads where the replay of its event leads.
LEMMA ChangeFollowsReplay ==
    ASSUME NEW t \in TaskRow, NEW new \in TaskRow, NEW event \in Event, NEW actor,
           TaskChange(t, new, event, actor),
           t.status = "open" => t.escalation = "none",
           t.status = "escalated" => t.escalation = "senior_review"
    PROVE  /\ new.status = StatusAfter(t.status, t.escalation = "senior_review", event)
           /\ new.escalation = "senior_review"
                 <=> t.escalation = "senior_review" \/ event = "escalated"
           /\ new.status = "open" => new.escalation = "none"
           /\ new.status = "escalated" => new.escalation = "senior_review"
           /\ new.status \in Status
           /\ new.status \in Terminal => event = new.status /\ t.owner = actor /\ new.owner = actor
           /\ event \in Terminal => new.status = event
<1>1. t.status \in {"open", "escalated", "information_requested"} /\ t.escalation \in Escalation
  BY DEF TaskChange, TaskRow, Status, Terminal
<1>2. CASE event = "commented"
  BY <1>1, <1>2 DEF TaskChange, StatusAfter, Status, Terminal, Escalation
<1>3. CASE event = "escalated"
  BY <1>1, <1>3 DEF TaskChange, StatusAfter, Status, Terminal, Escalation
<1>4. CASE event = "information_requested"
  BY <1>1, <1>4 DEF TaskChange, StatusAfter, Status, Terminal, Escalation
<1>5. CASE event = "information_responded"
  BY <1>1, <1>5 DEF TaskChange, StatusAfter, Status, Terminal, Escalation
<1>6. CASE event = "approved"
  BY <1>1, <1>6 DEF TaskChange, StatusAfter, Status, Terminal, Escalation
<1>7. CASE event = "rejected"
  BY <1>1, <1>7 DEF TaskChange, StatusAfter, Status, Terminal, Escalation
<1> QED
  BY <1>2, <1>3, <1>4, <1>5, <1>6, <1>7 DEF TaskChange

\* A change and its event, committed together, keep a task explained.
LEMMA ChangeKeepsRow ==
    ASSUME NEW t \in TaskRow, NEW new \in TaskRow, NEW event \in Event, NEW actor,
           NEW dec, NEW h \in Seq(Event),
           TaskRowOK(t, dec, h), TaskChange(t, new, event, actor)
    PROVE  TaskRowOK(new, dec, Append(h, event))
<1>1. /\ t.status = "open" => t.escalation = "none"
      /\ t.status = "escalated" => t.escalation = "senior_review"
      /\ t.status # "absent" /\ OnDecision(t, dec) /\ Explained(t, h)
  BY DEF TaskRowOK, TaskChange, Status
<1>2. /\ new.status = StatusAfter(t.status, t.escalation = "senior_review", event)
      /\ new.escalation = "senior_review"
            <=> t.escalation = "senior_review" \/ event = "escalated"
      /\ new.status = "open" => new.escalation = "none"
      /\ new.status = "escalated" => new.escalation = "senior_review"
      /\ new.status \in Status
  BY <1>1, ChangeFollowsReplay
<1>3. OnDecision(new, dec)
  BY <1>1 DEF OnDecision, TaskChange
<1>4. PICK f : IsReplay(f, h) /\ f[Len(h)] = t.status
  BY <1>1 DEF Explained
<1>5. PICK g : /\ IsReplay(g, Append(h, event))
               /\ g[Len(Append(h, event))]
                     = StatusAfter(f[Len(h)], EscalatedBy(h, Len(h)), event)
  BY <1>4, ReplayAppend
<1>6. (t.escalation = "senior_review") = EscalatedBy(h, Len(h))
  <2>1. EscalatedBy(h, Len(h)) \in BOOLEAN
    BY DEF EscalatedBy
  <2> QED
    BY <1>1, <2>1 DEF Explained
<1>7. Explained(new, Append(h, event))
  <2>1. EscalatedBy(Append(h, event), Len(Append(h, event)))
          <=> EscalatedBy(h, Len(h)) \/ event = "escalated"
    BY EscalatedAppend
  <2> QED
    BY <1>2, <1>4, <1>5, <1>6, <2>1 DEF Explained
<1> QED
  BY <1>2, <1>3, <1>7 DEF TaskRowOK, Status

\* A task is created open, with its first event.
LEMMA CreationKeepsRow ==
    ASSUME NEW t, NEW new, NEW dec, NEW h \in Seq(Event),
           TaskRowOK(t, dec, h), t.status = "absent",
           OnDecision(new, dec), new.status = "open", new.escalation = "none"
    PROVE  TaskRowOK(new, dec, Append(h, "created"))
<1>1. t.escalation = "none" /\ Explained(t, h)
  BY DEF TaskRowOK, NoTask
<1>2. PICK f : IsReplay(f, h) /\ f[Len(h)] = "absent"
  BY <1>1 DEF Explained
<1>3. "created" \in Event /\ "created" # "escalated"
  BY DEF Event
<1>4. PICK g : /\ IsReplay(g, Append(h, "created"))
               /\ g[Len(Append(h, "created"))]
                     = StatusAfter(f[Len(h)], EscalatedBy(h, Len(h)), "created")
  BY <1>2, <1>3, ReplayAppend
<1>5. StatusAfter("absent", EscalatedBy(h, Len(h)), "created") = "open"
  BY DEF StatusAfter
<1>6. ~EscalatedBy(h, Len(h))
  BY <1>1 DEF Explained
<1>7. ~EscalatedBy(Append(h, "created"), Len(Append(h, "created")))
  BY <1>3, <1>6, EscalatedAppend
<1>8. Explained(new, Append(h, "created"))
  BY <1>2, <1>4, <1>5, <1>7 DEF Explained
<1> QED
  BY <1>8 DEF TaskRowOK

\* The outcome recorded with the end of a task.
LEMMA ResolvingOutcome ==
    ASSUME NEW s \in Session, NEW t \in TaskRow, session[s].row \in TaskRow,
           session[s].event \in Event, NEW dec, NEW h \in Seq(Event),
           TaskRowOK(t, dec, h),
           TaskChange(t, session[s].row, session[s].event, session[s].actor),
           session[s].row.status \in Terminal
    PROVE  /\ OutcomeOf(s).task = session[s].decision
           /\ OutcomeOK(OutcomeOf(s), session[s].row, dec, Append(h, session[s].event))
<1> DEFINE o == OutcomeOf(s)
           new == session[s].row
           event == session[s].event
           actor == session[s].actor
<1>1. /\ t.status = "open" => t.escalation = "none"
      /\ t.status = "escalated" => t.escalation = "senior_review"
      /\ t.status # "absent" /\ OnDecision(t, dec) /\ Explained(t, h)
  BY DEF TaskRowOK, TaskChange, Status
<1>2. event = new.status /\ new.owner = actor
  <2>1. TaskChange(t, new, event, actor) /\ new \in TaskRow /\ event \in Event
    OBVIOUS
  <2> HIDE DEF new, event, actor
  <2> QED
    BY <1>1, <2>1, ChangeFollowsReplay DEF new
<1>3. /\ o.task = session[s].decision /\ o.actor = actor
      /\ ApprovedOutcome(o) <=> event # "rejected"
  BY DEF OutcomeOf, ApprovedOutcome
<1>4. event = "approved" => MayApprove(actor, t)
  BY DEF TaskChange
<1>5. t.escalation = "senior_review" => EscalatedBy(Append(h, event), Len(Append(h, event)))
  <2>1. event \in Event
    OBVIOUS
  <2> HIDE DEF event
  <2> QED
    BY <1>1, <2>1, EscalatedAppend DEF Explained
<1>6. new.status \in Terminal
  OBVIOUS
<1> HIDE DEF o, new, event, actor
<1>7. OutcomeOK(o, new, dec, Append(h, event))
  <2>1. new.status = IF ApprovedOutcome(o) THEN "approved" ELSE "rejected"
    BY <1>2, <1>3, <1>6 DEF Terminal
  <2>2. ApprovedOutcome(o) => MayApprove(actor, t) /\ t.risk = ClassifyReviewRisk(dec.verdict)
    BY <1>1, <1>2, <1>4, <2>1 DEF OnDecision
  <2> QED
    BY <1>2, <1>3, <1>5, <2>1, <2>2 DEF OutcomeOK, MayApprove
<1> QED
  BY <1>3, <1>7 DEF o, new, event

-----------------------------------------------------------------------------
(* The invariant is inductive. *)

LEMMA TasksInit == Init => Tasks
<1> SUFFICES ASSUME Init PROVE Tasks
  OBVIOUS
<1>1. TaskLocks /\ TasksPrepared
  BY DEF Init, TaskLocks, TasksPrepared, Locking, PreparedTask, Idle
<1>2. Explained(NoTask, <<>>)
  <2> DEFINE f == [n \in 0 .. 0 |-> "absent"]
  <2>1. f[0] = "absent"
    OBVIOUS
  <2>2. IsReplay(f, <<>>) /\ Len(<<>>) = 0 /\ ~EscalatedBy(<<>>, 0)
    BY ReplayEmpty
  <2> HIDE DEF f
  <2> QED
    BY <2>1, <2>2 DEF Explained, NoTask
<1>3. TaskRowsOK
  BY <1>2 DEF Init, TaskRowsOK, TaskRowOK, NoTask
<1>4. OutcomesOK
  BY DEF Init, OutcomesOK, NoTask, Terminal
<1> QED
  BY <1>1, <1>3, <1>4 DEF Tasks

\* A step that moves one session, to a state prepared for what it has read, and
\* locks no task that is already locked.
LEMMA TaskSessionStep ==
    ASSUME Foundation, Tasks, NEW s \in Session, NEW row,
           session' = [session EXCEPT ![s] = row],
           UNCHANGED <<decision, task, outcomes, history>>,
           PreparedTask(row, task[row.decision], decision[row.decision]),
           Locking(row) => \A t \in Session \ {s} : ~HoldsTask(t, row.decision)
    PROVE  Tasks'
<1>1. /\ session'[s] = row
      /\ \A t \in Session \ {s} : session'[t] = session[t]
  BY DEF Foundation, TypeOK
<1>2. TaskLocks'
  BY <1>1 DEF Tasks, TaskLocks, TaskOf, Locking, HoldsTask
<1>3. TasksPrepared'
  <2> SUFFICES ASSUME NEW t \in Session
               PROVE  PreparedTask(session'[t], task[session'[t].decision],
                                   decision[session'[t].decision])
    BY DEF TasksPrepared, TaskOf
  <2> QED
    BY <1>1 DEF Tasks, TasksPrepared, TaskOf
<1>4. TaskRowsOK' /\ OutcomesOK'
  BY DEF Tasks, TaskRowsOK, OutcomesOK
<1> QED
  BY <1>2, <1>3, <1>4 DEF Tasks

\* A session that has no task to change is prepared for anything.
LEMMA NoTaskPrepared ==
    ASSUME NEW row, NEW t, NEW dec,
           row.state \notin {"approve_wait", "task_commit", "create_commit"}
    PROVE  PreparedTask(row, t, dec) /\ ~Locking(row)
  BY DEF PreparedTask, Locking

LEMMA IdleState == Idle.state = "idle"
  BY DEF Idle

\* A commit of session s that writes task d and its history, or the decision d
\* nobody could review before, leaves the other sessions prepared.
LEMMA TaskCommitFrame ==
    ASSUME Foundation, Tasks, NEW s \in Session, NEW d \in Decision,
           session' = [session EXCEPT ![s] = Idle],
           \A x \in Decision \ {d} : task'[x] = task[x] /\ decision'[x] = decision[x],
           decision[d].status # "absent" => decision'[d] = decision[d],
           \A t \in Session \ {s} : HoldsTask(t, d) => task'[d] = task[d]
    PROVE  TaskLocks' /\ TasksPrepared'
<1>1. /\ session'[s] = Idle
      /\ \A t \in Session \ {s} : session'[t] = session[t]
  BY DEF Foundation, TypeOK
<1>2. TaskLocks'
  BY <1>1, IdleState DEF Tasks, TaskLocks, TaskOf, Locking
<1>3. TasksPrepared'
  <2> SUFFICES ASSUME NEW t \in Session
               PROVE  PreparedTask(session'[t], task'[session'[t].decision],
                                   decision'[session'[t].decision])
    BY DEF TasksPrepared, TaskOf
  <2>1. CASE t = s
    BY <1>1, <2>1, IdleState, NoTaskPrepared
  <2>2. CASE t # s
    <3> DEFINE row == session[t]
    <3>1. session'[t] = row /\ PreparedTask(row, task[row.decision], decision[row.decision])
      BY <1>1, <2>2 DEF Tasks, TasksPrepared, TaskOf
    <3>2. CASE row.state \notin {"approve_wait", "task_commit", "create_commit"}
      BY <3>1, <3>2, NoTaskPrepared
    <3>3. CASE row.state \in {"approve_wait", "task_commit", "create_commit"}
      <4>1. row.decision \in Decision
        BY <3>3 DEF Foundation, SessionShape, Shaped
      <4>2. CASE row.decision # d
        BY <3>1, <4>1, <4>2
      <4>3. CASE row.decision = d
        <5>1. Locking(row) => task'[d] = task[d]
          BY <2>2, <4>3 DEF Locking, HoldsTask
        <5>2. row.state = "create_commit" => decision[d].status # "absent"
          BY <3>1, <4>3 DEF PreparedTask, OnDecision
        <5> HIDE DEF row
        <5> QED
          BY <3>1, <3>3, <4>3, <5>1, <5>2 DEF PreparedTask, Locking
      <4> QED
        BY <4>2, <4>3
    <3> QED
      BY <3>2, <3>3
  <2> QED
    BY <2>1, <2>2
<1> QED
  BY <1>2, <1>3

\* A decision that is committed was not there before, so no task is on it.
LEMMA TasksDecide ==
    ASSUME Foundation, Evidence, Tasks, NEW s \in Session, DecisionCommit(s)
    PROVE  Tasks'
<1>1. PICK d \in Decision : session[s].decision = d
  BY DEF DecisionCommit, Foundation, SessionShape, Shaped
<1>2. decision[d].status = "absent"
  BY <1>1 DEF DecisionCommit, Evidence, FreshDecisions, Deciding
<1>3. /\ session' = [session EXCEPT ![s] = Idle] /\ UNCHANGED <<task, outcomes, history>>
      /\ \A x \in Decision \ {d} : decision'[x] = decision[x]
  BY <1>1 DEF DecisionCommit, Foundation, TypeOK
<1>4. TaskLocks' /\ TasksPrepared'
  BY <1>1, <1>2, <1>3, TaskCommitFrame
<1>5. task[d].status = "absent"
  BY <1>2 DEF Tasks, TaskRowsOK, TaskRowOK, OnDecision
<1>6. TaskRowsOK'
  BY <1>3, <1>5 DEF Tasks, TaskRowsOK, TaskRowOK
<1>7. \A o \in outcomes : o.task \in Decision \ {d}
  BY <1>5 DEF Foundation, TypeOK, Outcome, Tasks, OutcomesOK, OutcomeOK
<1>8. OutcomesOK'
  BY <1>3, <1>7 DEF Tasks, OutcomesOK
<1> QED
  BY <1>4, <1>6, <1>8 DEF Tasks

\* The first creation of a task commits; a second one is rolled back.
LEMMA TasksCreate ==
    ASSUME Foundation, Tasks, NEW s \in Session, CreateTaskCommit(s)
    PROVE  Tasks'
<1>1. session[s].state = "create_commit" /\ session' = [session EXCEPT ![s] = Idle]
      /\ UNCHANGED <<decision, outcomes>>
  BY DEF CreateTaskCommit
<1>2. PICK d \in Decision, row \in {session[s].row} : session[s].decision = d
  BY <1>1 DEF Foundation, SessionShape, Shaped
<1>3. OnDecision(row, decision[d]) /\ row.status = "open" /\ row.escalation = "none"
  BY <1>1, <1>2 DEF Tasks, TasksPrepared, TaskOf, PreparedTask
<1>4. CASE task[d].status # "absent"
  <2>1. UNCHANGED <<task, history>>
    BY <1>2, <1>4 DEF CreateTaskCommit
  <2>2. PreparedTask(Idle, task[Idle.decision], decision[Idle.decision]) /\ ~Locking(Idle)
    BY IdleState, NoTaskPrepared
  <2> QED
    BY <1>1, <2>1, <2>2, TaskSessionStep
<1>5. CASE task[d].status = "absent"
  <2>1. task' = [task EXCEPT ![d] = row] /\ history' = [history EXCEPT ![d] = Append(@, "created")]
    BY <1>2, <1>5 DEF CreateTaskCommit
  <2>2. /\ task'[d] = row /\ history'[d] = Append(history[d], "created")
        /\ \A x \in Decision \ {d} : task'[x] = task[x] /\ history'[x] = history[x]
        /\ history[d] \in Seq(Event)
    BY <2>1 DEF Foundation, TypeOK
  <2>3. \A t \in Session : ~HoldsTask(t, d)
    BY <1>5 DEF HoldsTask, Tasks, TasksPrepared, TaskOf, PreparedTask, TaskChange, Status
  <2>4. TaskLocks' /\ TasksPrepared'
    <3>1. /\ \A x \in Decision \ {d} : task'[x] = task[x] /\ decision'[x] = decision[x]
          /\ decision'[d] = decision[d]
          /\ \A t \in Session \ {s} : HoldsTask(t, d) => task'[d] = task[d]
      BY <1>1, <2>2, <2>3
    <3> QED
      BY <1>1, <3>1, TaskCommitFrame
  <2>5. TaskRowOK(task[d], decision[d], history[d])
    BY DEF Tasks, TaskRowsOK
  <2>6. TaskRowOK(row, decision[d], Append(history[d], "created"))
    BY <1>3, <1>5, <2>2, <2>5, CreationKeepsRow
  <2>7. TaskRowsOK'
    BY <1>1, <2>2, <2>6 DEF Tasks, TaskRowsOK
  <2>8. \A o \in outcomes : o.task \in Decision \ {d}
    BY <1>5 DEF Foundation, TypeOK, Outcome, Tasks, OutcomesOK, OutcomeOK
  <2>9. OutcomesOK'
    BY <1>1, <1>3, <2>2, <2>8 DEF Tasks, OutcomesOK, Terminal
  <2> QED
    BY <2>4, <2>7, <2>9 DEF Tasks
<1> QED
  BY <1>4, <1>5

\* What a session that has locked a task commits to it.
LEMMA TaskCommitEffect ==
    ASSUME Foundation, Tasks, NEW s \in Session, TaskCommit(s),
           NEW d, d = session[s].decision, NEW row, row = session[s].row,
           NEW event, event = session[s].event
    PROVE  /\ session[s].state = "task_commit" /\ session' = [session EXCEPT ![s] = Idle]
           /\ decision' = decision /\ corrections' = corrections
           /\ d \in Decision /\ row \in TaskRow /\ event \in Event
           /\ TaskChange(task[d], row, event, session[s].actor)
           /\ TaskRowOK(task[d], decision[d], history[d])
           /\ task[d] \in TaskRow /\ history[d] \in Seq(Event)
           /\ task'[d] = row /\ history'[d] = Append(history[d], event)
           /\ \A x \in Decision \ {d} : task'[x] = task[x] /\ history'[x] = history[x]
           /\ outcomes' = IF row.status \in Terminal THEN outcomes \cup {OutcomeOf(s)}
                                                     ELSE outcomes
<1>1. session[s].state = "task_commit" /\ session' = [session EXCEPT ![s] = Idle]
      /\ decision' = decision /\ corrections' = corrections
  BY DEF TaskCommit
<1>2. session[s] \in SessionRow /\ Shaped(session[s])
  BY DEF Foundation, TypeOK, SessionShape
<1>3. d \in Decision /\ row \in TaskRow /\ event \in Event
  BY <1>1, <1>2 DEF SessionRow, Shaped
<1>4. TaskChange(task[d], row, event, session[s].actor)
  BY <1>1 DEF Tasks, TasksPrepared, TaskOf, PreparedTask
<1>5. TaskRowOK(task[d], decision[d], history[d])
  BY <1>3 DEF Tasks, TaskRowsOK
<1>6. task' = [task EXCEPT ![d] = row] /\ history' = [history EXCEPT ![d] = Append(@, event)]
  BY DEF TaskCommit
<1>7. /\ task[d] \in TaskRow /\ history[d] \in Seq(Event)
      /\ task'[d] = row /\ history'[d] = Append(history[d], event)
      /\ \A x \in Decision \ {d} : task'[x] = task[x] /\ history'[x] = history[x]
  BY <1>3, <1>6 DEF Foundation, TypeOK
<1>8. outcomes' = IF row.status \in Terminal THEN outcomes \cup {OutcomeOf(s)} ELSE outcomes
  BY DEF TaskCommit
<1> QED
  BY <1>1, <1>3, <1>4, <1>5, <1>7, <1>8

\* A task operation is committed: no other session can have changed the task
\* since this one locked it.
LEMMA TasksCommit ==
    ASSUME Foundation, Tasks, NEW s \in Session, TaskCommit(s)
    PROVE  Tasks'
<1>1. PICK d, row, event : d = session[s].decision /\ row = session[s].row /\ event = session[s].event
  OBVIOUS
<1>2. /\ session[s].state = "task_commit" /\ session' = [session EXCEPT ![s] = Idle]
      /\ decision' = decision
      /\ d \in Decision /\ row \in TaskRow /\ event \in Event
      /\ TaskChange(task[d], row, event, session[s].actor)
      /\ TaskRowOK(task[d], decision[d], history[d])
      /\ task[d] \in TaskRow /\ history[d] \in Seq(Event)
      /\ task'[d] = row /\ history'[d] = Append(history[d], event)
      /\ \A x \in Decision \ {d} : task'[x] = task[x] /\ history'[x] = history[x]
      /\ outcomes' = IF row.status \in Terminal THEN outcomes \cup {OutcomeOf(s)} ELSE outcomes
  BY <1>1, TaskCommitEffect
<1>3. TaskLocks' /\ TasksPrepared'
  <2>1. \A t \in Session \ {s} : ~HoldsTask(t, d)
    BY <1>1, <1>2 DEF Tasks, TaskLocks, TaskOf, Locking, HoldsTask
  <2>2. /\ \A x \in Decision \ {d} : task'[x] = task[x] /\ decision'[x] = decision[x]
        /\ decision'[d] = decision[d]
        /\ \A t \in Session \ {s} : HoldsTask(t, d) => task'[d] = task[d]
    BY <1>2, <2>1
  <2> QED
    BY <1>2, <2>2, TaskCommitFrame
<1>4. TaskRowsOK'
  <2>1. TaskRowOK(row, decision[d], Append(history[d], event))
    BY <1>2, ChangeKeepsRow
  <2> QED
    BY <1>2, <2>1 DEF Tasks, TaskRowsOK
<1>5. OutcomesOK'
  <2>1. \A o \in outcomes : o.task \in Decision \ {d}
    BY <1>2 DEF Foundation, TypeOK, Outcome, Tasks, OutcomesOK, OutcomeOK, TaskChange, Terminal
  <2>2. CASE row.status \notin Terminal
    BY <1>2, <2>1, <2>2 DEF Tasks, OutcomesOK
  <2>3. CASE row.status \in Terminal
    <3> DEFINE new == OutcomeOf(s)
    <3>1. new.task = d /\ OutcomeOK(new, row, decision[d], Append(history[d], event))
      BY <1>1, <1>2, <2>3, ResolvingOutcome
    <3>2. outcomes' = outcomes \cup {new}
      BY <1>2, <2>3
    <3> HIDE DEF new
    <3>3. \A o \in outcomes : OutcomeOK(o, task[o.task], decision[o.task], history[o.task])'
      BY <1>2, <2>1 DEF Tasks, OutcomesOK, OutcomeOK, ApprovedOutcome
    <3>4. OutcomeOK(new, task'[d], decision'[d], history'[d])
      BY <1>2, <3>1
    <3>5. \A x \in Decision : task'[x].status \in Terminal => \E o \in outcomes' : o.task = x
      BY <1>2, <3>1, <3>2 DEF Tasks, OutcomesOK
    <3>6. \A o, p \in outcomes' : p.task = o.task => p = o
      BY <2>1, <3>1, <3>2 DEF Tasks, OutcomesOK
    <3> QED
      BY <3>1, <3>2, <3>3, <3>4, <3>5, <3>6 DEF OutcomesOK, OutcomeOK, ApprovedOutcome
  <2> QED
    BY <2>2, <2>3
<1> QED
  BY <1>3, <1>4, <1>5 DEF Tasks

\* A task operation prepares a change of the task it has just locked.
LEMMA TasksLockAndChange ==
    ASSUME Foundation, Tasks, NEW s \in Session, NEW d \in Decision, NEW actor, NEW row, NEW event,
           LockAndChange(s, d, actor, row, event), TaskChange(task[d], row, event, actor)
    PROVE  Tasks'
<1> DEFINE new == [Idle EXCEPT !.state = "task_commit", !.decision = d,
                               !.actor = actor, !.row = row, !.event = event]
<1>1. /\ new.state = "task_commit" /\ new.decision = d
      /\ new.actor = actor /\ new.row = row /\ new.event = event
  BY DEF Idle
<1>2. /\ session' = [session EXCEPT ![s] = new] /\ UNCHANGED <<decision, task, outcomes, history>>
      /\ TaskUnlocked(d)
  BY DEF LockAndChange
<1> HIDE DEF new
<1>3. PreparedTask(new, task[new.decision], decision[new.decision])
  BY <1>1 DEF PreparedTask
<1>4. \A t \in Session \ {s} : ~HoldsTask(t, new.decision)
  BY <1>1, <1>2 DEF TaskUnlocked
<1> QED
  BY <1>2, <1>3, <1>4, TaskSessionStep

\* Every step keeps the invariant of the tasks.
LEMMA TasksNext == Foundation /\ Evidence /\ Tasks /\ [Next]_vars => Tasks'
<1> SUFFICES ASSUME Foundation, Evidence, Tasks, [Next]_vars PROVE Tasks'
  OBVIOUS
<1>0. /\ \A s \in Session : session[s] \in SessionRow
      /\ \A d \in Decision : task[d] \in TaskRow
  BY DEF Foundation, TypeOK
<1>1. ASSUME NEW s \in Session, NEW new, session' = [session EXCEPT ![s] = new],
             UNCHANGED <<decision, task, outcomes, history>>,
             new.state \notin {"approve_wait", "task_commit", "create_commit"}
      PROVE  Tasks'
  <2>1. PreparedTask(new, task[new.decision], decision[new.decision]) /\ ~Locking(new)
    BY <1>1, NoTaskPrepared
  <2> QED
    BY <1>1, <2>1, TaskSessionStep
<1>2. ASSUME NEW s \in Session, NEW e \in Extraction, NEW f \in Field, CorrectField(s, e, f)
      PROVE  Tasks'
  <2> DEFINE new == session'[s]
  <2>1. /\ new.state = "correct_commit" /\ session' = [session EXCEPT ![s] = new]
        /\ UNCHANGED <<decision, task, outcomes, history>>
    BY <1>2 DEF CorrectField, Idle, Foundation, TypeOK
  <2> QED
    BY <1>1, <2>1
<1>3. ASSUME NEW s \in Session, CorrectFieldCommit(s) \/ Rollback(s)
      PROVE  Tasks'
  <2>1. session' = [session EXCEPT ![s] = Idle] /\ UNCHANGED <<decision, task, outcomes, history>>
    BY <1>3 DEF CorrectFieldCommit, Rollback
  <2> QED
    BY <1>1, <2>1, IdleState
<1>4. ASSUME NEW s \in Session, NEW e \in Extraction, NEW d \in Decision, StartDecision(s, e, d)
      PROVE  Tasks'
  <2> DEFINE new == session'[s]
  <2>1. /\ new.state = "decide_wait" /\ session' = [session EXCEPT ![s] = new]
        /\ UNCHANGED <<decision, task, outcomes, history>>
    BY <1>4 DEF StartDecision, Idle, Foundation, TypeOK
  <2> QED
    BY <1>1, <2>1
<1>5. ASSUME NEW s \in Session, NEW v \in Verdicts \cup {None}, RunEngine(s, v)
      PROVE  Tasks'
  <2> DEFINE new == session'[s]
  <2>1. /\ new.state = "decide_commit" /\ session' = [session EXCEPT ![s] = new]
        /\ UNCHANGED <<decision, task, outcomes, history>>
    BY <1>0, <1>5 DEF RunEngine, SessionRow, Foundation, TypeOK
  <2> QED
    BY <1>1, <2>1
<1>6. ASSUME NEW s \in Session, DecisionCommit(s)
      PROVE  Tasks'
  BY <1>6, TasksDecide
<1>7. ASSUME NEW s \in Session, NEW d \in Decision, NEW m \in Reviewer, CreateTask(s, d, m)
      PROVE  Tasks'
  <2> DEFINE new == session'[s]
  <2>1. /\ new.state = "create_commit" /\ new.decision = d
        /\ new.row = [status |-> "open", owner |-> m, escalation |-> "none",
                      risk |-> ClassifyReviewRisk(decision[d].verdict)]
        /\ decision[d].status = "succeeded"
        /\ session' = [session EXCEPT ![s] = new]
        /\ UNCHANGED <<decision, task, outcomes, history>>
    BY <1>7 DEF CreateTask, Idle, Foundation, TypeOK
  <2> HIDE DEF new
  <2>2. PreparedTask(new, task[new.decision], decision[new.decision]) /\ ~Locking(new)
    BY <2>1 DEF PreparedTask, OnDecision, Locking
  <2> QED
    BY <2>1, <2>2, TaskSessionStep
<1>8. ASSUME NEW s \in Session, CreateTaskCommit(s)
      PROVE  Tasks'
  BY <1>8, TasksCreate
<1>9. ASSUME NEW s \in Session, NEW d \in Decision, NEW m \in Reviewer, AddComment(s, d, m)
      PROVE  Tasks'
  <2>1. TaskChange(task[d], task[d], "commented", m)
    BY <1>9 DEF AddComment, LockAndChange, TaskChange
  <2> QED
    BY <1>9, <2>1, TasksLockAndChange DEF AddComment
<1>10. ASSUME NEW s \in Session, NEW d \in Decision, NEW m \in Reviewer, NEW n \in Senior,
              EscalateToSenior(s, d, m, n)
       PROVE  Tasks'
  <2> DEFINE row == [task[d] EXCEPT !.status = "escalated", !.owner = n,
                                    !.escalation = "senior_review"]
  <2>1. TaskChange(task[d], row, "escalated", m)
    BY <1>0, <1>10, SeniorAssumption DEF EscalateToSenior, TaskChange, TaskRow, Status, Terminal
  <2>2. LockAndChange(s, d, m, row, "escalated")
    BY <1>10 DEF EscalateToSenior
  <2> HIDE DEF row
  <2> QED
    BY <2>1, <2>2, TasksLockAndChange
<1>11. ASSUME NEW s \in Session, NEW d \in Decision, NEW m \in Reviewer,
              RequestInformation(s, d, m)
       PROVE  Tasks'
  <2> DEFINE row == [task[d] EXCEPT !.status = "information_requested"]
  <2>1. TaskChange(task[d], row, "information_requested", m)
    BY <1>0, <1>11 DEF RequestInformation, TaskChange, TaskRow, Status, Terminal
  <2>2. LockAndChange(s, d, m, row, "information_requested")
    BY <1>11 DEF RequestInformation
  <2> HIDE DEF row
  <2> QED
    BY <2>1, <2>2, TasksLockAndChange
<1>12. ASSUME NEW s \in Session, NEW d \in Decision, RespondToInformationRequest(s, d)
       PROVE  Tasks'
  <2> DEFINE row == [task[d] EXCEPT !.status = IF task[d].escalation = "senior_review"
                                               THEN "escalated" ELSE "open"]
  <2>1. TaskChange(task[d], row, "information_responded", None)
    BY <1>0, <1>12 DEF RespondToInformationRequest, TaskChange, TaskRow, Status, Terminal
  <2>2. LockAndChange(s, d, None, row, "information_responded")
    BY <1>12 DEF RespondToInformationRequest
  <2> HIDE DEF row
  <2> QED
    BY <2>1, <2>2, TasksLockAndChange
<1>13. ASSUME NEW s \in Session, NEW d \in Decision, NEW m \in Reviewer, Reject(s, d, m)
       PROVE  Tasks'
  <2> DEFINE row == [task[d] EXCEPT !.status = "rejected"]
  <2>1. TaskChange(task[d], row, "rejected", m)
    BY <1>0, <1>13 DEF Reject, LockAndChange, TaskChange, TaskRow
  <2>2. LockAndChange(s, d, m, row, "rejected")
    BY <1>13 DEF Reject
  <2> HIDE DEF row
  <2> QED
    BY <2>1, <2>2, TasksLockAndChange
<1>14. ASSUME NEW s \in Session, NEW d \in Decision, NEW m \in Reviewer, Approve(s, d, m)
       PROVE  Tasks'
  <2> DEFINE new == session'[s]
  <2>1. /\ new.state = "approve_wait" /\ new.decision = d /\ new.actor = m
        /\ task[d].owner = m /\ task[d].status \in {"open", "escalated"} /\ TaskUnlocked(d)
        /\ session' = [session EXCEPT ![s] = new]
        /\ UNCHANGED <<decision, task, outcomes, history>>
    BY <1>14 DEF Approve, Idle, Foundation, TypeOK
  <2> HIDE DEF new
  <2>2. PreparedTask(new, task[new.decision], decision[new.decision])
    BY <2>1 DEF PreparedTask
  <2>3. \A t \in Session \ {s} : ~HoldsTask(t, new.decision)
    BY <2>1 DEF TaskUnlocked
  <2> QED
    BY <2>1, <2>2, <2>3, TaskSessionStep
<1>15. ASSUME NEW s \in Session, ApproveLockRun(s)
       PROVE  Tasks'
  <2> DEFINE new == session'[s]
             d == session[s].decision
  <2>1. /\ session[s].state = "approve_wait" /\ session' = [session EXCEPT ![s] = new]
        /\ UNCHANGED <<decision, task, outcomes, history>>
        /\ \/ new = Idle
           \/ /\ new.state = "task_commit" /\ new.decision = d /\ new.actor = session[s].actor
              /\ new.row = [task[d] EXCEPT !.status = "approved"] /\ new.event = "approved"
              /\ MayApprove(session[s].actor, task[d])
    BY <1>0, <1>15 DEF ApproveLockRun, SessionRow, Foundation, TypeOK
  <2>2. CASE new = Idle
    BY <1>1, <2>1, <2>2, IdleState
  <2>3. CASE new # Idle
    <3>1. d \in Decision
      BY <2>1 DEF Foundation, SessionShape, Shaped
    <3>2. task[d].status \in {"open", "escalated"} /\ task[d].owner = session[s].actor
      BY <2>1 DEF Tasks, TasksPrepared, TaskOf, PreparedTask
    <3>3. TaskChange(task[d], new.row, "approved", new.actor)
      BY <1>0, <2>1, <2>3, <3>1, <3>2 DEF TaskChange, TaskRow, Status, Terminal
    <3>4. \A t \in Session \ {s} : ~HoldsTask(t, d)
      BY <2>1 DEF Tasks, TaskLocks, TaskOf, Locking, HoldsTask
    <3> HIDE DEF new
    <3>5. PreparedTask(new, task[new.decision], decision[new.decision])
      BY <2>1, <2>3, <3>3 DEF PreparedTask
    <3>6. \A t \in Session \ {s} : ~HoldsTask(t, new.decision)
      BY <2>1, <2>3, <3>4
    <3> QED
      BY <2>1, <3>5, <3>6, TaskSessionStep
  <2> QED
    BY <2>2, <2>3
<1>16. ASSUME NEW s \in Session, TaskCommit(s)
       PROVE  Tasks'
  BY <1>16, TasksCommit
<1>17. ASSUME UNCHANGED vars
       PROVE  Tasks'
  BY <1>17 DEF vars, Tasks, TaskLocks, TasksPrepared, TaskRowsOK, OutcomesOK, TaskOf
<1> QED
  BY <1>2, <1>3, <1>4, <1>5, <1>6, <1>7, <1>8, <1>9, <1>10, <1>11, <1>12, <1>13,
     <1>14, <1>15, <1>16, <1>17 DEF Next

-----------------------------------------------------------------------------
(* What the invariant says. *)

\* The invariant the results below rest on: the rows of a task, its outcome and its events
\* agree, and what a session that holds the task will commit still follows from them.
THEOREM TasksHold == Spec => [](Foundation /\ Evidence /\ Tasks)
  BY FoundationInit, FoundationNext, EvidenceInit, EvidenceNext, TasksInit, TasksNext, PTL DEF Spec

\* A task is terminal exactly when it has an outcome, and then it has one, which
\* agrees with it: approve and reject lock the task and commit both together.
THEOREM OutcomesCorrect == Spec => []OneOutcomePerTerminalTask
<1>1. Tasks => OneOutcomePerTerminalTask
  BY DEF Tasks, OutcomesOK, OutcomeOK, OneOutcomePerTerminalTask
<1> QED
  BY <1>1, TasksHold, PTL

\* Whatever races with an approval, nothing blocked is approved, and what needs a
\* senior reviewer is approved by the one it was escalated to.
THEOREM AuthorityCorrect == Spec => []ApprovalAuthority
<1>1. Foundation /\ Tasks => ApprovalAuthority
  <2> SUFFICES ASSUME Foundation, Tasks, NEW o \in outcomes, ApprovedOutcome(o)
               PROVE  LET risk == ClassifyReviewRisk(decision[o.task].verdict)
                      IN  /\ risk # "blocked"
                          /\ risk = "senior_review_required" =>
                                /\ o.actor \in Senior
                                /\ \E i \in DOMAIN history[o.task] : history[o.task][i] = "escalated"
    BY DEF ApprovalAuthority
  <2>1. history[o.task] \in Seq(Event)
    BY DEF Foundation, TypeOK, Outcome
  <2>2. DOMAIN history[o.task] = 1 .. Len(history[o.task])
    BY <2>1
  <2>3. OutcomeOK(o, task[o.task], decision[o.task], history[o.task])
    BY DEF Tasks, OutcomesOK
  <2> QED
    BY <2>2, <2>3 DEF OutcomeOK, EscalatedBy
<1> QED
  BY <1>1, TasksHold, PTL

\* The audit events of a task, replayed in commit order, lead to its row, for
\* every number of sessions and every length of history.
THEOREM HistoryCorrect == Spec => []HistoryReplays
<1>1. Foundation /\ Tasks => HistoryReplays
  <2> SUFFICES ASSUME Foundation, Tasks, NEW d \in Decision
               PROVE  /\ task[d].status = Replay(history[d])[Len(history[d])]
                      /\ task[d].escalation = "senior_review"
                            <=> EscalatedBy(history[d], Len(history[d]))
    BY DEF HistoryReplays
  <2>1. Explained(task[d], history[d]) /\ history[d] \in Seq(Event)
    BY DEF Tasks, TaskRowsOK, TaskRowOK, Foundation, TypeOK
  <2>2. PICK f : IsReplay(f, history[d]) /\ f[Len(history[d])] = task[d].status
    BY <2>1 DEF Explained
  <2>3. Replay(history[d])[Len(history[d])] = task[d].status
    BY <2>1, <2>2, ReplayUnique
  <2> QED
    BY <2>1, <2>3 DEF Explained
<1> QED
  BY <1>1, TasksHold, PTL

-----------------------------------------------------------------------------
(* What a step may never do. *)

\* Nothing but a commit changes a row.
LEMMA OnlyCommitsWrite ==
    ASSUME [Next]_vars
    PROVE  \/ UNCHANGED <<corrections, decision, task, outcomes, history>>
           \/ \E s \in Session : \/ CorrectFieldCommit(s) \/ DecisionCommit(s)
                                 \/ CreateTaskCommit(s) \/ TaskCommit(s)
<1> DEFINE Quiet == UNCHANGED <<corrections, decision, task, outcomes, history>>
<1>1. ASSUME NEW s \in Session, NEW e \in Extraction, NEW f \in Field, CorrectField(s, e, f)
      PROVE  Quiet
  BY <1>1 DEF CorrectField
<1>2. ASSUME NEW s \in Session, NEW e \in Extraction, NEW d \in Decision, StartDecision(s, e, d)
      PROVE  Quiet
  BY <1>2 DEF StartDecision
<1>3. ASSUME NEW s \in Session, NEW v \in Verdicts \cup {None}, RunEngine(s, v)
      PROVE  Quiet
  BY <1>3 DEF RunEngine
<1>4. ASSUME NEW s \in Session, NEW d \in Decision, NEW m \in Reviewer,
             \/ CreateTask(s, d, m) \/ AddComment(s, d, m) \/ RequestInformation(s, d, m)
             \/ Reject(s, d, m) \/ Approve(s, d, m)
      PROVE  Quiet
  BY <1>4 DEF CreateTask, AddComment, RequestInformation, Reject, Approve, LockAndChange
<1>5. ASSUME NEW s \in Session, NEW d \in Decision, NEW m \in Reviewer, NEW n \in Senior,
             EscalateToSenior(s, d, m, n)
      PROVE  Quiet
  BY <1>5 DEF EscalateToSenior, LockAndChange
<1>6. ASSUME NEW s \in Session, NEW d \in Decision, RespondToInformationRequest(s, d)
      PROVE  Quiet
  BY <1>6 DEF RespondToInformationRequest, LockAndChange
<1>7. ASSUME NEW s \in Session, ApproveLockRun(s) \/ Rollback(s)
      PROVE  Quiet
  BY <1>7 DEF ApproveLockRun, Rollback
<1>8. CASE UNCHANGED vars
  BY <1>8 DEF vars
<1> QED
  BY <1>1, <1>2, <1>3, <1>4, <1>5, <1>6, <1>7, <1>8 DEF Next

LEMMA FinalStep == Foundation /\ Evidence /\ Tasks /\ [Next]_vars => [KeepsCommitted]_vars
<1> SUFFICES ASSUME Foundation, Evidence, Tasks, [Next]_vars PROVE KeepsCommitted
  OBVIOUS
<1>1. CASE UNCHANGED <<corrections, decision, task, outcomes, history>>
  BY <1>1 DEF KeepsCommitted
<1>2. ASSUME NEW s \in Session, CorrectFieldCommit(s) PROVE KeepsCommitted
  <2>1. /\ \A e \in Extraction : corrections[e] \subseteq corrections'[e]
        /\ UNCHANGED <<decision, task, outcomes, history>>
    BY <1>2 DEF CorrectFieldCommit, Foundation, TypeOK
  <2> QED
    BY <2>1 DEF KeepsCommitted
<1>3. ASSUME NEW s \in Session, DecisionCommit(s) PROVE KeepsCommitted
  <2>1. decision[session[s].decision].status = "absent"
    BY <1>3 DEF DecisionCommit, Evidence, FreshDecisions, Deciding
  <2>2. /\ \A d \in Decision : d # session[s].decision => decision'[d] = decision[d]
        /\ UNCHANGED <<corrections, task, outcomes, history>>
    BY <1>3 DEF DecisionCommit, Foundation, TypeOK
  <2> QED
    BY <2>1, <2>2 DEF KeepsCommitted
<1>4. ASSUME NEW s \in Session, CreateTaskCommit(s) PROVE KeepsCommitted
  <2>1. /\ \A d \in Decision : task[d].status # "absent" => task'[d] = task[d] /\ history'[d] = history[d]
        /\ UNCHANGED <<corrections, decision, outcomes>>
    BY <1>4 DEF CreateTaskCommit, Foundation, TypeOK
  <2> QED
    BY <2>1 DEF KeepsCommitted, Terminal
<1>5. ASSUME NEW s \in Session, TaskCommit(s) PROVE KeepsCommitted
  <2>1. PICK d, row, event : d = session[s].decision /\ row = session[s].row /\ event = session[s].event
    OBVIOUS
  <2>2. /\ d \in Decision /\ TaskChange(task[d], row, event, session[s].actor)
        /\ \A x \in Decision \ {d} : task'[x] = task[x] /\ history'[x] = history[x]
        /\ decision' = decision /\ corrections' = corrections /\ outcomes \subseteq outcomes'
    BY <1>5, <2>1, TaskCommitEffect
  <2> QED
    BY <2>2 DEF KeepsCommitted, TaskChange
<1> QED
  BY <1>1, <1>2, <1>3, <1>4, <1>5, OnlyCommitsWrite

\* No step changes a resolved task, its history, or a decision, an outcome or a
\* correction that has been committed.
THEOREM CommittedFinal == Spec => CommittedIsFinal
  BY FinalStep, TasksHold, PTL DEF Spec, CommittedIsFinal

-----------------------------------------------------------------------------
(* HumanReview implements ReviewLifecycle. *)

LEMMA ResolutionOfNone ==
    ASSUME NEW d, \A o \in outcomes : o.task # d
    PROVE  ResolutionOf(d) = "none"
  BY DEF ResolutionOf

\* Adding the outcome of task d resolves d and no other task.
LEMMA ResolutionAdds ==
    ASSUME NEW d, NEW new, new.task = d, outcomes' = outcomes \cup {new},
           \A o \in outcomes : o.task # d
    PROVE  /\ ResolutionOf(d)' = new.type
           /\ \A x : x # d => ResolutionOf(x)' = ResolutionOf(x)
<1>1. \A q \in outcomes' : q.task = d => q = new
  OBVIOUS
<1>2. ResolutionOf(d)' = new.type
  <2>1. (CHOOSE o \in outcomes' : o.task = d) = new /\ \E o \in outcomes' : o.task = d
    BY <1>1
  <2> QED
    BY <2>1 DEF ResolutionOf
<1>3. ASSUME NEW x, x # d PROVE ResolutionOf(x)' = ResolutionOf(x)
  <2>1. \A q : (q \in outcomes' /\ q.task = x) <=> (q \in outcomes /\ q.task = x)
    BY <1>3
  <2>2. (\E o \in outcomes' : o.task = x) <=> (\E o \in outcomes : o.task = x)
    BY <2>1
  <2>3. (CHOOSE o \in outcomes' : o.task = x) = (CHOOSE o \in outcomes : o.task = x)
    BY <2>1
  <2> QED
    BY <2>2, <2>3 DEF ResolutionOf
<1> QED
  BY <1>2, <1>3

LEMMA LifecycleInit == Init => Abstract!Begin
<1> SUFFICES ASSUME Init PROVE Abstract!Begin
  OBVIOUS
<1>1. \A d \in Decision : task[d] = NoTask /\ ResolutionOf(d) = "none"
  BY ResolutionOfNone DEF Init
<1>2. TaskStatus = [d \in Decision |-> "absent"]
  BY <1>1 DEF TaskStatus, NoTask
<1>3. TaskResume = [d \in Decision |-> "open"]
  BY <1>1 DEF TaskResume, NoTask
<1>4. TaskResolution = [d \in Decision |-> "none"]
  BY <1>1 DEF TaskResolution
<1> QED
  BY <1>2, <1>3, <1>4 DEF Abstract!Begin

\* Where an information request on a task returns to.
ResumeOf(t) == IF t.escalation = "senior_review" THEN "escalated" ELSE "open"

\* A commit that changes only task d changes the abstract functions only at d.
LEMMA LifecycleFrame ==
    ASSUME NEW d \in Decision, NEW new, task'[d] = new,
           \A x \in Decision \ {d} : task'[x] = task[x]
    PROVE  /\ TaskStatus' = [TaskStatus EXCEPT ![d] = new.status]
           /\ TaskResume' = [TaskResume EXCEPT ![d] = ResumeOf(new)]
           /\ TaskStatus[d] = task[d].status /\ TaskResume[d] = ResumeOf(task[d])
           /\ ResumeOf(new) = ResumeOf(task[d]) => TaskResume' = TaskResume
           /\ new.status = task[d].status => TaskStatus' = TaskStatus
<1>1. \A x \in Decision : TaskStatus'[x] = IF x = d THEN new.status ELSE TaskStatus[x]
  BY DEF TaskStatus
<1>2. \A x \in Decision : TaskResume'[x] = IF x = d THEN ResumeOf(new) ELSE TaskResume[x]
  BY DEF TaskResume, ResumeOf
<1>3. TaskStatus[d] = task[d].status /\ TaskResume[d] = ResumeOf(task[d])
  BY DEF TaskStatus, TaskResume, ResumeOf
<1>4. TaskStatus' = [TaskStatus EXCEPT ![d] = new.status]
  BY <1>1 DEF TaskStatus
<1>5. TaskResume' = [TaskResume EXCEPT ![d] = ResumeOf(new)]
  BY <1>2 DEF TaskResume
<1>6. ResumeOf(new) = ResumeOf(task[d]) => TaskResume' = TaskResume
  BY <1>2, <1>3 DEF TaskResume
<1>7. new.status = task[d].status => TaskStatus' = TaskStatus
  BY <1>1, <1>3 DEF TaskStatus
<1> QED
  BY <1>3, <1>4, <1>5, <1>6, <1>7

\* The creation of a task is Create.
LEMMA LifecycleCreate ==
    ASSUME Foundation, Tasks, NEW s \in Session, CreateTaskCommit(s), task' # task
    PROVE  Abstract!Step
<1>1. PICK d \in Decision, row \in {session[s].row} : session[s].decision = d
  BY DEF CreateTaskCommit, Foundation, SessionShape, Shaped
<1>2. task[d].status = "absent" /\ task' = [task EXCEPT ![d] = row] /\ outcomes' = outcomes
  BY <1>1 DEF CreateTaskCommit
<1>3. row.status = "open" /\ row.escalation = "none"
  BY <1>1 DEF CreateTaskCommit, Tasks, TasksPrepared, TaskOf, PreparedTask
<1>4. task'[d] = row /\ \A x \in Decision \ {d} : task'[x] = task[x]
  BY <1>2 DEF Foundation, TypeOK
<1>5. task[d] = NoTask
  BY <1>2 DEF Tasks, TaskRowsOK, TaskRowOK
<1>6. ResumeOf(row) = ResumeOf(task[d])
  BY <1>3, <1>5 DEF ResumeOf, NoTask
<1>7. /\ TaskStatus' = [TaskStatus EXCEPT ![d] = "open"] /\ TaskStatus[d] = "absent"
      /\ TaskResume' = TaskResume
  BY <1>2, <1>3, <1>4, <1>6, LifecycleFrame
<1>8. TaskResolution' = TaskResolution
  BY <1>2 DEF TaskResolution, ResolutionOf
<1>9. Abstract!Create(d)
  BY <1>7, <1>8 DEF Abstract!Create
<1> QED
  BY <1>9 DEF Abstract!Step

\* A task operation is the transition of its event, or, for a comment, none.
LEMMA LifecycleCommit ==
    ASSUME Foundation, Tasks, NEW s \in Session, TaskCommit(s)
    PROVE  \/ Abstract!Step
           \/ TaskStatus' = TaskStatus /\ TaskResume' = TaskResume /\ TaskResolution' = TaskResolution
<1>1. PICK d, row, event : d = session[s].decision /\ row = session[s].row /\ event = session[s].event
  OBVIOUS
<1>2. /\ d \in Decision /\ row \in TaskRow /\ event \in Event /\ task[d] \in TaskRow
      /\ TaskChange(task[d], row, event, session[s].actor)
      /\ TaskRowOK(task[d], decision[d], history[d])
      /\ task'[d] = row /\ \A x \in Decision \ {d} : task'[x] = task[x]
      /\ outcomes' = IF row.status \in Terminal THEN outcomes \cup {OutcomeOf(s)} ELSE outcomes
  BY <1>1, TaskCommitEffect
<1>3. /\ TaskStatus' = [TaskStatus EXCEPT ![d] = row.status]
      /\ TaskResume' = [TaskResume EXCEPT ![d] = ResumeOf(row)]
      /\ TaskStatus[d] = task[d].status /\ TaskResume[d] = ResumeOf(task[d])
      /\ ResumeOf(row) = ResumeOf(task[d]) => TaskResume' = TaskResume
      /\ row.status = task[d].status => TaskStatus' = TaskStatus
  BY <1>2, LifecycleFrame
<1>4. /\ task[d].status = "open" => task[d].escalation = "none"
      /\ task[d].status = "escalated" => task[d].escalation = "senior_review"
  BY <1>2 DEF TaskRowOK
<1>5. row.status \notin Terminal => TaskResolution' = TaskResolution
  BY <1>2 DEF TaskResolution, ResolutionOf
<1>6. CASE event = "commented"
  <2>1. row = task[d] /\ row.status \notin Terminal
    BY <1>2, <1>6 DEF TaskChange
  <2> QED
    BY <1>3, <1>5, <2>1
<1>7. CASE event = "escalated"
  <2>1. task[d].status = "open" /\ row.status = "escalated" /\ row.escalation = "senior_review"
    BY <1>2, <1>7 DEF TaskChange
  <2>2. ResumeOf(row) = "escalated" /\ row.status \notin Terminal
    BY <2>1 DEF ResumeOf, Terminal
  <2>3. Abstract!Escalate(d)
    BY <1>3, <1>5, <2>1, <2>2 DEF Abstract!Escalate
  <2> QED
    BY <1>2, <2>3 DEF Abstract!Step
<1>8. CASE event = "information_requested"
  <2>1. /\ task[d].status \in {"open", "escalated"} /\ row.status = "information_requested"
        /\ row.escalation = task[d].escalation
    BY <1>2, <1>8 DEF TaskChange
  <2>2. ResumeOf(row) = task[d].status /\ row.status \notin Terminal
    BY <1>4, <2>1 DEF ResumeOf, Terminal
  <2>3. Abstract!AskForInformation(d)
    BY <1>3, <1>5, <2>1, <2>2 DEF Abstract!AskForInformation
  <2> QED
    BY <1>2, <2>3 DEF Abstract!Step
<1>9. CASE event = "information_responded"
  <2>1. /\ task[d].status = "information_requested" /\ row.status = ResumeOf(task[d])
        /\ ResumeOf(row) = ResumeOf(task[d])
    BY <1>2, <1>9 DEF TaskChange, ResumeOf
  <2>2. row.status \notin Terminal
    BY <2>1 DEF ResumeOf, Terminal
  <2>3. Abstract!ReceiveInformation(d)
    BY <1>3, <1>5, <2>1, <2>2 DEF Abstract!ReceiveInformation
  <2> QED
    BY <1>2, <2>3 DEF Abstract!Step
<1>10. CASE event \in {"approved", "rejected"}
  <2>1. /\ row.status = event /\ ResumeOf(row) = ResumeOf(task[d])
        /\ task[d].status \in Status \ Terminal
        /\ event = "approved" => task[d].status \in {"open", "escalated"}
    BY <1>2, <1>10 DEF TaskChange, ResumeOf
  <2> DEFINE new == OutcomeOf(s)
  <2>2. /\ new.task = d /\ outcomes' = outcomes \cup {new}
        /\ new.type \in {"approved", "corrected_and_approved", "rejected"}
        /\ new.type = "rejected" <=> event = "rejected"
    BY <1>1, <1>2, <1>10, <2>1 DEF OutcomeOf, Terminal
  <2> HIDE DEF new
  <2>3. \A o \in outcomes : o.task # d
    BY <2>1 DEF Tasks, OutcomesOK, OutcomeOK, Terminal
  <2>4. /\ ResolutionOf(d)' = new.type
        /\ \A x : x # d => ResolutionOf(x)' = ResolutionOf(x)
    BY <2>2, <2>3, ResolutionAdds
  <2>5. TaskResolution' = [TaskResolution EXCEPT ![d] = new.type]
    BY <2>4 DEF TaskResolution
  <2>6. TaskResolution[d] = "none"
    BY <1>2, <2>3, ResolutionOfNone DEF TaskResolution
  <2>7. event \in AllowedTransitions[task[d].status] \cap Terminal
    BY <1>10, <2>1 DEF AllowedTransitions, Status, Terminal
  <2>8. event \in Abstract!Terminal /\ task[d].status \in Abstract!Status
        /\ event \in Abstract!AllowedTransitions[task[d].status] \cap Abstract!Terminal
    BY <2>1, <2>7 DEF AllowedTransitions, Status, Terminal, Abstract!AllowedTransitions,
                      Abstract!Status, Abstract!Terminal
  <2>9. Abstract!Resolve(d, event, new.type)
    BY <1>3, <2>1, <2>2, <2>5, <2>6, <2>8, <1>10 DEF Abstract!Resolve
  <2> QED
    BY <1>2, <2>2, <2>8, <2>9 DEF Abstract!Step
<1> QED
  BY <1>2, <1>6, <1>7, <1>8, <1>9, <1>10 DEF TaskChange

\* Every step is a step of the lifecycle or leaves it alone.
LEMMA LifecycleStep == Foundation /\ Tasks /\ [Next]_vars => [Abstract!Step]_(Abstract!lifecycle)
<1> SUFFICES ASSUME Foundation, Tasks, [Next]_vars
             PROVE  \/ Abstract!Step
                    \/ TaskStatus' = TaskStatus /\ TaskResume' = TaskResume
                       /\ TaskResolution' = TaskResolution
  BY DEF Abstract!lifecycle
<1>1. CASE task' = task /\ outcomes' = outcomes
  BY <1>1 DEF TaskStatus, TaskResume, TaskResolution, ResolutionOf
<1>2. ASSUME NEW s \in Session, CorrectFieldCommit(s) \/ DecisionCommit(s)
      PROVE  task' = task /\ outcomes' = outcomes
  BY <1>2 DEF CorrectFieldCommit, DecisionCommit
<1>3. ASSUME NEW s \in Session, CreateTaskCommit(s)
      PROVE  Abstract!Step \/ (task' = task /\ outcomes' = outcomes)
  BY <1>3, LifecycleCreate DEF CreateTaskCommit
<1> QED
  BY <1>1, <1>2, <1>3, LifecycleCommit, OnlyCommitsWrite

\* The committed tasks and outcomes of any number of sessions behave as the
\* abstract lifecycle allows.
THEOREM LifecycleImplemented == Spec => ImplementsLifecycle
  BY LifecycleInit, LifecycleStep, TasksHold, PTL DEF Spec, ImplementsLifecycle, Abstract!Lifecycle
=============================================================================
