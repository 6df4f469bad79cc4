------------------------------ MODULE Workflow ------------------------------
(***************************************************************************)
(* The services that move a record along a table of statuses: enrolments,  *)
(* course plans, teaching classes, receipts of notifications, adjustments  *)
(* of bills.  They share one shape: read the record, look up the table,    *)
(* write the status.  One record, of any of the kinds.                     *)
(***************************************************************************)
EXTENDS Naturals

CONSTANTS
  Users,         \* callers, one call each at one time
  Nobody,
  MaxWrites      \* bound: calls that get past their checks, and edits

WorkflowAssumption == Nobody \notin Users /\ MaxWrites \in Nat

VARIABLES
  kind,          \* what the record is
  status,
  initiator,     \* of an adjustment
  reviewer,      \* of an adjustment
  call,          \* what each user's call is doing
  writes,
  byForm         \* history: the form, and no transition, wrote the record last

vars == <<kind, status, initiator, reviewer, call, writes, byForm>>

TRANSITIONS ==
  [enrolment  |-> [pending |-> {"studying", "left"},
                   studying |-> {"paused", "finished", "left"},
                   paused |-> {"studying", "left"}, finished |-> {}, left |-> {}],
   plan       |-> [draft |-> {"review"}, review |-> {"published", "draft"},
                   published |-> {"retired"}, retired |-> {"draft"}],
   class      |-> [preparing |-> {"running", "cancelled"},
                   running |-> {"closed", "cancelled"}, closed |-> {}, cancelled |-> {}],
   receipt    |-> [toSend |-> {"sent", "failed"}, sent |-> {"delivered", "failed"},
                   delivered |-> {"read"}, read |-> {}, failed |-> {"toSend"}],
   adjustment |-> [pending |-> {"reviewed"}, reviewed |-> {}]]
Kinds == DOMAIN TRANSITIONS
Statuses(k) == DOMAIN TRANSITIONS[k]

\* What create writes where its form names no status; a receipt is created as
\* sent.
First == [enrolment |-> "pending", plan |-> "draft", class |-> "preparing",
          receipt |-> "sent", adjustment |-> "pending"]

\* The form of these has the status among its fields; that of an adjustment
\* the reviewer, too.
Editable == {"enrolment", "plan", "class", "adjustment"}

\* Whom the form may write down as the reviewer.
Reviewers == IF kind = "adjustment" THEN Users \cup {Nobody} ELSE {Nobody}

Gone == "gone"   \* the status of a record that was deleted
Idle == [to |-> "none", late |-> FALSE]

Init ==
  /\ kind \in Kinds
  /\ status \in IF kind \in Editable \ {"adjustment"} THEN Statuses(kind) ELSE {First[kind]}
  /\ initiator \in IF kind = "adjustment" THEN Users ELSE {Nobody}
  /\ reviewer \in Reviewers
  /\ call = [u \in Users |-> Idle]
  /\ writes = 0 /\ byForm = FALSE

\* The initiator of an adjustment must not review it.
\* Mutant: nor must whoever has reviewed it; the initiator may.
Refused_Reviewer(u) == kind = "adjustment" /\ u = reviewer

Refused(u) == kind = "adjustment" /\ u = initiator

\* detail, the table, and what is special to the kind.
\* Mutant: the table is not asked.
Ask_Anything(u, to) ==
  /\ call[u] = Idle /\ writes < MaxWrites /\ writes' = writes + 1
  /\ to # status /\ status # Gone /\ ~Refused(u)
  /\ call' = [call EXCEPT ![u] = [to |-> to, late |-> FALSE]]
  /\ UNCHANGED <<kind, status, initiator, reviewer, byForm>>

Ask(u, to) ==
  /\ call[u] = Idle /\ writes < MaxWrites /\ writes' = writes + 1
  /\ status # Gone /\ to \in TRANSITIONS[kind][status] /\ ~Refused(u)
  /\ call' = [call EXCEPT ![u] = [to |-> to, late |-> FALSE]]
  /\ UNCHANGED <<kind, status, initiator, reviewer, byForm>>

Overtakes(u) == [v \in Users |-> IF call[v] = Idle \/ v = u THEN Idle
                                 ELSE [call[v] EXCEPT !.late = TRUE]]

Write(u) ==
  /\ call[u] # Idle
  /\ status' = IF status = Gone THEN Gone ELSE call[u].to
  /\ reviewer' = IF status # Gone /\ kind = "adjustment" THEN u ELSE reviewer
  /\ call' = Overtakes(u)
  /\ byForm' = (byForm /\ status = Gone)
  /\ UNCHANGED <<kind, initiator, writes>>

\* update of the form; who began an adjustment is not a field of it.
Update ==
  /\ kind \in Editable /\ status # Gone /\ writes < MaxWrites /\ writes' = writes + 1
  /\ status' \in Statuses(kind) /\ reviewer' \in Reviewers
  /\ <<status, reviewer>>' # <<status, reviewer>>
  /\ call' = [u \in Users |-> IF call[u] = Idle THEN Idle
                              ELSE [call[u] EXCEPT !.late = TRUE]]
  /\ byForm' = TRUE
  /\ UNCHANGED <<kind, initiator>>

\* archive deletes the record: a later update of it changes nothing.  There is
\* none for a receipt.
Archive ==
  /\ kind # "receipt"
  /\ status # Gone /\ writes < MaxWrites /\ writes' = writes + 1
  /\ status' = Gone
  /\ UNCHANGED <<kind, initiator, reviewer, call, byForm>>

Next == (\E u \in Users : (\E to \in Statuses(kind) : Ask(u, to)) \/ Write(u)) \/ Update \/ Archive

Spec == Init /\ [][Next]_vars

-----------------------------------------------------------------------------
TypeInv ==
  /\ status \in Statuses(kind) \cup {Gone}
  /\ {initiator, reviewer} \subseteq Users \cup {Nobody}
  /\ \A u \in Users : call[u].to \in Statuses(kind) \cup {"none"}
  /\ writes \in 0..MaxWrites

(* The status of a record goes along its table, unless by the form or by a  *)
(* call that was overtaken between its read and its write.                  *)
FollowsTable ==
  [][status' # status =>
       \/ status # Gone /\ status' \in TRANSITIONS[kind][status]
       \/ writes' # writes
       \/ \E u \in Users : call[u].late /\ call'[u] = Idle]_vars

(* An adjustment that a transition left reviewed was reviewed by somebody   *)
(* other than who began it, and keeps that reviewer until the form writes   *)
(* another or a review that was overtaken does.                             *)
ByTransition == kind = "adjustment" /\ status = "reviewed" /\ ~byForm
SeparateDuties ==
  /\ [](ByTransition => reviewer \notin {initiator, Nobody})
  /\ [][ByTransition /\ reviewer' # reviewer =>
           byForm' \/ \E u \in Users : call[u].late /\ call'[u] = Idle]_vars
=============================================================================
