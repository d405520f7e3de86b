------------------------------ MODULE Coursework ------------------------------
(***************************************************************************)
(* One assignment, its submissions and its counters                        *)
(* (src/backend/src/core/academic-content/assignment and                   *)
(* assignment-submission).                                                 *)
(*                                                                         *)
(* Every request is one transaction under REPEATABLE READ. What it decides *)
(* it decides on its snapshot; its writes are bound to versions, except    *)
(* the counters, which are incremented where the assignment is not         *)
(* deleted, whether or not a row is found. A new submission locks the      *)
(* assignment by its foreign key, shared, and then needs it for itself.    *)
(***************************************************************************)
EXTENDS Integers, FiniteSets

CONSTANTS
  Students,
  Requests,   \* submissions and evaluations under way
  Marks,      \* what maxMarks may be
  NoMarks

VARIABLES
  assignment,  \* status, maxMarks and the three counters
  submission,  \* submission[s] : status, lateness and marks of the student's submission
  request      \* request[r]    : an open transaction and what its snapshot shows

vars == <<assignment, submission, request>>

Away == [at |-> "away"]
Absent == [status |-> "absent", late |-> FALSE, marks |-> NoMarks]

Init ==
  /\ assignment \in [status : {"DRAFT"}, maxMarks : Marks, submissions : {0},
                     evaluated : {0}, late : {0}]
  /\ submission = [s \in Students |-> Absent]
  /\ request = [r \in Requests |-> Away]

Goto(r, step) == request' = [request EXCEPT ![r] = step]

\* Transactions that have inserted a submission, and with it locked the assignment.
Inserted == {r \in Requests : request[r].at = "inserted"}

-----------------------------------------------------------------------------
(* The assignment: versioned updates, one step each                        *)

Change(field, value) ==
  /\ Inserted = {}
  /\ assignment' = [assignment EXCEPT ![field] = value]
  /\ UNCHANGED <<submission, request>>

\* FAULT: the maximum is not among the fields that publication freezes.
Update_Always(m) == assignment.status \in {"DRAFT", "PUBLISHED"} /\ Change("maxMarks", m)

\* Once published, an assignment keeps its marks.
Update(m) == assignment.status = "DRAFT" /\ Change("maxMarks", m)

Publish == assignment.status = "DRAFT" /\ Change("status", "PUBLISHED")
Close == assignment.status = "PUBLISHED" /\ Change("status", "CLOSED")
Cancel == assignment.status \in {"DRAFT", "PUBLISHED"} /\ Change("status", "CANCELLED")

SoftDelete == assignment.status \in {"DRAFT", "CLOSED", "CANCELLED"} /\ Change("status", "deleted")

-----------------------------------------------------------------------------
(* Submissions                                                             *)

\* An increment; on an assignment that is deleted it finds no row.
Bump(counts, field, by) ==
  IF counts.status = "deleted" THEN counts ELSE [counts EXCEPT ![field] = @ + by]

Submit(r, s) ==
  /\ request[r] = Away
  /\ assignment.status \in {"PUBLISHED", "CLOSED"} /\ submission[s] = Absent
  /\ Goto(r, [at |-> "submit", student |-> s])
  /\ UNCHANGED <<assignment, submission>>

\* The unique index waits for another transaction's submission of the student.
Insert(r, late) ==
  LET s == request[r].student IN
  /\ request[r].at = "submit"
  /\ submission[s] = Absent
  /\ submission' = [submission EXCEPT ![s] = [status |-> "SUBMITTED", late |-> late, marks |-> NoMarks]]
  /\ Goto(r, [request[r] EXCEPT !.at = "inserted"])
  /\ UNCHANGED assignment

\* FAULT: every submission counts as a late one.
CountSubmission_AllLate(r) ==
  /\ Inserted = {r}
  /\ assignment' = Bump(Bump(assignment, "submissions", 1), "late", 1)
  /\ Goto(r, Away)
  /\ UNCHANGED submission

\* The counters need the assignment's row, and the transaction commits.
CountSubmission(r) ==
  LET s == request[r].student IN
  /\ Inserted = {r}
  /\ assignment' = Bump(Bump(assignment, "submissions", 1), "late", IF submission[s].late THEN 1 ELSE 0)
  /\ Goto(r, Away)
  /\ UNCHANGED submission

\* A call throws, or two transactions that hold the row wait for each other and the
\* database ends one.
Fail(r) ==
  /\ request[r] # Away
  /\ submission' = IF r \in Inserted THEN [submission EXCEPT ![request[r].student] = Absent]
                   ELSE submission
  /\ Goto(r, Away)
  /\ UNCHANGED assignment

-----------------------------------------------------------------------------
(* Evaluation                                                              *)

\* Committed submissions that wait for a verdict.
Open(s) ==
  submission[s].status = "SUBMITTED" /\ \A r \in Inserted : request[r].student # s

\* Submission and assignment are read, and the marks judged by the snapshot.
Judge(r, s, m) ==
  /\ request[r] = Away
  /\ Open(s) /\ assignment.status # "deleted"
  /\ m \in 0 .. assignment.maxMarks
  /\ Goto(r, [at |-> "evaluate", student |-> s, marks |-> m])
  /\ UNCHANGED <<assignment, submission>>

\* The versioned update, and the counter.
Evaluate(r) ==
  LET s == request[r].student IN
  /\ request[r].at = "evaluate"
  /\ Open(s) /\ Inserted = {}
  /\ submission' = [submission EXCEPT ![s].status = "EVALUATED", ![s].marks = request[r].marks]
  /\ assignment' = Bump(assignment, "evaluated", 1)
  /\ Goto(r, Away)

Reject(s) ==
  /\ Open(s)
  /\ submission' = [submission EXCEPT ![s].status = "REJECTED"]
  /\ UNCHANGED <<assignment, request>>

Next ==
  \/ \E m \in Marks : Update(m)
  \/ Publish \/ Close \/ Cancel \/ SoftDelete
  \/ \E r \in Requests :
       \/ \E s \in Students : Submit(r, s)
       \/ \E late \in BOOLEAN : Insert(r, late)
       \/ CountSubmission(r) \/ Fail(r) \/ Evaluate(r)
       \/ \E s \in Students : \E m \in 0 .. assignment.maxMarks : Judge(r, s, m)
  \/ \E s \in Students : Reject(s)

Spec == Init /\ [][Next]_vars

-----------------------------------------------------------------------------
(* Properties                                                              *)

Committed == {s \in Students : submission[s] # Absent /\ \A r \in Inserted : request[r].student # s}

TypeOK ==
  /\ assignment.status \in {"DRAFT", "PUBLISHED", "CLOSED", "CANCELLED", "deleted"}
  /\ assignment.maxMarks \in Marks
  /\ \A f \in {"submissions", "evaluated", "late"} : assignment[f] \in 0 .. Cardinality(Students)
  /\ \A s \in Students : submission[s].status \in {"absent", "SUBMITTED", "EVALUATED", "REJECTED"}
  /\ \A r \in Requests : request[r].at \in {"away", "submit", "inserted", "evaluate"}

\* The counters of an assignment are those of its submissions, and no student has more
\* marks than there are, as long as the assignment exists: a transaction that began before
\* it was deleted adds a submission, or a verdict, that nothing counts.
SubmissionsAddUp ==
  LET count(P(_)) == Cardinality({s \in Committed : P(submission[s])}) IN
  /\ assignment.status # "deleted" =>
       /\ assignment.submissions = Cardinality(Committed)
       /\ assignment.late = count(LAMBDA x : x.late)
       /\ assignment.evaluated = count(LAMBDA x : x.status = "EVALUATED")
  /\ \A s \in Committed :
       submission[s].status = "EVALUATED" => submission[s].marks \in 0 .. assignment.maxMarks
=============================================================================
