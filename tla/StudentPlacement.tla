--------------------------- MODULE StudentPlacement ---------------------------
(***************************************************************************)
(* The roll numbers of students (src/backend/src/core/student), and the    *)
(* bulk operation that promotes students to the next year                  *)
(* (src/backend/src/core/reporting/bulk-operation).                        *)
(*                                                                         *)
(* A roll number is to be unique in its section and year, and no index     *)
(* says so: who creates a student or assigns a number looks at the         *)
(* snapshot of the transaction first. A change of section or year, and a   *)
(* promotion, take the number along without a look. Updates are bound to   *)
(* the version of the student; those that look at nobody else, and the     *)
(* transaction that promotes one student, are one step.                    *)
(*                                                                         *)
(* The job of a promotion may be taken more than once (see JobQueue). Its  *)
(* outcome is recorded by a transaction of its own. Whether the plan       *)
(* admits a student is in UsageLimits.                                     *)
(***************************************************************************)
EXTENDS Integers, Sequences, FiniteSets

CONSTANTS
  Students,
  Places,    \* sections in years
  Rolls,
  Requests,  \* transactions that look before they write
  Targets,   \* the students the promotion names, in order
  From, To,  \* the place they leave, and the one they enter
  Workers,   \* replicas that run its job
  MaxTakes,  \* bound on how often the job is taken
  MaxMoves,  \* bound on edits of a placement
  None

VARIABLES
  student,   \* student[s] : place (None before, "deleted" after), roll number, status, and
             \* how the number came to the place (history)
  request,   \* request[r] : the open transaction and what it decided on its snapshot
  moves,     \* edits of a placement so far
  promotion, \* status and counters of the operation, and whose they are (history)
  takes,     \* how often its job was taken
  worker,    \* worker[w]  : the pass of the worker
  promoted   \* which pass promoted which target (history)

vars == <<student, request, moves, promotion, takes, worker, promoted>>

work == <<promotion, takes, worker, promoted>>

Away == [at |-> "away"]

NoStudent(place) == [place |-> place, roll |-> None, active |-> FALSE, how |-> "seen"]

Init ==
  /\ student = [s \in Students |-> NoStudent(None)]
  /\ request = [r \in Requests |-> Away]
  /\ moves = 0
  /\ promotion = [status |-> "none", succeeded |-> 0, failed |-> 0, pass |-> 0]
  /\ takes = 0
  /\ worker = [w \in Workers |-> Away]
  /\ promoted = {}

Enrolled == {s \in Students : student[s].place \in Places}

-----------------------------------------------------------------------------
(* Students                                                                *)

\* The row changes its version: transactions that have read it will fail, and those that
\* looked at it for another student go on with what they saw.
Put(s, row) ==
  /\ student' = [student EXCEPT ![s] = row]
  /\ request' = [r \in Requests |->
       IF request[r] = Away THEN Away
       ELSE IF request[r].student = s THEN [request[r] EXCEPT !.valid = FALSE]
       ELSE [request[r] EXCEPT !.overtaken = TRUE]]

\* FAULT: inactive students do not count.
Clash_ActiveOnly(s, place, roll) ==
  \E t \in Enrolled \ {s} :
    student[t].place = place /\ student[t].roll = roll /\ student[t].active

\* findRollClash: somebody else has the number, whatever his status.
Clash(s, place, roll) ==
  \E t \in Enrolled \ {s} : student[t].place = place /\ student[t].roll = roll

\* A student is to be created with a number, or to get one where he is.
Look(r, s, place, roll) ==
  /\ request[r] = Away
  /\ student[s].place \in {None, place}
  /\ ~Clash(s, place, roll)
  /\ request' = [request EXCEPT ![r] = [at |-> "looked", student |-> s, place |-> place,
                   roll |-> roll, valid |-> TRUE, overtaken |-> FALSE]]
  /\ UNCHANGED <<student, moves, work>>

\* Admission number or version are as the transaction read them.
WriteRoll(r) ==
  LET q == request[r] IN
  /\ q.at = "looked" /\ q.valid
  /\ student' = [student EXCEPT ![q.student] =
       [place |-> q.place, roll |-> q.roll,
        active |-> @.place = None \/ @.active,
        how |-> IF q.overtaken THEN "blind" ELSE "seen"]]
  /\ request' = [p \in Requests |->
       IF p = r \/ request[p] = Away THEN Away
       ELSE IF request[p].student = q.student THEN [request[p] EXCEPT !.valid = FALSE]
       ELSE [request[p] EXCEPT !.overtaken = TRUE]]
  /\ UNCHANGED <<moves, work>>

Fail(r) ==
  /\ request[r] # Away
  /\ request' = [request EXCEPT ![r] = Away]
  /\ UNCHANGED <<student, moves, work>>

\* A student is created without a number.
Create(s, place) ==
  /\ student[s].place = None
  /\ Put(s, [place |-> place, roll |-> None, active |-> TRUE, how |-> "seen"])
  /\ UNCHANGED <<moves, work>>

\* The number is taken away.
ClearRoll(s) ==
  /\ s \in Enrolled /\ student[s].roll # None
  /\ Put(s, [student[s] EXCEPT !.roll = None])
  /\ UNCHANGED <<moves, work>>

\* update: the number goes with the student.
Update(s, place) ==
  /\ s \in Enrolled /\ place # student[s].place /\ moves < MaxMoves
  /\ moves' = moves + 1
  /\ Put(s, [student[s] EXCEPT !.place = place, !.how = "carried"])
  /\ UNCHANGED work

\* deactivate and reactivate.
SetStatus(s) ==
  /\ s \in Enrolled
  /\ Put(s, [student[s] EXCEPT !.active = ~@])
  /\ UNCHANGED <<moves, work>>

SoftDelete(s) ==
  /\ s \in Enrolled
  /\ Put(s, NoStudent("deleted"))
  /\ UNCHANGED <<moves, work>>

-----------------------------------------------------------------------------
(* Promotion                                                               *)

Goto(w, step) == worker' = [worker EXCEPT ![w] = step]

\* The operation is created with its job; it can no longer be cancelled.
CreateExecute ==
  /\ promotion.status = "none"
  /\ promotion' = [promotion EXCEPT !.status = "EXECUTING"]
  /\ UNCHANGED <<student, request, moves, takes, worker, promoted>>

\* Only an operation that is executing is worked on.
Take(w) ==
  /\ worker[w] = Away /\ promotion.status # "none" /\ takes < MaxTakes
  /\ takes' = takes + 1
  /\ Goto(w, IF promotion.status = "EXECUTING"
             THEN [at |-> "pass", pass |-> takes + 1, done |-> 0, succeeded |-> 0]
             ELSE Away)
  /\ UNCHANGED <<student, request, moves, promotion, promoted>>

\* FAULT: whoever is named is moved on, wherever he is.
Eligible_Anywhere(s) == s \in Enrolled /\ student[s].active

Eligible(s) == student[s].place = From /\ student[s].active

\* The next student in a transaction of his own; an error is caught and counted.
Promote(w) ==
  LET k == worker[w]
      s == Targets[k.done + 1]
  IN /\ k.at = "pass" /\ k.done < Len(Targets)
     /\ \/ /\ Eligible(s)
           /\ Put(s, [student[s] EXCEPT !.place = To, !.how = "carried"])
           /\ promoted' = promoted \cup {<<k.pass, k.done + 1>>}
           /\ Goto(w, [k EXCEPT !.done = @ + 1, !.succeeded = @ + 1])
        \/ Goto(w, [k EXCEPT !.done = @ + 1]) /\ UNCHANGED <<student, request, promoted>>
     /\ UNCHANGED <<moves, promotion, takes>>

\* markCompleted, with the counts of this pass.
MarkCompleted(w) ==
  LET k == worker[w] IN
  /\ k.at = "pass" /\ k.done = Len(Targets) /\ promotion.status = "EXECUTING"
  /\ promotion' = [status |-> "COMPLETED", succeeded |-> k.succeeded,
                   failed |-> k.done - k.succeeded, pass |-> k.pass]
  /\ Goto(w, Away)
  /\ UNCHANGED <<student, request, moves, takes, promoted>>

\* The call throws, because another worker was first or for another reason, and the handler
\* records a failure where the operation is still executing.
MarkFailed(w) ==
  LET k == worker[w] IN
  /\ k.at = "pass" /\ k.done \in {0, Len(Targets)}
  /\ promotion' = IF promotion.status = "EXECUTING"
                  THEN [promotion EXCEPT !.status = "FAILED"] ELSE promotion
  /\ Goto(w, Away)
  /\ UNCHANGED <<student, request, moves, takes, promoted>>

\* The process dies.
Die(w) ==
  /\ worker[w] # Away
  /\ Goto(w, Away)
  /\ UNCHANGED <<student, request, moves, promotion, takes, promoted>>

Next ==
  \/ \E r \in Requests :
       \/ \E s \in Students, place \in Places, roll \in Rolls : Look(r, s, place, roll)
       \/ WriteRoll(r) \/ Fail(r)
  \/ \E s \in Students :
       \/ \E place \in Places : Create(s, place) \/ Update(s, place)
       \/ ClearRoll(s) \/ SetStatus(s) \/ SoftDelete(s)
  \/ CreateExecute
  \/ \E w \in Workers : Take(w) \/ Promote(w) \/ MarkCompleted(w) \/ MarkFailed(w) \/ Die(w)

Spec == Init /\ [][Next]_vars

-----------------------------------------------------------------------------
(* Properties                                                              *)

TypeOK ==
  /\ student \in [Students -> [place : Places \cup {None, "deleted"}, roll : Rolls \cup {None},
                               active : BOOLEAN, how : {"seen", "blind", "carried"}]]
  /\ \A r \in Requests : request[r].at \in {"away", "looked"}
  /\ moves \in 0 .. MaxMoves /\ takes \in 0 .. MaxTakes
  /\ promotion.status \in {"none", "EXECUTING", "COMPLETED", "FAILED"}
  /\ \A w \in Workers : worker[w].at \in {"away", "pass"}
  /\ promoted \subseteq (1 .. MaxTakes) \X (1 .. Len(Targets))

\* Two students of one section and year have one number only if one of them brought it from
\* elsewhere, or took it when another had changed after the look.
RollsAreExplained ==
  \A s, t \in Enrolled :
    s # t /\ student[s].place = student[t].place /\ student[s].roll = student[t].roll =>
      student[s].roll = None \/ {"blind", "carried"} \cap {student[s].how, student[t].how} # {}

\* The targets that pass k promoted, and the times that student s was.
PromotedBy(k) == {i \in 1 .. Len(Targets) : <<k, i>> \in promoted}
PromotionsOf(s) == {p \in promoted : Targets[p[2]] = s}

\* However many passes go over one promotion, and however often it names a student, he is
\* promoted once, unless somebody moves him back; and what a completed promotion reports is
\* what the pass did that reported first.
PromotionAddsUp ==
  /\ promotion.status = "COMPLETED" =>
       /\ promotion.succeeded = Cardinality(PromotedBy(promotion.pass))
       /\ promotion.succeeded + promotion.failed = Len(Targets)
  /\ \A s \in Students : Cardinality(PromotionsOf(s)) <= 1 + moves
=============================================================================
