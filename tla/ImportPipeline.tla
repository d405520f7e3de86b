---------------------------- MODULE ImportPipeline ----------------------------
(***************************************************************************)
(* One bulk import of students (src/backend/src/core/reporting/import):    *)
(* the file is validated by one background job and committed by a second,  *)
(* the operator may cancel in between.                                     *)
(*                                                                         *)
(* A job may be taken more than once, by several workers, at the same time *)
(* or after a crash (see JobQueue). Every change of status is a            *)
(* transaction that checks the status it reads and is bound to its         *)
(* version: one step, or a failure. The rows of the file are written by    *)
(* one transaction and the outcome is recorded by another.                 *)
(*                                                                         *)
(* A row is named by its admission number, which is unique among students. *)
(* Deletion of an import has no callers and is left out, as is the plan's  *)
(* threshold notice (UsageLimits). A definition of the queue is active.    *)
(***************************************************************************)
EXTENDS Integers, FiniteSets

CONSTANTS
  Rows,      \* rows of the file, in order
  Limit,     \* how many students the plan allows
  Workers,   \* replicas that run jobs
  MaxTakes   \* bound on how often a job is taken

VARIABLES
  status,    \* status of the import
  committed, \* its committedRows
  invalid,   \* rows that the validator refuses
  automatic, \* the option commitOnSuccess
  taken,     \* taken[j]  : how often job j was taken, or NotEnqueued
  worker,    \* worker[w] : the step its handler is at, and what it knows
  student,   \* admission numbers in use
  used,      \* students that the usage counter counts
  usable,    \* does the plan allow changes?
  warned,    \* rows reported as failed
  batches,   \* what the committed transactions wrote, see Batch (history)
  broken     \* has a handler failed or died after it began? (history)

vars == <<status, committed, invalid, automatic, taken, worker, student, used, usable,
          warned, batches, broken>>

NotEnqueued == -1
Jobs == {"run", "commit"}

Idle == [at |-> "idle"]
At(step) == [at |-> step]

Init ==
  /\ status = "PENDING" /\ committed = 0
  /\ invalid \in SUBSET Rows /\ automatic \in BOOLEAN
  /\ taken = [j \in Jobs |-> IF j = "run" THEN 0 ELSE NotEnqueued]
  /\ worker = [w \in Workers |-> Idle]
  /\ student = {} /\ used = 0 /\ usable = TRUE
  /\ warned = {} /\ batches = {} /\ broken = FALSE

Goto(w, step) == worker' = [worker EXCEPT ![w] = step]

school == <<student, used, usable>>
history == <<batches, broken>>
file == <<invalid, automatic>>

-----------------------------------------------------------------------------
(* Jobs                                                                    *)

\* The handler looks at the import before it does anything: the first job works on a
\* PENDING one, the second on one that is COMMITTING.
Take(w, j) ==
  /\ worker[w] = Idle /\ taken[j] \in 0 .. MaxTakes - 1
  /\ taken' = [taken EXCEPT ![j] = @ + 1]
  /\ Goto(w, CASE j = "run" /\ status = "PENDING" -> At("starting")
               [] j = "commit" /\ status = "COMMITTING" -> At("parsing")
               [] OTHER -> Idle)
  /\ UNCHANGED <<status, committed, file, school, warned, history>>

\* A call throws and the handler records the failure ...
Throws(w) ==
  /\ worker[w].at \in {"validating", "parsing", "writing", "recording"}
  /\ Goto(w, At("failing")) /\ broken' = TRUE
  /\ UNCHANGED <<status, committed, file, taken, school, warned, batches>>

\* ... or the process dies, or a call throws that nothing catches.
Dies(w) ==
  /\ worker[w] # Idle
  /\ Goto(w, Idle) /\ broken' = TRUE
  /\ UNCHANGED <<status, committed, file, taken, school, warned, batches>>

\* markFailed, from the two statuses in which work is under way; otherwise it throws, and
\* that is only logged.
MarkFailed(w) ==
  /\ worker[w].at = "failing"
  /\ status' = IF status \in {"VALIDATING", "COMMITTING"} THEN "FAILED" ELSE status
  /\ Goto(w, Idle)
  /\ UNCHANGED <<committed, file, taken, school, warned, history>>

-----------------------------------------------------------------------------
(* Validation                                                              *)

MarkValidating(w) ==
  /\ worker[w].at = "starting" /\ status = "PENDING"
  /\ status' = "VALIDATING"
  /\ Goto(w, At("validating"))
  /\ UNCHANGED <<committed, file, taken, school, warned, history>>

\* The import is no longer PENDING: the job fails without touching it.
LateStart(w) ==
  /\ worker[w].at = "starting" /\ status # "PENDING"
  /\ Goto(w, Idle)
  /\ UNCHANGED <<status, committed, file, taken, school, warned, history>>

MarkValidated(w) ==
  /\ worker[w].at = "validating" /\ status = "VALIDATING"
  /\ status' = "VALIDATED"
  /\ Goto(w, IF automatic /\ invalid = {} THEN At("promoting") ELSE Idle)
  /\ UNCHANGED <<committed, file, taken, school, warned, history>>

\* FAULT: an import is committed whatever its status.
Committable_Always == TRUE

\* commit: of the status in the database.
Committable == status = "VALIDATED"

Commit ==
  /\ Committable
  /\ status' = "COMMITTING"
  /\ taken' = [taken EXCEPT !["commit"] = 0]

\* The option commitOnSuccess; a refusal is only logged.
AutoCommit(w) ==
  /\ worker[w].at = "promoting"
  /\ IF Committable THEN Commit ELSE UNCHANGED <<status, taken>>
  /\ Goto(w, Idle)
  /\ UNCHANGED <<committed, file, school, warned, history>>

-----------------------------------------------------------------------------
(* Commit of the rows                                                      *)

\* The transaction's first query fixes its snapshot.
BeginRows(w) ==
  /\ worker[w].at = "parsing"
  /\ Goto(w, [at |-> "writing", student |-> student, used |-> used, usable |-> usable])
  /\ UNCHANGED <<status, committed, file, taken, school, warned, history>>

\* The rows whose admission number is free, in the snapshot and in the unique index.
Fresh(seen) == {r \in Rows \ invalid : r \notin seen.student \cup student}

\* The first rows of `fresh` that the plan admits: the limit is compared with the snapshot
\* until the transaction has written the counter, and with the counter from then on.
Admitted(seen, fresh) ==
  LET room == IF ~seen.usable \/ seen.used >= Limit THEN 0
              ELSE IF Limit - used > 1 THEN Limit - used ELSE 1
  IN {r \in fresh : Cardinality({q \in fresh : q < r}) < room}

\* A row that is refused is caught and reported; the student is inserted before the plan
\* is asked, and stays.
WriteRows(w) ==
  LET fresh == Fresh(worker[w])
      admitted == Admitted(worker[w], fresh)
      failed == (Rows \ invalid) \ admitted
  IN /\ worker[w].at = "writing"
     /\ student' = student \cup fresh
     /\ used' = used + Cardinality(admitted)
     /\ batches' = batches \cup {[fresh |-> fresh, admitted |-> admitted]}
     /\ Goto(w, [at |-> "recording", admitted |-> admitted, failed |-> failed])
     /\ UNCHANGED <<status, committed, file, taken, usable, warned, broken>>

\* Warnings for the failed rows; if they cannot be written that is only logged.
Warn(w) ==
  /\ worker[w].at = "recording" /\ worker[w].failed # {}
  /\ \/ warned' = warned \cup worker[w].failed /\ UNCHANGED broken
     \/ UNCHANGED warned /\ broken' = TRUE
  /\ Goto(w, [worker[w] EXCEPT !.failed = {}])
  /\ UNCHANGED <<status, committed, file, taken, school, batches>>

MarkCommitted(w) ==
  /\ worker[w].at = "recording" /\ worker[w].failed = {}
  /\ status = "COMMITTING"
  /\ status' = "COMMITTED" /\ committed' = Cardinality(worker[w].admitted)
  /\ Goto(w, Idle)
  /\ UNCHANGED <<file, taken, school, warned, history>>

\* The import has been settled by another worker.
LateEnd(w) ==
  /\ \/ worker[w].at = "recording" /\ worker[w].failed = {} /\ status # "COMMITTING"
     \/ worker[w].at = "validating" /\ status # "VALIDATING"
  /\ Goto(w, At("failing"))
  /\ UNCHANGED <<status, committed, file, taken, school, warned, history>>

-----------------------------------------------------------------------------
(* Operators                                                               *)

Cancel ==
  /\ status \in {"PENDING", "VALIDATING", "VALIDATED"}
  /\ status' = "CANCELLED"
  /\ UNCHANGED <<committed, file, taken, worker, school, warned, history>>

CommitByHand ==
  /\ Commit
  /\ UNCHANGED <<committed, file, worker, school, warned, history>>

\* A student is registered with the admission number of a row.
Register(r) ==
  /\ r \notin student /\ usable /\ used < Limit
  /\ student' = student \cup {r} /\ used' = used + 1
  /\ UNCHANGED <<status, committed, file, taken, worker, usable, warned, history>>

PlanChanges ==
  /\ usable' = ~usable
  /\ UNCHANGED <<status, committed, file, taken, worker, student, used, warned, history>>

Next ==
  \/ \E w \in Workers :
       \/ \E j \in Jobs : Take(w, j)
       \/ Throws(w) \/ Dies(w) \/ MarkFailed(w)
       \/ MarkValidating(w) \/ LateStart(w) \/ MarkValidated(w) \/ AutoCommit(w)
       \/ BeginRows(w) \/ WriteRows(w) \/ Warn(w) \/ MarkCommitted(w) \/ LateEnd(w)
  \/ Cancel \/ CommitByHand \/ PlanChanges
  \/ \E r \in Rows : Register(r)

Spec == Init /\ [][Next]_vars

-----------------------------------------------------------------------------
(* Properties                                                              *)

Written == UNION {b.fresh : b \in batches}
Counted == UNION {b.admitted : b \in batches}

TypeOK ==
  /\ status \in {"PENDING", "VALIDATING", "VALIDATED", "COMMITTING", "COMMITTED", "FAILED",
                 "CANCELLED"}
  /\ committed \in 0 .. Cardinality(Rows)
  /\ invalid \subseteq Rows /\ automatic \in BOOLEAN
  /\ taken \in [Jobs -> NotEnqueued .. MaxTakes]
  /\ DOMAIN worker = Workers
  /\ student \subseteq Rows /\ used \in 0 .. Cardinality(Rows) /\ usable \in BOOLEAN
  /\ warned \subseteq Rows
  /\ \A b \in batches : b.admitted \subseteq b.fresh /\ b.fresh \subseteq student
  /\ broken \in BOOLEAN

\* An import writes rows only after it was validated and promoted: one that was cancelled,
\* by whatever worker was under way, has written none.
CancelledWritesNothing ==
  status \in {"PENDING", "VALIDATING", "VALIDATED", "CANCELLED"} => batches = {}

\* A committed import that nobody took twice and that met no failure says what it did: as
\* many rows as were counted, and a warning for every other valid one.
OutcomeIsTrue ==
  status = "COMMITTED" /\ taken["commit"] = 1 /\ ~broken =>
    /\ committed = Cardinality(Counted)
    /\ (Rows \ invalid) \ Counted \subseteq warned

\* The usage counter misses exactly the students of rows that were inserted and then
\* refused, and those are students although the import reports their rows as failed.
MissedAreRefused ==
  used = Cardinality(student \ (Written \ Counted))
=============================================================================
