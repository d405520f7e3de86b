------------------------------ MODULE JobQueue ------------------------------
(***************************************************************************)
(* Background jobs (src/backend/src/core/jobs): requests enqueue jobs, the *)
(* processor of every API replica claims, runs and settles them, records   *)
(* each run, and buries a job that failed too often in the dead letters,   *)
(* from which an operator replays it as a new job.                         *)
(*                                                                         *)
(* Unlike the outbox, nothing the processor writes is in a transaction     *)
(* with anything else: markRunning, the two run records, the outcome and   *)
(* the dead letter are five writes, and a replica may die between any two. *)
(* What a processor decides, it decides on the copy its claim returned.    *)
(***************************************************************************)
EXTENDS Integers, FiniteSets, Functions

CONSTANTS
  Jobs,         \* ids of job rows
  Requested,    \* the jobs that requests enqueue; the others are for replays
  Workers,      \* the processors of the API replicas
  Operators,    \* operator requests that replay dead letters
  BatchSize,    \* JOBS_CLAIM_BATCH_SIZE
  MaxAttempts,  \* maxAttempts of a job
  MaxAborts,    \* bound on crashes and database errors
  NoJob

ASSUME JobAssumption ==
  /\ Requested \subseteq Jobs /\ NoJob \notin Jobs
  /\ BatchSize \in Nat \ {0} /\ MaxAttempts \in Nat \ {0}
  /\ MaxAborts \in Nat

VARIABLES
  job,       \* job[j]    : status and attempts of the row, whether runAt has come
  origin,    \* origin[j] : the buried job whose replay created j, if any
  worker,    \* worker[w] : where the processor is, its copies, its job, its outcome
  runs,      \* the append-only job runs
  letter,    \* letter[j] : status of the dead letter of j (the first, when several
             \* replicas bury j: the others are rows like it)
  operator,  \* operator[o] : the replay request
  succeeded, \* jobs whose handler has returned (history)
  dropped,   \* jobs a processor held when it was cut short (history)
  unclaimed, \* jobs handed out by a claim that fell back (history)
  aborts     \* crashes and errors so far

vars == <<job, origin, worker, runs, letter, operator, succeeded, dropped, unclaimed, aborts>>

-----------------------------------------------------------------------------

\* The status "failed" of the schema is never written: complete() turns it into
\* "queued", as every failure that is not final comes with a next attempt.
Status == {"absent", "queued", "claimed", "running", "completed", "dead"}

LetterStatus == {"absent", "PENDING", "REPLAYED", "ARCHIVED"}

IdleWorker == [at |-> "idle", copies |-> [j \in {} |-> 0], job |-> NoJob, ok |-> FALSE]

IdleOperator == [at |-> "idle", letter |-> NoJob]

Init ==
  /\ job = [j \in Jobs |-> [status |-> "absent", attempts |-> 0, due |-> TRUE]]
  /\ origin = [j \in Jobs |-> NoJob]
  /\ worker = [w \in Workers |-> IdleWorker]
  /\ runs = {}
  /\ letter = [j \in Jobs |-> "absent"]
  /\ operator = [o \in Operators |-> IdleOperator]
  /\ succeeded = {}
  /\ dropped = {} /\ unclaimed = {}
  /\ aborts = 0

Candidates == {j \in Jobs : job[j].status = "queued" /\ job[j].due}

\* What `take: batchSize` may return of the candidates.
Batches ==
  {b \in SUBSET Candidates :
     Cardinality(b) = IF Cardinality(Candidates) < BatchSize
                      THEN Cardinality(Candidates) ELSE BatchSize}

Copies(js) == [j \in js |-> job[j].attempts]

\* A worker that holds the copies c and is about to run one of them, if any.
Holding(c) == IF DOMAIN c = {} THEN IdleWorker
              ELSE [at |-> "next", copies |-> c, job |-> NoJob, ok |-> FALSE]

At(w, where) == worker[w].at = where

\* The worker goes on with its batch, at its job or at another.
Move(w, where, j, ok) ==
  worker' = [worker EXCEPT ![w] =
    [at |-> where, copies |-> worker[w].copies, job |-> j, ok |-> ok]]

Goto(w, where) == Move(w, where, worker[w].job, worker[w].ok)

\* The attempt the worker believes it is making.
Attempt(w) == worker[w].copies[worker[w].job] + 1

Exhausted(w) == Attempt(w) >= MaxAttempts

\* The worker is done with its job and goes on with the rest of the batch.
Advance(w) ==
  worker' = [worker EXCEPT ![w] =
    Holding(Restrict(worker[w].copies, DOMAIN worker[w].copies \ {worker[w].job}))]

\* What a crash or an error that escapes the tick drops.
Held(w) == IF worker[w].at \in {"idle", "claim"} THEN {} ELSE DOMAIN worker[w].copies

-----------------------------------------------------------------------------
(* Requests                                                                *)

Create(j, l) ==
  /\ job[j].status = "absent"
  /\ job' = [job EXCEPT ![j].status = "queued"]
  /\ origin' = [origin EXCEPT ![j] = l]

\* A request or the scheduler enqueues a job of its own.
Enqueue(j) ==
  /\ j \in Requested
  /\ Create(j, NoJob)
  /\ UNCHANGED <<worker, runs, letter, operator, succeeded, dropped, unclaimed, aborts>>

\* A replay request finds its dead letter pending.
ReplayRead(o, l) ==
  /\ operator[o].at = "idle"
  /\ letter[l] = "PENDING"
  /\ operator' = [operator EXCEPT ![o] = [at |-> "enqueue", letter |-> l]]
  /\ UNCHANGED <<job, origin, worker, runs, letter, succeeded, dropped, unclaimed, aborts>>

\* FAULT: replay that marks the letter before it enqueues the job.
ReplayEnqueue_MarkFirst(o, j) ==
  /\ operator[o].at = "enqueue"
  /\ letter' = [letter EXCEPT ![operator[o].letter] =
                  IF @ = "PENDING" THEN "REPLAYED" ELSE @]
  /\ operator' = [operator EXCEPT ![o].at = "mark"]
  /\ UNCHANGED <<job, origin, worker, runs, succeeded, dropped, unclaimed, aborts>>

\* It enqueues a new job ...
ReplayEnqueue(o, j) ==
  /\ operator[o].at = "enqueue"
  /\ j \notin Requested
  /\ Create(j, operator[o].letter)
  /\ operator' = [operator EXCEPT ![o].at = "mark"]
  /\ UNCHANGED <<worker, runs, letter, succeeded, dropped, unclaimed, aborts>>

\* ... and marks the letter, if nobody has replayed or archived it meanwhile.
ReplayMark(o) ==
  /\ operator[o].at = "mark"
  /\ letter' = [letter EXCEPT ![operator[o].letter] =
                  IF @ = "PENDING" THEN "REPLAYED" ELSE @]
  /\ operator' = [operator EXCEPT ![o] = IdleOperator]
  /\ UNCHANGED <<job, origin, worker, runs, succeeded, dropped, unclaimed, aborts>>

\* The replica dies, or the database fails, in the middle of a replay.
ReplayAbort(o) ==
  /\ operator[o].at # "idle"
  /\ aborts < MaxAborts
  /\ aborts' = aborts + 1
  /\ operator' = [operator EXCEPT ![o] = IdleOperator]
  /\ UNCHANGED <<job, origin, worker, runs, letter, succeeded, dropped, unclaimed>>

Archive(l) ==
  /\ letter[l] = "PENDING"
  /\ letter' = [letter EXCEPT ![l] = "ARCHIVED"]
  /\ UNCHANGED <<job, origin, worker, runs, operator, succeeded, dropped, unclaimed, aborts>>

-----------------------------------------------------------------------------
(* The processor                                                           *)

\* The timer fires while no tick is draining: the claim takes its snapshot.
Select(w) ==
  /\ At(w, "idle")
  /\ Candidates # {}
  /\ \E b \in Batches :
       worker' = [worker EXCEPT ![w] = [at |-> "claim", copies |-> Copies(b),
                                        job |-> NoJob, ok |-> FALSE]]
  /\ UNCHANGED <<job, origin, runs, letter, operator, succeeded, dropped, unclaimed, aborts>>

\* The claim commits.  Rows another worker has claimed since the snapshot are
\* returned as they were in the snapshot.  Attempts are not counted here.
Claim(w) ==
  LET js == DOMAIN worker[w].copies
      mine == {j \in js : job[j].status = "queued"}
  IN  /\ At(w, "claim")
      /\ job' = [j \in Jobs |-> IF j \in mine THEN [job[j] EXCEPT !.status = "claimed"]
                                ELSE job[j]]
      /\ worker' = [worker EXCEPT ![w] =
                      Holding([j \in js |-> IF j \in mine THEN job[j].attempts
                                            ELSE worker[w].copies[j]])]
      /\ UNCHANGED <<origin, runs, letter, operator, succeeded, dropped, unclaimed, aborts>>

\* The claiming transaction fails; the fallback returns queued rows unclaimed.
ClaimFallsBack(w) ==
  /\ At(w, "claim")
  /\ aborts < MaxAborts
  /\ aborts' = aborts + 1
  /\ \E b \in Batches :
       /\ worker' = [worker EXCEPT ![w] = Holding(Copies(b))]
       /\ unclaimed' = unclaimed \cup b
  /\ UNCHANGED <<job, origin, runs, letter, operator, succeeded, dropped>>

\* The row is counted and becomes running only if it is still claimed; the worker
\* goes on in any case.
MarkRunning(w) ==
  /\ At(w, "next")
  /\ \E j \in DOMAIN worker[w].copies :
       /\ Move(w, "start", j, FALSE)
       /\ job' = IF job[j].status = "claimed"
                 THEN [job EXCEPT ![j].status = "running", ![j].attempts = @ + 1]
                 ELSE job
  /\ UNCHANGED <<origin, runs, letter, operator, succeeded, dropped, unclaimed, aborts>>

Run(w, status) == [job |-> worker[w].job, attempt |-> Attempt(w), status |-> status]

\* The start of the run is recorded, the handler is looked up and awaited.
Handle(w) ==
  /\ At(w, "start")
  /\ runs' = runs \cup {Run(w, "RUNNING")}
  /\ \E ok \in BOOLEAN :
       /\ Move(w, "record", worker[w].job, ok)
       /\ succeeded' = IF ok THEN succeeded \cup {worker[w].job} ELSE succeeded
  /\ UNCHANGED <<job, origin, letter, operator, dropped, unclaimed, aborts>>

\* FAULT: a run that is recorded only after a failure.
RecordRun_FailuresOnly(w) ==
  /\ At(w, "record")
  /\ runs' = IF worker[w].ok THEN runs ELSE runs \cup {Run(w, "FAILED")}
  /\ Goto(w, "settle")
  /\ UNCHANGED <<job, origin, letter, operator, succeeded, dropped, unclaimed, aborts>>

RecordRun(w) ==
  /\ At(w, "record")
  /\ runs' = runs \cup {Run(w, IF worker[w].ok THEN "SUCCESS" ELSE "FAILED")}
  /\ Goto(w, "settle")
  /\ UNCHANGED <<job, origin, letter, operator, succeeded, dropped, unclaimed, aborts>>

Complete(w) ==
  /\ At(w, "settle") /\ worker[w].ok
  /\ job' = [job EXCEPT ![worker[w].job].status = "completed"]
  /\ Advance(w)
  /\ UNCHANGED <<origin, runs, letter, operator, succeeded, dropped, unclaimed, aborts>>

\* A write after the handler's success throws, before or after it took effect: the
\* catch block records a failure of the same attempt.
SuccessThrows(w) ==
  /\ worker[w].ok
  /\ aborts < MaxAborts
  /\ aborts' = aborts + 1
  /\ Move(w, "record", worker[w].job, FALSE)
  /\ \/ At(w, "record") /\ runs' \in {runs, runs \cup {Run(w, "SUCCESS")}} /\ job' = job
     \/ /\ At(w, "settle") /\ runs' = runs
        /\ job' \in {job, [job EXCEPT ![worker[w].job].status = "completed"]}
  /\ UNCHANGED <<origin, letter, operator, succeeded, dropped, unclaimed>>

\* FAULT: Requeue that writes the status it was asked for.
Requeue_Failed(w) ==
  /\ At(w, "settle") /\ ~worker[w].ok /\ ~Exhausted(w)
  /\ job' = [job EXCEPT ![worker[w].job].status = "failed"]
  /\ Advance(w)
  /\ UNCHANGED <<origin, runs, letter, operator, succeeded, dropped, unclaimed, aborts>>

\* FAULT: a retry that is scheduled without giving the row back to the queue.
Requeue_StatusKept(w) ==
  /\ At(w, "settle") /\ ~worker[w].ok /\ ~Exhausted(w)
  /\ job' = [job EXCEPT ![worker[w].job].due = FALSE]
  /\ Advance(w)
  /\ UNCHANGED <<origin, runs, letter, operator, succeeded, dropped, unclaimed, aborts>>

\* A failure that is not final goes back to the queue for a later attempt.
Requeue(w) ==
  /\ At(w, "settle") /\ ~worker[w].ok /\ ~Exhausted(w)
  /\ job' = [job EXCEPT ![worker[w].job].status = "queued", ![worker[w].job].due = FALSE]
  /\ Advance(w)
  /\ UNCHANGED <<origin, runs, letter, operator, succeeded, dropped, unclaimed, aborts>>

\* FAULT: Die that counts the attempt under way twice.
Die_OneEarly(w) ==
  /\ At(w, "settle") /\ ~worker[w].ok /\ Attempt(w) + 1 >= MaxAttempts
  /\ job' = [job EXCEPT ![worker[w].job].status = "dead"]
  /\ Goto(w, "bury")
  /\ UNCHANGED <<origin, runs, letter, operator, succeeded, dropped, unclaimed, aborts>>

\* FAULT: Die of a job whose handler is not registered, without its dead letter.
Die_Unburied(w) ==
  /\ At(w, "settle") /\ ~worker[w].ok /\ Exhausted(w)
  /\ job' = [job EXCEPT ![worker[w].job].status = "dead"]
  /\ Advance(w)
  /\ UNCHANGED <<origin, runs, letter, operator, succeeded, dropped, unclaimed, aborts>>

\* The last failure: the row is written first ...
Die(w) ==
  /\ At(w, "settle") /\ ~worker[w].ok /\ Exhausted(w)
  /\ job' = [job EXCEPT ![worker[w].job].status = "dead"]
  /\ Goto(w, "bury")
  /\ UNCHANGED <<origin, runs, letter, operator, succeeded, dropped, unclaimed, aborts>>

\* ... the dead letter next.
Bury(w) ==
  /\ At(w, "bury")
  /\ letter' = [letter EXCEPT ![worker[w].job] = IF @ = "absent" THEN "PENDING" ELSE @]
  /\ Advance(w)
  /\ UNCHANGED <<job, origin, runs, operator, succeeded, dropped, unclaimed, aborts>>

\* The replica dies, or a database error escapes the tick.
Abort(w) ==
  /\ ~At(w, "idle")
  /\ aborts < MaxAborts
  /\ aborts' = aborts + 1
  /\ dropped' = dropped \cup Held(w)
  /\ worker' = [worker EXCEPT ![w] = IdleWorker]
  /\ UNCHANGED <<job, origin, runs, letter, operator, succeeded, unclaimed>>

\* The time of a job's next attempt comes.
Elapse(j) ==
  /\ ~job[j].due
  /\ job' = [job EXCEPT ![j].due = TRUE]
  /\ UNCHANGED <<origin, worker, runs, letter, operator, succeeded, dropped, unclaimed, aborts>>

Step(w) == \/ Select(w) \/ Claim(w) \/ ClaimFallsBack(w) \/ MarkRunning(w) \/ Handle(w)
           \/ RecordRun(w) \/ Complete(w) \/ Requeue(w) \/ Die(w) \/ Bury(w)

Next ==
  \/ \E w \in Workers : Step(w) \/ SuccessThrows(w) \/ Abort(w)
  \/ \E j \in Jobs : Enqueue(j) \/ Elapse(j) \/ Archive(j)
  \/ \E o \in Operators :
       \/ \E j \in Jobs : ReplayRead(o, j) \/ ReplayEnqueue(o, j)
       \/ ReplayMark(o) \/ ReplayAbort(o)

\* Timers fire, handlers and database calls return, time passes.
Fairness ==
  /\ \A w \in Workers : WF_vars(Step(w))
  /\ \A j \in Jobs : WF_vars(Elapse(j))

Spec == Init /\ [][Next]_vars

FairSpec == Spec /\ Fairness

-----------------------------------------------------------------------------
(* Correctness                                                             *)

IsWorker(k) ==
  /\ k = [at |-> k.at, copies |-> k.copies, job |-> k.job, ok |-> k.ok]
  /\ k.at \in {"idle", "claim", "next", "start", "record", "settle", "bury"}
  /\ DOMAIN k.copies \subseteq Jobs /\ k.copies \in [DOMAIN k.copies -> Nat]
  /\ k.job \in Jobs \cup {NoJob}
  /\ k.ok \in BOOLEAN

\* Every variable keeps its type.
TypeOK ==
  /\ job \in [Jobs -> [status : Status, attempts : Nat, due : BOOLEAN]]
  /\ origin \in [Jobs -> Jobs \cup {NoJob}]
  /\ worker = [w \in Workers |-> worker[w]] /\ \A w \in Workers : IsWorker(worker[w])
  /\ runs \subseteq [job : Jobs, attempt : Nat, status : {"RUNNING", "SUCCESS", "FAILED"}]
  /\ letter \in [Jobs -> LetterStatus]
  /\ operator \in [Operators -> [at : {"idle", "enqueue", "mark"},
                                 letter : Jobs \cup {NoJob}]]
  /\ succeeded \subseteq Jobs
  /\ dropped \subseteq Jobs /\ unclaimed \subseteq Jobs
  /\ aborts \in 0..MaxAborts

\* A job counts as completed only with a successful run on record, whichever of the
\* workers that ran it wrote last: the record is written before the row.
CompletedHasRun ==
  \A j \in Jobs : job[j].status = "completed" =>
    j \in succeeded /\ \E r \in runs : r.job = j /\ r.status = "SUCCESS"

\* A dead job is in the dead letters, about to be, or was dropped by an abort in
\* between, although its row and its letter are separate writes.
DeadIsBuried ==
  \A j \in Jobs : job[j].status = "dead" =>
    \/ letter[j] # "absent"
    \/ \E w \in Workers : worker[w].at = "bury" /\ worker[w].job = j
    \/ j \in dropped

\* A claimed or running job has a worker that will settle it, or lost it to an abort:
\* no path through a tick forgets a job.
WorkIsHeld ==
  \A j \in Jobs : job[j].status \in {"claimed", "running"} =>
    j \in dropped \/ \E w \in Workers : j \in Held(w)

\* A dead letter stands for as many attempts as its job allows, the last of them
\* recorded as failed.  The row may have counted one less: a worker that runs a row it
\* has not claimed counts nothing.
LetterWasExhausted ==
  \A j \in Jobs : letter[j] # "absent" =>
    /\ job[j].attempts >= MaxAttempts - 1
    /\ \E r \in runs : r.job = j /\ r.status = "FAILED" /\ r.attempt >= MaxAttempts

\* A replayed letter has a job that replaces it: a crash in a replay may repeat
\* the job but never loses it.
ReplayedHasSuccessor ==
  \A l \in Jobs : letter[l] = "REPLAYED" => \E j \in Jobs : origin[j] = l

Settled(j) == job[j].status \in {"completed", "dead"} \/ j \in dropped \cup unclaimed

\* A queued job is completed or dead in the end, unless an abort drops it or a claim that
\* fell back handed it out: two workers of which one has not claimed the job can requeue
\* it for each other for ever, before either has it counted as an attempt.
QueuedIsSettled == \A j \in Jobs : job[j].status = "queued" ~> Settled(j)
=============================================================================
