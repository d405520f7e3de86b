--------------------------- MODULE JobQueueProofs ---------------------------
(***************************************************************************)
(* Safety of JobQueue for any jobs, replicas, operators, batch size and    *)
(* number of attempts.  A step moves one worker or one request: what is    *)
(* enough of each is said by WorkerStepKeeps and RequestStepKeeps, and one *)
(* lemma per action shows that it does that much.                          *)
(***************************************************************************)
EXTENDS JobQueue, TLAPS

\* Copies never run ahead of the rows they were taken from.
CopiesLag ==
  \A w \in Workers : \A j \in DOMAIN worker[w].copies : worker[w].copies[j] <= job[j].attempts

Busy == {"start", "record", "settle", "bury"}

\* The job a worker is busy with is one of its batch.
JobIsHeld == \A w \in Workers : worker[w].at \in Busy => worker[w].job \in DOMAIN worker[w].copies

Recorded(rs, j, status) == \E r \in rs : r.job = j /\ r.status = status

\* A worker that takes its job for done has seen the handler return, and puts it on record
\* before it settles the job.
SuccessIsRecorded ==
  \A w \in Workers : worker[w].ok =>
    /\ worker[w].at \in {"record", "settle"}
    /\ worker[w].job \in succeeded
    /\ worker[w].at = "settle" => Recorded(runs, worker[w].job, "SUCCESS")

\* A worker that settles a failure has put it on record as the attempt it counts.
FailureIsRecorded ==
  \A w \in Workers :
    (worker[w].at = "settle" /\ ~worker[w].ok) \/ worker[w].at = "bury" => Run(w, "FAILED") \in runs

BuriedIsExhausted == \A w \in Workers : worker[w].at = "bury" => Exhausted(w)

\* Worker k has j before it: it holds j, and is not past the write that settles it.
Carries(k, j) ==
  /\ k.at \notin {"idle", "claim"} /\ j \in DOMAIN k.copies
  /\ ~(k.at = "bury" /\ k.job = j)

\* The inductive form of WorkIsHeld: whoever holds a job that is under way may still
\* settle it.
WorkIsCarried ==
  \A j \in Jobs : job[j].status \in {"claimed", "running"} =>
    j \in dropped \/ \E w \in Workers : Carries(worker[w], j)

\* A row that does not exist replaces no job.
AbsentHasNoOrigin == \A j \in Jobs : job[j].status = "absent" => origin[j] = NoJob

\* A replay has a letter, and one that is to mark it has created the job that replaces it.
MarkHasSuccessor ==
  \A o \in Operators :
    /\ operator[o].at # "idle" => operator[o].letter \in Jobs
    /\ operator[o].at = "mark" => \E j \in Jobs : origin[j] = operator[o].letter

IInv == /\ TypeOK
        /\ CopiesLag /\ JobIsHeld
        /\ SuccessIsRecorded /\ FailureIsRecorded /\ BuriedIsExhausted
        /\ WorkIsCarried
        /\ CompletedHasRun /\ DeadIsBuried /\ LetterWasExhausted
        /\ AbsentHasNoOrigin /\ MarkHasSuccessor /\ ReplayedHasSuccessor

-----------------------------------------------------------------------------
(* Well-formed workers                                                     *)

\* The worker made of some copies is well formed, holds just these and is at no job.
LEMMA HoldingIsWorker ==
  ASSUME NEW c, DOMAIN c \subseteq Jobs, c \in [DOMAIN c -> Nat]
  PROVE  /\ IsWorker(Holding(c))
         /\ Holding(c).at \in {"idle", "next"}
         /\ ~Holding(c).ok
         /\ DOMAIN Holding(c).copies = DOMAIN c
         /\ \A j \in DOMAIN c : Holding(c).copies[j] = c[j]
         /\ Holding(c).at = "idle" => DOMAIN c = {}
<1>1. CASE DOMAIN c = {}
    BY <1>1 DEF Holding, IsWorker, IdleWorker
<1>2. CASE DOMAIN c # {}
    BY <1>2 DEF Holding, IsWorker, IdleWorker
<1> QED
    BY <1>1, <1>2

\* The copies of a batch are the attempts of its rows.
LEMMA BatchCopied ==
  ASSUME TypeOK, NEW b \in Batches
  PROVE  /\ DOMAIN Copies(b) = b /\ b \subseteq Jobs
         /\ Copies(b) \in [DOMAIN Copies(b) -> Nat]
         /\ \A j \in b : Copies(b)[j] = job[j].attempts
    BY DEF TypeOK, Batches, Candidates, Copies

\* A step that moves one worker leaves the others alone.
LEMMA WorkerMoved ==
  ASSUME TypeOK, NEW w \in Workers, NEW k, IsWorker(k), worker' = [worker EXCEPT ![w] = k]
  PROVE  /\ worker'[w] = k
         /\ \A v \in Workers : v # w => worker'[v] = worker[v]
         /\ worker' = [v \in Workers |-> worker'[v]]
         /\ \A v \in Workers : IsWorker(worker'[v])
<1>1. worker = [v \in Workers |-> worker[v]] /\ \A v \in Workers : IsWorker(worker[v])
    BY DEF TypeOK
<1>2. worker'[w] = k /\ \A v \in Workers : v # w => worker'[v] = worker[v]
    BY <1>1
<1>3. worker' = [v \in Workers |-> worker'[v]]
    BY <1>1
<1> QED
    BY <1>1, <1>2, <1>3

\* The attempt a busy worker counts is a number, and the run it records a run.
LEMMA AttemptIsNat ==
  ASSUME TypeOK, JobIsHeld, NEW w \in Workers, worker[w].at \in Busy
  PROVE  /\ worker[w].job \in Jobs
         /\ Attempt(w) \in Nat
         /\ \A status \in {"RUNNING", "SUCCESS", "FAILED"} :
              Run(w, status) \in [job : Jobs, attempt : Nat, status : {"RUNNING", "SUCCESS", "FAILED"}]
<1>1. IsWorker(worker[w]) /\ worker[w].job \in DOMAIN worker[w].copies
    BY DEF TypeOK, JobIsHeld
<1>2. worker[w].job \in Jobs /\ worker[w].copies[worker[w].job] \in Nat
    BY <1>1 DEF IsWorker
<1>3. Attempt(w) \in Nat
    BY <1>2 DEF Attempt
<1> QED
    BY <1>2, <1>3 DEF Run

-----------------------------------------------------------------------------
(* The initial state                                                       *)

\* No row, letter or request, and every worker idle.
LEMMA InitEstablishes == Init => IInv
<1> SUFFICES ASSUME Init PROVE IInv
    OBVIOUS
<1>1. /\ IsWorker(IdleWorker) /\ IdleWorker.at = "idle" /\ ~IdleWorker.ok
      /\ DOMAIN IdleWorker.copies = {}
    BY DEF IsWorker, IdleWorker
<1>2. \A w \in Workers : worker[w] = IdleWorker
    BY DEF Init
<1>3. \A j \in Jobs : job[j].status = "absent" /\ letter[j] = "absent" /\ origin[j] = NoJob
    BY DEF Init
<1>4. \A o \in Operators : operator[o].at = "idle"
    BY DEF Init, IdleOperator
<1>5. TypeOK
    BY <1>1, <1>2, JobAssumption DEF Init, TypeOK, Status, LetterStatus, IdleOperator
<1>6. /\ CopiesLag /\ JobIsHeld
      /\ SuccessIsRecorded /\ FailureIsRecorded /\ BuriedIsExhausted
    BY <1>1, <1>2 DEF CopiesLag, JobIsHeld, SuccessIsRecorded, FailureIsRecorded, BuriedIsExhausted, Busy
<1>7. WorkIsCarried /\ CompletedHasRun /\ DeadIsBuried /\ LetterWasExhausted
    BY <1>3 DEF WorkIsCarried, CompletedHasRun, DeadIsBuried, LetterWasExhausted
<1>8. AbsentHasNoOrigin /\ MarkHasSuccessor /\ ReplayedHasSuccessor
    BY <1>3, <1>4 DEF AbsentHasNoOrigin, MarkHasSuccessor, ReplayedHasSuccessor
<1> QED
    BY <1>5, <1>6, <1>7, <1>8 DEF IInv

-----------------------------------------------------------------------------
(* Steps of a worker                                                       *)

JobRows == [Jobs -> [status : Status, attempts : Nat, due : BOOLEAN]]

RunRows == [job : Jobs, attempt : Nat, status : {"RUNNING", "SUCCESS", "FAILED"}]

FailedRun(k) == [job |-> k.job, attempt |-> k.copies[k.job] + 1, status |-> "FAILED"]

\* What suffices of a step that moves worker w to k and touches no request.
LEMMA WorkerStepKeeps ==
  ASSUME IInv, NEW w \in Workers, NEW k, IsWorker(k), worker' = [worker EXCEPT ![w] = k],
         job' \in JobRows, runs' \subseteq RunRows, letter' \in [Jobs -> LetterStatus],
         UNCHANGED <<origin, operator>>, aborts' \in 0..MaxAborts,
         succeeded' \subseteq Jobs, dropped' \subseteq Jobs, unclaimed' \subseteq Jobs,
         succeeded \subseteq succeeded', dropped \subseteq dropped', runs \subseteq runs',
         \A j \in Jobs : job[j].attempts <= job'[j].attempts,
         \A j \in Jobs : job'[j].status = "absent" => job[j].status = "absent",
         \A j \in Jobs : letter'[j] = "REPLAYED" => letter[j] = "REPLAYED",
         \A j \in Jobs : letter'[j] = "absent" => letter[j] = "absent",
         \A j \in DOMAIN k.copies : k.copies[j] <= job'[j].attempts,
         k.at \in Busy => k.job \in DOMAIN k.copies,
         k.ok => /\ k.at \in {"record", "settle"}
                 /\ k.job \in succeeded'
                 /\ k.at = "settle" => Recorded(runs', k.job, "SUCCESS"),
         (k.at = "settle" /\ ~k.ok) \/ k.at = "bury" => FailedRun(k) \in runs',
         k.at = "bury" => k.copies[k.job] + 1 >= MaxAttempts,
         \A j \in Jobs : job'[j].status \in {"claimed", "running"} =>
           Carries(k, j) \/ j \in dropped' \/ \E v \in Workers : v # w /\ Carries(worker[v], j),
         \A j \in Jobs : job'[j].status = "completed" =>
           job[j].status = "completed" \/ (j \in succeeded' /\ Recorded(runs', j, "SUCCESS")),
         \A j \in Jobs : job'[j].status = "dead" =>
           \/ letter'[j] # "absent" \/ j \in dropped' \/ (k.at = "bury" /\ k.job = j)
           \/ job[j].status = "dead" /\ ~(worker[w].at = "bury" /\ worker[w].job = j),
         \A j \in Jobs : letter'[j] # "absent" =>
           \/ letter[j] # "absent"
           \/ /\ job'[j].attempts >= MaxAttempts - 1
              /\ \E r \in runs' : r.job = j /\ r.status = "FAILED" /\ r.attempt >= MaxAttempts
  PROVE  IInv'
<1>1. /\ worker'[w] = k
      /\ \A v \in Workers : v # w => worker'[v] = worker[v]
      /\ worker' = [v \in Workers |-> worker'[v]]
      /\ \A v \in Workers : IsWorker(worker'[v])
    BY WorkerMoved DEF IInv
<1>2. TypeOK'
    BY <1>1 DEF IInv, TypeOK, JobRows, RunRows
<1>3. CopiesLag'
  <2> SUFFICES ASSUME NEW v \in Workers, NEW j \in DOMAIN worker'[v].copies
               PROVE  worker'[v].copies[j] <= job'[j].attempts
      BY DEF CopiesLag
  <2>1. CASE v = w
      BY <2>1, <1>1
  <2>2. CASE v # w
    <3>1. worker'[v] = worker[v]
        BY <2>2, <1>1
    <3>2. j \in Jobs /\ worker[v].copies[j] \in Nat
        BY <3>1 DEF IInv, TypeOK, IsWorker
    <3>3. worker[v].copies[j] <= job[j].attempts
        BY <3>1 DEF IInv, CopiesLag
    <3>4. job[j].attempts \in Nat /\ job'[j].attempts \in Nat /\ job[j].attempts <= job'[j].attempts
        BY <3>2 DEF IInv, TypeOK, JobRows
    <3> QED
        BY <3>1, <3>2, <3>3, <3>4
  <2> QED
      BY <2>1, <2>2
<1>4. JobIsHeld'
    BY <1>1 DEF IInv, JobIsHeld
<1>5. SuccessIsRecorded'
  <2> SUFFICES ASSUME NEW v \in Workers, worker'[v].ok
               PROVE  /\ worker'[v].at \in {"record", "settle"}
                      /\ worker'[v].job \in succeeded'
                      /\ worker'[v].at = "settle" => Recorded(runs', worker'[v].job, "SUCCESS")
      BY DEF SuccessIsRecorded, Recorded
  <2>1. CASE v = w
      BY <2>1, <1>1
  <2>2. CASE v # w
      BY <2>2, <1>1 DEF IInv, SuccessIsRecorded, Recorded
  <2> QED
      BY <2>1, <2>2
<1>6. FailureIsRecorded' /\ BuriedIsExhausted'
    BY <1>1 DEF IInv, FailureIsRecorded, BuriedIsExhausted, Run, FailedRun, Attempt, Exhausted
<1>7. WorkIsCarried'
  <2> SUFFICES ASSUME NEW j \in Jobs, job'[j].status \in {"claimed", "running"}, j \notin dropped'
               PROVE  \E v \in Workers : Carries(worker'[v], j)
      BY DEF WorkIsCarried, Carries
  <2> QED
      BY <1>1
<1>8. CompletedHasRun'
    BY DEF IInv, CompletedHasRun, Recorded
<1>9. DeadIsBuried'
  <2> SUFFICES ASSUME NEW j \in Jobs, job'[j].status = "dead", letter'[j] = "absent", j \notin dropped'
               PROVE  \E v \in Workers : worker'[v].at = "bury" /\ worker'[v].job = j
      BY DEF DeadIsBuried
  <2>1. CASE k.at = "bury" /\ k.job = j
      BY <2>1, <1>1
  <2>2. CASE job[j].status = "dead" /\ ~(worker[w].at = "bury" /\ worker[w].job = j)
    <3>1. \E v \in Workers : worker[v].at = "bury" /\ worker[v].job = j
        BY <2>2 DEF IInv, DeadIsBuried
    <3> QED
        BY <3>1, <2>2, <1>1
  <2> QED
      BY <2>1, <2>2
<1>10. LetterWasExhausted'
  <2> SUFFICES ASSUME NEW j \in Jobs, letter'[j] # "absent", letter[j] # "absent"
               PROVE  /\ job'[j].attempts >= MaxAttempts - 1
                      /\ \E r \in runs' : r.job = j /\ r.status = "FAILED" /\ r.attempt >= MaxAttempts
      BY DEF LetterWasExhausted
  <2>1. job[j].attempts \in Nat /\ job'[j].attempts \in Nat /\ job[j].attempts <= job'[j].attempts
      BY DEF IInv, TypeOK, JobRows
  <2> QED
      BY <2>1, JobAssumption DEF IInv, LetterWasExhausted
<1>11. AbsentHasNoOrigin' /\ MarkHasSuccessor' /\ ReplayedHasSuccessor'
    BY DEF IInv, AbsentHasNoOrigin, MarkHasSuccessor, ReplayedHasSuccessor
<1> QED
    BY <1>2, <1>3, <1>4, <1>5, <1>6, <1>7, <1>8, <1>9, <1>10, <1>11 DEF IInv

\* What suffices of a step that moves worker w to k and leaves rows, runs and letters alone.
LEMMA QuietStepKeeps ==
  ASSUME IInv, NEW w \in Workers, NEW k, IsWorker(k), worker' = [worker EXCEPT ![w] = k],
         UNCHANGED <<job, origin, runs, letter, operator, succeeded>>,
         aborts' \in 0..MaxAborts, unclaimed' \subseteq Jobs,
         dropped \subseteq dropped', dropped' \subseteq Jobs,
         worker[w].at # "bury" \/ worker[w].job \in dropped',
         \A j \in DOMAIN k.copies : k.copies[j] <= job[j].attempts,
         k.at \in {"idle", "claim", "next"}, ~k.ok,
         \A j \in Jobs : Carries(worker[w], j) => Carries(k, j) \/ j \in dropped'
  PROVE  IInv'
<1>1. /\ job' \in JobRows /\ runs' \subseteq RunRows /\ letter' \in [Jobs -> LetterStatus]
      /\ succeeded' \subseteq Jobs
      /\ \A j \in Jobs : job[j].attempts <= job'[j].attempts
    BY DEF IInv, TypeOK, JobRows, RunRows
<1>2. \A j \in Jobs : job'[j].status \in {"claimed", "running"} =>
        Carries(k, j) \/ j \in dropped' \/ \E v \in Workers : v # w /\ Carries(worker[v], j)
    BY DEF IInv, WorkIsCarried
<1>3. k.at \notin Busy /\ k.at # "settle" /\ k.at # "bury"
    BY DEF Busy
<1>4. \A j \in Jobs : job'[j].status = "dead" =>
           \/ letter'[j] # "absent" \/ j \in dropped' \/ (k.at = "bury" /\ k.job = j)
           \/ job[j].status = "dead" /\ ~(worker[w].at = "bury" /\ worker[w].job = j)
    OBVIOUS
<1> QED
    BY <1>1, <1>2, <1>3, <1>4, WorkerStepKeeps

\* The fields of a worker, in the form in which a step replaces it.
LEMMA WorkerFields ==
  ASSUME TypeOK, NEW w \in Workers
  PROVE  /\ worker[w] = [at |-> worker[w].at, copies |-> worker[w].copies,
                         job |-> worker[w].job, ok |-> worker[w].ok]
         /\ DOMAIN worker[w].copies \subseteq Jobs
         /\ worker[w].copies \in [DOMAIN worker[w].copies -> Nat]
         /\ worker[w].job \in Jobs \cup {NoJob} /\ worker[w].ok \in BOOLEAN
         /\ worker = [v \in Workers |-> worker[v]]
    BY DEF TypeOK, IsWorker

\* The snapshot of a claim is the rows as they are.
LEMMA SelectKeeps == ASSUME IInv, NEW w \in Workers, Select(w) PROVE IInv'
<1>1. PICK b \in Batches : worker' = [worker EXCEPT ![w] =
         [at |-> "claim", copies |-> Copies(b), job |-> NoJob, ok |-> FALSE]]
    BY DEF Select
<1> DEFINE k == [at |-> "claim", copies |-> Copies(b), job |-> NoJob, ok |-> FALSE]
<1>2. /\ DOMAIN k.copies = b /\ b \subseteq Jobs /\ k.copies \in [DOMAIN k.copies -> Nat]
      /\ \A j \in b : k.copies[j] = job[j].attempts /\ job[j].attempts \in Nat
    BY BatchCopied DEF IInv, TypeOK
<1>3. IsWorker(k)
    BY <1>2 DEF IsWorker
<1>4. \A j \in DOMAIN k.copies : k.copies[j] <= job[j].attempts
    BY <1>2
<1>5. worker[w].at = "idle" /\ \A j \in Jobs : ~Carries(worker[w], j)
    BY DEF Select, At, Carries
<1>6. /\ UNCHANGED <<job, origin, runs, letter, operator, succeeded>>
      /\ dropped' = dropped /\ unclaimed' = unclaimed /\ aborts' = aborts
    BY DEF Select
<1>7. dropped' \subseteq Jobs /\ unclaimed' \subseteq Jobs /\ aborts' \in 0..MaxAborts
    BY <1>6 DEF IInv, TypeOK
<1>8. k.at \in {"idle", "claim", "next"} /\ ~k.ok /\ worker' = [worker EXCEPT ![w] = k]
    BY <1>1
<1> HIDE DEF k
<1> QED
    BY <1>3, <1>4, <1>5, <1>6, <1>7, <1>8, QuietStepKeeps

\* The fallback hands out copies of rows and changes none.
LEMMA ClaimFallsBackKeeps == ASSUME IInv, NEW w \in Workers, ClaimFallsBack(w) PROVE IInv'
<1>1. PICK b \in Batches : /\ worker' = [worker EXCEPT ![w] = Holding(Copies(b))]
                           /\ unclaimed' = unclaimed \cup b
    BY DEF ClaimFallsBack
<1> DEFINE k == Holding(Copies(b))
<1>2. /\ DOMAIN Copies(b) = b /\ b \subseteq Jobs /\ Copies(b) \in [DOMAIN Copies(b) -> Nat]
      /\ \A j \in b : Copies(b)[j] = job[j].attempts /\ job[j].attempts \in Nat
    BY BatchCopied DEF IInv, TypeOK
<1>3. /\ IsWorker(k) /\ k.at \in {"idle", "next"} /\ ~k.ok
      /\ DOMAIN k.copies = b /\ \A j \in b : k.copies[j] = Copies(b)[j]
    BY <1>2, HoldingIsWorker
<1>4. \A j \in DOMAIN k.copies : k.copies[j] <= job[j].attempts
    BY <1>2, <1>3
<1>5. worker[w].at = "claim" /\ \A j \in Jobs : ~Carries(worker[w], j)
    BY DEF ClaimFallsBack, At, Carries
<1>6. /\ UNCHANGED <<job, origin, runs, letter, operator, succeeded>>
      /\ dropped' = dropped /\ aborts' = aborts + 1 /\ aborts < MaxAborts
    BY DEF ClaimFallsBack
<1>7. dropped' \subseteq Jobs /\ unclaimed' \subseteq Jobs /\ aborts' \in 0..MaxAborts
    BY <1>1, <1>2, <1>6, JobAssumption DEF IInv, TypeOK
<1>8. worker' = [worker EXCEPT ![w] = k] /\ k.at \in {"idle", "claim", "next"}
    BY <1>1, <1>3
<1> HIDE DEF k
<1> QED
    BY <1>3, <1>4, <1>5, <1>6, <1>7, <1>8, QuietStepKeeps

\* An abort drops what its worker was carrying.
LEMMA AbortKeeps == ASSUME IInv, NEW w \in Workers, Abort(w) PROVE IInv'
<1>1. /\ worker' = [worker EXCEPT ![w] = IdleWorker]
      /\ dropped' = dropped \cup Held(w) /\ unclaimed' = unclaimed
      /\ UNCHANGED <<job, origin, runs, letter, operator, succeeded>>
      /\ aborts' = aborts + 1 /\ aborts < MaxAborts
    BY DEF Abort
<1>2. IsWorker(IdleWorker) /\ IdleWorker.at = "idle" /\ ~IdleWorker.ok /\ DOMAIN IdleWorker.copies = {}
    BY DEF IsWorker, IdleWorker
<1>3. Held(w) \subseteq Jobs /\ \A j \in Jobs : Carries(worker[w], j) => j \in Held(w)
    BY WorkerFields DEF IInv, Held, Carries
<1>4. worker[w].at # "bury" \/ worker[w].job \in Held(w)
    BY DEF IInv, JobIsHeld, Busy, Held
<1>5. dropped' \subseteq Jobs /\ unclaimed' \subseteq Jobs /\ aborts' \in 0..MaxAborts
    BY <1>1, <1>3, JobAssumption DEF IInv, TypeOK
<1> QED
    BY <1>1, <1>2, <1>3, <1>4, <1>5, QuietStepKeeps

\* A claim takes the rows that are still queued, and goes on with the copies of all.
LEMMA ClaimKeeps == ASSUME IInv, NEW w \in Workers, Claim(w) PROVE IInv'
<1> DEFINE js == DOMAIN worker[w].copies
           mine == {j \in js : job[j].status = "queued"}
           c == [j \in js |-> IF j \in mine THEN job[j].attempts ELSE worker[w].copies[j]]
           k == Holding(c)
<1>1. /\ worker[w].at = "claim"
      /\ job' = [j \in Jobs |-> IF j \in mine THEN [job[j] EXCEPT !.status = "claimed"] ELSE job[j]]
      /\ worker' = [worker EXCEPT ![w] = k]
      /\ UNCHANGED <<origin, runs, letter, operator, succeeded, dropped, unclaimed, aborts>>
    BY DEF Claim, At
<1>2. js \subseteq Jobs /\ \A j \in js : worker[w].copies[j] \in Nat /\ worker[w].copies[j] <= job[j].attempts
    BY WorkerFields DEF IInv, CopiesLag
<1>3. \A j \in Jobs : job[j] \in [status : Status, attempts : Nat, due : BOOLEAN]
    BY DEF IInv, TypeOK
<1>4. /\ DOMAIN c = js /\ c \in [DOMAIN c -> Nat]
      /\ \A j \in js : c[j] <= job[j].attempts
    BY <1>2, <1>3
<1>5. /\ IsWorker(k) /\ k.at \in {"idle", "next"} /\ ~k.ok
      /\ DOMAIN k.copies = js /\ \A j \in js : k.copies[j] = c[j]
      /\ k.at = "idle" => js = {}
    BY <1>2, <1>4, HoldingIsWorker
<1>6. \A j \in Jobs : /\ job'[j] \in [status : Status, attempts : Nat, due : BOOLEAN]
                      /\ job'[j].attempts = job[j].attempts
                      /\ j \notin mine => job'[j] = job[j]
                      /\ j \in mine => job'[j].status = "claimed"
    BY <1>1, <1>3 DEF Status
<1>7. job' \in JobRows
    BY <1>1, <1>6 DEF JobRows
<1>8. \A j \in Jobs : job[j].attempts <= job'[j].attempts
    BY <1>3, <1>6
<1>9. \A j \in DOMAIN k.copies : k.copies[j] <= job'[j].attempts
    BY <1>2, <1>4, <1>5, <1>6
<1>10. \A j \in Jobs : job'[j].status \in {"claimed", "running"} =>
           Carries(k, j) \/ j \in dropped' \/ \E v \in Workers : v # w /\ Carries(worker[v], j)
  <2> SUFFICES ASSUME NEW j \in Jobs, job'[j].status \in {"claimed", "running"}, j \notin dropped,
                      j \notin mine
               PROVE  \E v \in Workers : v # w /\ Carries(worker[v], j)
      BY <1>1, <1>5 DEF Carries
  <2>1. PICK v \in Workers : Carries(worker[v], j)
      BY <1>6 DEF IInv, WorkIsCarried
  <2> QED
      BY <2>1, <1>1 DEF Carries
<1>11. /\ \A j \in Jobs : job'[j].status = "absent" => job[j].status = "absent"
       /\ \A j \in Jobs : job'[j].status = "completed" => job[j].status = "completed"
       /\ \A j \in Jobs : job'[j].status = "dead" => job[j].status = "dead"
    BY <1>6
<1>12. /\ runs' \subseteq RunRows /\ letter' \in [Jobs -> LetterStatus] /\ aborts' \in 0..MaxAborts
       /\ succeeded' \subseteq Jobs /\ dropped' \subseteq Jobs /\ unclaimed' \subseteq Jobs
    BY <1>1 DEF IInv, TypeOK, RunRows
<1>13. k.at \notin Busy /\ k.at # "settle" /\ k.at # "bury"
    BY <1>5 DEF Busy
<1> HIDE DEF k, c, mine, js
<1> QED
    BY <1>1, <1>5, <1>7, <1>8, <1>9, <1>10, <1>11, <1>12, <1>13, WorkerStepKeeps

\* What suffices of a step of a busy worker that goes on with its job: it may complete
\* rows, and takes none under way.
LEMMA StageStepKeeps ==
  ASSUME IInv, NEW w \in Workers, NEW at \in {"start", "record", "settle"},
         NEW j \in DOMAIN worker[w].copies, NEW ok \in BOOLEAN,
         worker' = [worker EXCEPT ![w] =
           [at |-> at, copies |-> worker[w].copies, job |-> j, ok |-> ok]],
         worker[w].at \in {"next", "start", "record", "settle"},
         job' \in JobRows, runs \subseteq runs', runs' \subseteq RunRows,
         UNCHANGED <<origin, letter, operator, dropped, unclaimed>>, aborts' \in 0..MaxAborts,
         succeeded \subseteq succeeded', succeeded' \subseteq Jobs,
         \A i \in Jobs :
           /\ job[i].attempts <= job'[i].attempts
           /\ \/ job'[i].status = job[i].status
              \/ job[i].status = "claimed" /\ job'[i].status = "running"
              \/ job'[i].status = "completed" /\ i \in succeeded' /\ Recorded(runs', i, "SUCCESS"),
         ok => /\ at \in {"record", "settle"}
               /\ j \in succeeded'
               /\ at = "settle" => Recorded(runs', j, "SUCCESS"),
         at = "settle" /\ ~ok =>
           [job |-> j, attempt |-> worker[w].copies[j] + 1, status |-> "FAILED"] \in runs'
  PROVE  IInv'
<1> DEFINE k == [at |-> at, copies |-> worker[w].copies, job |-> j, ok |-> ok]
<1>1. j \in Jobs /\ IsWorker(k)
    BY WorkerFields DEF IInv, IsWorker
<1>2. \A i \in DOMAIN k.copies : k.copies[i] <= job'[i].attempts
  <2> SUFFICES ASSUME NEW i \in DOMAIN worker[w].copies
               PROVE  worker[w].copies[i] <= job'[i].attempts
      OBVIOUS
  <2>1. i \in Jobs /\ worker[w].copies[i] \in Nat /\ worker[w].copies[i] <= job[i].attempts
      BY WorkerFields DEF IInv, CopiesLag
  <2>2. job[i].attempts \in Nat /\ job'[i].attempts \in Nat /\ job[i].attempts <= job'[i].attempts
      BY <2>1 DEF IInv, TypeOK, JobRows
  <2> QED
      BY <2>1, <2>2
<1>3. \A i \in Jobs : job'[i].status \in {"claimed", "running"} =>
        Carries(k, i) \/ i \in dropped' \/ \E v \in Workers : v # w /\ Carries(worker[v], i)
  <2> SUFFICES ASSUME NEW i \in Jobs, job'[i].status \in {"claimed", "running"}, i \notin dropped
               PROVE  Carries(k, i) \/ \E v \in Workers : v # w /\ Carries(worker[v], i)
      OBVIOUS
  <2>1. job[i].status \in {"claimed", "running"}
      OBVIOUS
  <2>2. PICK v \in Workers : Carries(worker[v], i)
      BY <2>1 DEF IInv, WorkIsCarried
  <2> QED
      BY <2>2 DEF Carries
<1>4. /\ \A i \in Jobs : job'[i].status = "absent" => job[i].status = "absent"
      /\ \A i \in Jobs : job'[i].status = "dead" => job[i].status = "dead"
      /\ \A i \in Jobs : job'[i].status = "completed" =>
           job[i].status = "completed" \/ (i \in succeeded' /\ Recorded(runs', i, "SUCCESS"))
    OBVIOUS
<1>5. /\ letter' \in [Jobs -> LetterStatus]
      /\ dropped' \subseteq Jobs /\ unclaimed' \subseteq Jobs
    BY DEF IInv, TypeOK
<1>6. /\ k.at = at /\ k.job = j /\ k.ok = ok /\ k.copies = worker[w].copies
      /\ k.at # "bury" /\ worker[w].at # "bury"
      /\ FailedRun(k) = [job |-> j, attempt |-> worker[w].copies[j] + 1, status |-> "FAILED"]
    BY DEF FailedRun
<1>7. worker' = [worker EXCEPT ![w] = k]
    OBVIOUS
<1> HIDE DEF k
<1> QED
    BY <1>1, <1>2, <1>3, <1>4, <1>5, <1>6, <1>7, WorkerStepKeeps

\* A row that is still claimed is counted and becomes running.
LEMMA MarkRunningKeeps == ASSUME IInv, NEW w \in Workers, MarkRunning(w) PROVE IInv'
<1>1. PICK j \in DOMAIN worker[w].copies :
        /\ worker' = [worker EXCEPT ![w] =
             [at |-> "start", copies |-> worker[w].copies, job |-> j, ok |-> FALSE]]
        /\ job' = IF job[j].status = "claimed"
                  THEN [job EXCEPT ![j].status = "running", ![j].attempts = @ + 1] ELSE job
    BY DEF MarkRunning, Move
<1>2. /\ worker[w].at = "next" /\ aborts' = aborts /\ succeeded' = succeeded /\ runs' = runs
      /\ UNCHANGED <<origin, letter, operator, dropped, unclaimed>>
    BY DEF MarkRunning, At
<1>3. j \in Jobs
    BY WorkerFields DEF IInv
<1>4. job \in JobRows
    BY DEF IInv, TypeOK, JobRows
<1>5. job' \in JobRows /\ \A i \in Jobs :
        /\ job[i].attempts <= job'[i].attempts
        /\ \/ job'[i].status = job[i].status
           \/ job[i].status = "claimed" /\ job'[i].status = "running"
  <2>1. CASE job[j].status = "claimed"
    <3>1. job' = [job EXCEPT ![j] = [status |-> "running", attempts |-> job[j].attempts + 1,
                                    due |-> job[j].due]]
        BY <2>1, <1>1, <1>3, <1>4 DEF JobRows
    <3> QED
        BY <2>1, <3>1, <1>3, <1>4 DEF JobRows, Status
  <2>2. CASE job[j].status # "claimed"
      BY <2>2, <1>1, <1>4 DEF JobRows
  <2> QED
      BY <2>1, <2>2
<1>6. runs' \subseteq RunRows /\ aborts' \in 0..MaxAborts /\ succeeded' \subseteq Jobs
    BY <1>2 DEF IInv, TypeOK, RunRows
<1> QED
    BY <1>1, <1>2, <1>5, <1>6, StageStepKeeps

\* The handler returns, or throws.
LEMMA HandleKeeps == ASSUME IInv, NEW w \in Workers, Handle(w) PROVE IInv'
<1>1. PICK ok \in BOOLEAN :
        /\ worker' = [worker EXCEPT ![w] =
             [at |-> "record", copies |-> worker[w].copies, job |-> worker[w].job, ok |-> ok]]
        /\ succeeded' = IF ok THEN succeeded \cup {worker[w].job} ELSE succeeded
    BY DEF Handle, Move
<1>2. /\ worker[w].at = "start" /\ aborts' = aborts /\ job' = job
      /\ runs' = runs \cup {Run(w, "RUNNING")}
      /\ UNCHANGED <<origin, letter, operator, dropped, unclaimed>>
    BY DEF Handle, At
<1>3. worker[w].job \in DOMAIN worker[w].copies /\ worker[w].job \in Jobs
    BY <1>2, AttemptIsNat DEF IInv, JobIsHeld, Busy
<1>4. Run(w, "RUNNING") \in RunRows
    BY <1>2, AttemptIsNat DEF IInv, Busy, RunRows
<1>5. job' \in JobRows /\ \A i \in Jobs : job[i].attempts <= job'[i].attempts
    BY <1>2 DEF IInv, TypeOK, JobRows
<1>6. runs' \subseteq RunRows /\ aborts' \in 0..MaxAborts /\ succeeded' \subseteq Jobs
    BY <1>1, <1>2, <1>3, <1>4 DEF IInv, TypeOK, RunRows
<1> QED
    BY <1>1, <1>2, <1>3, <1>5, <1>6, StageStepKeeps

\* The end of the run is recorded as what it was.
LEMMA RecordRunKeeps == ASSUME IInv, NEW w \in Workers, RecordRun(w) PROVE IInv'
<1> DEFINE done == Run(w, IF worker[w].ok THEN "SUCCESS" ELSE "FAILED")
<1>1. /\ worker[w].at = "record" /\ aborts' = aborts /\ job' = job /\ succeeded' = succeeded
      /\ runs' = runs \cup {done}
      /\ worker' = [worker EXCEPT ![w] =
           [at |-> "settle", copies |-> worker[w].copies, job |-> worker[w].job, ok |-> worker[w].ok]]
      /\ UNCHANGED <<origin, letter, operator, dropped, unclaimed>>
    BY DEF RecordRun, At, Goto, Move
<1>2. worker[w].job \in DOMAIN worker[w].copies /\ worker[w].job \in Jobs
    BY <1>1, AttemptIsNat DEF IInv, JobIsHeld, Busy
<1>3. done \in RunRows
    BY <1>1, AttemptIsNat DEF IInv, Busy, RunRows
<1>4. job' \in JobRows /\ \A i \in Jobs : job[i].attempts <= job'[i].attempts
    BY <1>1 DEF IInv, TypeOK, JobRows
<1>5. runs' \subseteq RunRows /\ aborts' \in 0..MaxAborts /\ succeeded' \subseteq Jobs
    BY <1>1, <1>3 DEF IInv, TypeOK, RunRows
<1>6. worker[w].ok \in BOOLEAN
    BY WorkerFields DEF IInv
<1>7. worker[w].ok =>
        worker[w].job \in succeeded' /\ Recorded(runs', worker[w].job, "SUCCESS")
  <2> SUFFICES ASSUME worker[w].ok
               PROVE  worker[w].job \in succeeded' /\ Recorded(runs', worker[w].job, "SUCCESS")
      OBVIOUS
  <2>1. done.job = worker[w].job /\ done.status = "SUCCESS" /\ done \in runs'
      BY <1>1 DEF Run
  <2> QED
      BY <2>1, <1>1 DEF IInv, SuccessIsRecorded, Recorded
<1>8. ~worker[w].ok =>
        [job |-> worker[w].job, attempt |-> worker[w].copies[worker[w].job] + 1, status |-> "FAILED"]
          \in runs'
    BY <1>1 DEF Run, Attempt
<1> HIDE DEF done
<1> QED
    BY <1>1, <1>2, <1>4, <1>5, <1>6, <1>7, <1>8, StageStepKeeps

\* A success that cannot be recorded is judged again, as a failure.
LEMMA SuccessThrowsKeeps == ASSUME IInv, NEW w \in Workers, SuccessThrows(w) PROVE IInv'
<1> DEFINE j == worker[w].job
<1>1. /\ worker[w].ok /\ aborts < MaxAborts /\ aborts' = aborts + 1
      /\ worker' = [worker EXCEPT ![w] =
           [at |-> "record", copies |-> worker[w].copies, job |-> j, ok |-> FALSE]]
      /\ UNCHANGED <<origin, letter, operator, succeeded, dropped, unclaimed>>
      /\ \/ worker[w].at = "record" /\ runs' \in {runs, runs \cup {Run(w, "SUCCESS")}} /\ job' = job
         \/ /\ worker[w].at = "settle" /\ runs' = runs
            /\ job' \in {job, [job EXCEPT ![j].status = "completed"]}
    BY DEF SuccessThrows, At, Move
<1>2. j \in DOMAIN worker[w].copies /\ j \in Jobs /\ Run(w, "SUCCESS") \in RunRows
    BY <1>1, AttemptIsNat DEF IInv, JobIsHeld, Busy, RunRows
<1>3. /\ runs \subseteq runs' /\ runs' \subseteq RunRows /\ aborts' \in 0..MaxAborts
      /\ succeeded' \subseteq Jobs
    BY <1>1, <1>2, JobAssumption DEF IInv, TypeOK, RunRows
<1>4. job \in JobRows
    BY DEF IInv, TypeOK, JobRows
<1>5. worker[w].at = "settle" => j \in succeeded /\ Recorded(runs, j, "SUCCESS")
    BY <1>1 DEF IInv, SuccessIsRecorded
<1>6. job' \in JobRows /\ \A i \in Jobs :
        /\ job[i].attempts <= job'[i].attempts
        /\ \/ job'[i].status = job[i].status
           \/ job'[i].status = "completed" /\ i \in succeeded' /\ Recorded(runs', i, "SUCCESS")
  <2>1. CASE job' = job
      BY <2>1, <1>4 DEF JobRows
  <2>2. CASE job' # job
    <3>1. /\ worker[w].at = "settle" /\ runs' = runs /\ succeeded' = succeeded
          /\ job' = [job EXCEPT ![j] = [status |-> "completed", attempts |-> job[j].attempts,
                                        due |-> job[j].due]]
        BY <2>2, <1>1, <1>2, <1>4 DEF JobRows
    <3> QED
        BY <3>1, <1>2, <1>4, <1>5 DEF JobRows, Status
  <2> QED
      BY <2>1, <2>2
<1>7. worker[w].at \in {"record", "settle"} /\ succeeded' = succeeded
    BY <1>1
<1> QED
    BY <1>1, <1>2, <1>3, <1>6, <1>7, StageStepKeeps

\* A worker that advances keeps the rest of its batch, and carries what it carried of it.
LEMMA AdvanceFacts ==
  ASSUME IInv, NEW w \in Workers, worker[w].at \in {"settle", "bury"}, Advance(w)
  PROVE  \E k : /\ worker' = [worker EXCEPT ![w] = k]
                /\ IsWorker(k) /\ k.at \in {"idle", "next"} /\ ~k.ok
                /\ \A i \in DOMAIN k.copies : k.copies[i] <= job[i].attempts
                /\ \A i \in Jobs : Carries(worker[w], i) => Carries(k, i) \/ i = worker[w].job
<1> DEFINE js == DOMAIN worker[w].copies \ {worker[w].job}
           c == Restrict(worker[w].copies, js)
           k == Holding(c)
<1>1. /\ DOMAIN worker[w].copies \subseteq Jobs
      /\ worker[w].copies \in [DOMAIN worker[w].copies -> Nat]
    BY WorkerFields DEF IInv
<1>2. /\ DOMAIN c = js /\ js \subseteq Jobs /\ c \in [DOMAIN c -> Nat]
      /\ \A i \in js : c[i] = worker[w].copies[i]
    BY <1>1 DEF Restrict
<1>3. /\ IsWorker(k) /\ k.at \in {"idle", "next"} /\ ~k.ok
      /\ DOMAIN k.copies = js /\ \A i \in js : k.copies[i] = c[i]
      /\ k.at = "idle" => js = {}
    BY <1>2, HoldingIsWorker, ZenonT(60)
<1>4. worker' = [worker EXCEPT ![w] = k]
    BY DEF Advance
<1>5. \A i \in DOMAIN k.copies : k.copies[i] <= job[i].attempts
    BY <1>2, <1>3 DEF IInv, CopiesLag
<1>6. \A i \in Jobs : Carries(worker[w], i) => Carries(k, i) \/ i = worker[w].job
    BY <1>3 DEF Carries
<1> HIDE DEF k
<1> QED
    BY <1>3, <1>4, <1>5, <1>6

\* What suffices of the write that settles the job of a worker, with which it advances.
LEMMA SettleStepKeeps ==
  ASSUME IInv, NEW w \in Workers, worker[w].at = "settle", Advance(w),
         NEW status \in {"completed", "queued"}, job' \in JobRows,
         \A i \in Jobs : /\ job'[i].attempts = job[i].attempts
                         /\ i # worker[w].job => job'[i] = job[i]
                         /\ i = worker[w].job => job'[i].status = status,
         status = "completed" => worker[w].ok,
         UNCHANGED <<origin, runs, letter, operator, succeeded, dropped, unclaimed, aborts>>
  PROVE  IInv'
<1> DEFINE j == worker[w].job
<1>1. PICK k : /\ worker' = [worker EXCEPT ![w] = k]
               /\ IsWorker(k) /\ k.at \in {"idle", "next"} /\ ~k.ok
               /\ \A i \in DOMAIN k.copies : k.copies[i] <= job[i].attempts
               /\ \A i \in Jobs : Carries(worker[w], i) => Carries(k, i) \/ i = j
    BY AdvanceFacts
<1>2. j \in Jobs
    BY AttemptIsNat DEF IInv, Busy
<1>3. job \in JobRows
    BY DEF IInv, TypeOK, JobRows
<1>4. \A i \in Jobs : /\ job'[i].attempts = job[i].attempts
                      /\ i # j => job'[i] = job[i]
                      /\ i = j => job'[i].status = status
    OBVIOUS
<1>5. \A i \in Jobs : job[i].attempts <= job'[i].attempts
    BY <1>3, <1>4 DEF JobRows
<1>6. \A i \in DOMAIN k.copies : k.copies[i] <= job'[i].attempts
    BY <1>1, <1>4 DEF IsWorker
<1>7. \A i \in Jobs : job'[i].status \in {"claimed", "running"} =>
        Carries(k, i) \/ i \in dropped' \/ \E v \in Workers : v # w /\ Carries(worker[v], i)
  <2> SUFFICES ASSUME NEW i \in Jobs, job'[i].status \in {"claimed", "running"}, i \notin dropped
               PROVE  Carries(k, i) \/ \E v \in Workers : v # w /\ Carries(worker[v], i)
      OBVIOUS
  <2>1. i # j
      BY <1>4
  <2>2. job[i].status \in {"claimed", "running"}
      BY <1>4, <2>1
  <2>3. PICK v \in Workers : Carries(worker[v], i)
      BY <2>2 DEF IInv, WorkIsCarried
  <2> QED
      BY <2>1, <2>3, <1>1
<1>8. status = "completed" => j \in succeeded' /\ Recorded(runs', j, "SUCCESS")
    BY DEF IInv, SuccessIsRecorded
<1>9. /\ \A i \in Jobs : job'[i].status = "absent" => job[i].status = "absent"
      /\ \A i \in Jobs : job'[i].status = "dead" => job[i].status = "dead"
      /\ \A i \in Jobs : job'[i].status = "completed" =>
           job[i].status = "completed" \/ (i \in succeeded' /\ Recorded(runs', i, "SUCCESS"))
    BY <1>4, <1>8
<1>10. /\ runs' \subseteq RunRows /\ letter' \in [Jobs -> LetterStatus] /\ aborts' \in 0..MaxAborts
       /\ succeeded' \subseteq Jobs /\ dropped' \subseteq Jobs /\ unclaimed' \subseteq Jobs
    BY DEF IInv, TypeOK, RunRows
<1>11. k.at \notin Busy /\ k.at # "settle" /\ k.at # "bury" /\ worker[w].at # "bury"
    BY <1>1 DEF Busy
<1> QED
    BY <1>1, <1>4, <1>5, <1>6, <1>7, <1>9, <1>10, <1>11, WorkerStepKeeps

\* Only a success on record completes a job.
LEMMA CompleteKeeps == ASSUME IInv, NEW w \in Workers, Complete(w) PROVE IInv'
<1>1. /\ worker[w].at = "settle" /\ worker[w].ok /\ Advance(w)
      /\ job' = [job EXCEPT ![worker[w].job].status = "completed"]
      /\ UNCHANGED <<origin, runs, letter, operator, succeeded, dropped, unclaimed, aborts>>
    BY DEF Complete, At
<1>2. worker[w].job \in Jobs /\ job \in JobRows
    BY <1>1, AttemptIsNat DEF IInv, Busy, TypeOK, JobRows
<1>3. job' \in JobRows /\ \A i \in Jobs :
        /\ job'[i].attempts = job[i].attempts
        /\ i # worker[w].job => job'[i] = job[i]
        /\ i = worker[w].job => job'[i].status = "completed"
    BY <1>1, <1>2 DEF JobRows, Status
<1> QED
    BY <1>1, <1>3, SettleStepKeeps

\* A failure that is not final gives its row back.
LEMMA RequeueKeeps == ASSUME IInv, NEW w \in Workers, Requeue(w) PROVE IInv'
<1>1. /\ worker[w].at = "settle" /\ Advance(w)
      /\ job' = [job EXCEPT ![worker[w].job].status = "queued", ![worker[w].job].due = FALSE]
      /\ UNCHANGED <<origin, runs, letter, operator, succeeded, dropped, unclaimed, aborts>>
    BY DEF Requeue, At
<1>2. worker[w].job \in Jobs /\ job \in JobRows
    BY <1>1, AttemptIsNat DEF IInv, Busy, TypeOK, JobRows
<1>3. job' \in JobRows /\ \A i \in Jobs :
        /\ job'[i].attempts = job[i].attempts
        /\ i # worker[w].job => job'[i] = job[i]
        /\ i = worker[w].job => job'[i].status = "queued"
    BY <1>1, <1>2 DEF JobRows, Status
<1> QED
    BY <1>1, <1>3, SettleStepKeeps

\* A row dies by the hand of a worker that is about to bury it.
LEMMA DieKeeps == ASSUME IInv, NEW w \in Workers, Die(w) PROVE IInv'
<1> DEFINE j == worker[w].job
           k == [at |-> "bury", copies |-> worker[w].copies, job |-> j, ok |-> worker[w].ok]
<1>1. /\ worker[w].at = "settle" /\ ~worker[w].ok /\ Exhausted(w)
      /\ job' = [job EXCEPT ![j].status = "dead"]
      /\ worker' = [worker EXCEPT ![w] = k]
      /\ UNCHANGED <<origin, runs, letter, operator, succeeded, dropped, unclaimed, aborts>>
    BY DEF Die, At, Goto, Move
<1>2. j \in Jobs /\ j \in DOMAIN worker[w].copies
    BY <1>1, AttemptIsNat DEF IInv, JobIsHeld, Busy
<1>3. IsWorker(k)
    BY <1>2, WorkerFields DEF IInv, IsWorker
<1>4. job \in JobRows
    BY DEF IInv, TypeOK, JobRows
<1>5. \A i \in Jobs : /\ job'[i].attempts = job[i].attempts
                      /\ job'[i].status = IF i = j THEN "dead" ELSE job[i].status
    BY <1>1, <1>2, <1>4 DEF JobRows, Status
<1>6. job' \in JobRows
    BY <1>1, <1>2, <1>4 DEF JobRows, Status
<1>7. \A i \in Jobs : job[i].attempts <= job'[i].attempts
    BY <1>4, <1>5 DEF JobRows
<1>8. \A i \in DOMAIN k.copies : k.copies[i] <= job'[i].attempts
    BY <1>5, WorkerFields DEF IInv, CopiesLag
<1>9. \A i \in Jobs : job'[i].status \in {"claimed", "running"} =>
        Carries(k, i) \/ i \in dropped' \/ \E v \in Workers : v # w /\ Carries(worker[v], i)
  <2> SUFFICES ASSUME NEW i \in Jobs, job'[i].status \in {"claimed", "running"}, i \notin dropped
               PROVE  Carries(k, i) \/ \E v \in Workers : v # w /\ Carries(worker[v], i)
      BY <1>1
  <2>1. i # j
      BY <1>5
  <2>2. job[i].status \in {"claimed", "running"}
      BY <1>5, <2>1
  <2>3. PICK v \in Workers : Carries(worker[v], i)
      BY <1>1, <2>2 DEF IInv, WorkIsCarried
  <2> QED
      BY <2>1, <2>3 DEF Carries
<1>10. FailedRun(k) \in runs' /\ k.copies[k.job] + 1 >= MaxAttempts
    BY <1>1 DEF IInv, FailureIsRecorded, FailedRun, Run, Attempt, Exhausted
<1>11. /\ \A i \in Jobs : job'[i].status = "absent" => job[i].status = "absent"
       /\ \A i \in Jobs : job'[i].status = "completed" => job[i].status = "completed"
       /\ \A i \in Jobs : job'[i].status = "dead" => job[i].status = "dead" \/ i = j
    BY <1>5
<1>12. /\ runs' \subseteq RunRows /\ letter' \in [Jobs -> LetterStatus] /\ aborts' \in 0..MaxAborts
       /\ succeeded' \subseteq Jobs /\ dropped' \subseteq Jobs /\ unclaimed' \subseteq Jobs
    BY <1>1 DEF IInv, TypeOK, RunRows
<1>13. /\ k.at = "bury" /\ k.job = j /\ ~k.ok /\ k.job \in DOMAIN k.copies
       /\ worker[w].at # "bury"
    BY <1>1, <1>2
<1> HIDE DEF k
<1> QED
    BY <1>1, <1>3, <1>5, <1>6, <1>7, <1>8, <1>9, <1>10, <1>11, <1>12, <1>13, WorkerStepKeeps, ZenonT(60)

\* The dead letter of an exhausted job.
LEMMA BuryKeeps == ASSUME IInv, NEW w \in Workers, Bury(w) PROVE IInv'
<1> DEFINE j == worker[w].job
<1>1. /\ worker[w].at = "bury" /\ Advance(w)
      /\ letter' = [letter EXCEPT ![j] = IF letter[j] = "absent" THEN "PENDING" ELSE letter[j]]
      /\ UNCHANGED <<job, origin, runs, operator, succeeded, dropped, unclaimed, aborts>>
    BY DEF Bury, At
<1>2. PICK k : /\ worker' = [worker EXCEPT ![w] = k]
               /\ IsWorker(k) /\ k.at \in {"idle", "next"} /\ ~k.ok
               /\ \A i \in DOMAIN k.copies : k.copies[i] <= job[i].attempts
               /\ \A i \in Jobs : Carries(worker[w], i) => Carries(k, i) \/ i = j
    BY <1>1, AdvanceFacts
<1>3. j \in Jobs /\ j \in DOMAIN worker[w].copies
    BY <1>1, AttemptIsNat DEF IInv, JobIsHeld, Busy
<1>4. /\ letter' \in [Jobs -> LetterStatus] /\ letter'[j] # "absent"
      /\ \A i \in Jobs : i # j => letter'[i] = letter[i]
      /\ letter[j] = "absent" => letter'[j] = "PENDING"
      /\ letter[j] # "absent" => letter'[j] = letter[j]
    BY <1>1, <1>3 DEF IInv, TypeOK, LetterStatus
<1>5. /\ Run(w, "FAILED") \in runs /\ Run(w, "FAILED").job = j /\ Run(w, "FAILED").status = "FAILED"
      /\ Run(w, "FAILED").attempt >= MaxAttempts
    BY <1>1 DEF IInv, FailureIsRecorded, BuriedIsExhausted, Exhausted, Run
<1>6. job[j].attempts >= MaxAttempts - 1
  <2>1. worker[w].copies[j] + 1 >= MaxAttempts /\ worker[w].copies[j] <= job[j].attempts
      BY <1>1, <1>3 DEF IInv, BuriedIsExhausted, Exhausted, Attempt, CopiesLag
  <2>2. worker[w].copies[j] \in Nat /\ job[j].attempts \in Nat
      BY <1>3, WorkerFields DEF IInv, TypeOK
  <2> QED
      BY <2>1, <2>2, JobAssumption
<1>7. \A i \in Jobs : letter'[i] # "absent" =>
        \/ letter[i] # "absent"
        \/ /\ job'[i].attempts >= MaxAttempts - 1
           /\ \E r \in runs' : r.job = i /\ r.status = "FAILED" /\ r.attempt >= MaxAttempts
    BY <1>1, <1>4, <1>5, <1>6
<1>8. /\ job' \in JobRows /\ \A i \in Jobs : job[i].attempts <= job'[i].attempts
      /\ runs' \subseteq RunRows /\ aborts' \in 0..MaxAborts
      /\ succeeded' \subseteq Jobs /\ dropped' \subseteq Jobs /\ unclaimed' \subseteq Jobs
    BY <1>1 DEF IInv, TypeOK, RunRows, JobRows
<1>9. \A i \in Jobs : job'[i].status \in {"claimed", "running"} =>
        Carries(k, i) \/ i \in dropped' \/ \E v \in Workers : v # w /\ Carries(worker[v], i)
  <2> SUFFICES ASSUME NEW i \in Jobs, job[i].status \in {"claimed", "running"}, i \notin dropped
               PROVE  Carries(k, i) \/ \E v \in Workers : v # w /\ Carries(worker[v], i)
      BY <1>1
  <2>1. PICK v \in Workers : Carries(worker[v], i)
      BY DEF IInv, WorkIsCarried
  <2>2. ~Carries(worker[w], j)
      BY <1>1 DEF Carries
  <2> QED
      BY <2>1, <2>2, <1>2
<1>10. \A i \in Jobs : job'[i].status = "dead" => letter'[i] # "absent" \/ (job[i].status = "dead" /\ i # j)
    BY <1>1, <1>4
<1>11. \A i \in Jobs : /\ letter'[i] = "REPLAYED" => letter[i] = "REPLAYED"
                       /\ letter'[i] = "absent" => letter[i] = "absent"
    BY <1>4
<1>12. k.at \notin Busy /\ k.at # "settle" /\ k.at # "bury"
    BY <1>2 DEF Busy
<1> QED
    BY <1>1, <1>2, <1>4, <1>7, <1>8, <1>9, <1>10, <1>11, <1>12, WorkerStepKeeps

-----------------------------------------------------------------------------
(* Steps of requests, and time                                             *)

\* What suffices of a step that moves no worker: rows may appear and letters be marked.
LEMMA RequestStepKeeps ==
  ASSUME IInv, UNCHANGED <<worker, runs, succeeded, dropped, unclaimed>>,
         job' \in JobRows, letter' \in [Jobs -> LetterStatus], aborts' \in 0..MaxAborts,
         origin' \in [Jobs -> Jobs \cup {NoJob}],
         operator' \in [Operators -> [at : {"idle", "enqueue", "mark"}, letter : Jobs \cup {NoJob}]],
         \A j \in Jobs : job'[j].attempts = job[j].attempts,
         \A j \in Jobs : \/ job'[j].status = job[j].status
                         \/ (job'[j].status = "queued" /\ job[j].status = "absent"),
         \A j \in Jobs : letter'[j] = "absent" <=> letter[j] = "absent",
         \A j \in Jobs : origin'[j] = origin[j] \/ (job'[j].status # "absent" /\ origin[j] = NoJob),
         MarkHasSuccessor', ReplayedHasSuccessor'
  PROVE  IInv'
<1>1. TypeOK'
    BY DEF IInv, TypeOK, JobRows
<1>2. /\ CopiesLag'
      /\ JobIsHeld' /\ SuccessIsRecorded' /\ FailureIsRecorded' /\ BuriedIsExhausted'
  <2>1. CopiesLag'
      BY DEF IInv, CopiesLag, TypeOK, IsWorker
  <2> QED
      BY <2>1 DEF IInv, JobIsHeld, SuccessIsRecorded, FailureIsRecorded, BuriedIsExhausted,
                  Run, Attempt, Exhausted
<1>3. WorkIsCarried' /\ CompletedHasRun' /\ DeadIsBuried'
    BY DEF IInv, WorkIsCarried, CompletedHasRun, DeadIsBuried
<1>4. LetterWasExhausted'
    BY DEF IInv, LetterWasExhausted
<1>5. AbsentHasNoOrigin'
    BY DEF IInv, AbsentHasNoOrigin
<1> QED
    BY <1>1, <1>2, <1>3, <1>4, <1>5 DEF IInv

\* A row that comes into being replaces the letter l, or none.
LEMMA CreateFacts ==
  ASSUME IInv, NEW j \in Jobs, NEW l \in Jobs \cup {NoJob}, Create(j, l)
  PROVE  /\ job' \in JobRows /\ origin' \in [Jobs -> Jobs \cup {NoJob}]
         /\ \A i \in Jobs : job'[i].attempts = job[i].attempts
         /\ \A i \in Jobs : \/ job'[i].status = job[i].status
                            \/ (job'[i].status = "queued" /\ job[i].status = "absent")
         /\ \A i \in Jobs : origin'[i] = origin[i] \/ (job'[i].status # "absent" /\ origin[i] = NoJob)
         /\ origin'[j] = l
         /\ \A m \in Jobs : (\E i \in Jobs : origin[i] = m) => \E i \in Jobs : origin'[i] = m
<1>1. job \in JobRows /\ origin \in [Jobs -> Jobs \cup {NoJob}]
    BY DEF IInv, TypeOK, JobRows
<1>2. /\ job[j].status = "absent" /\ origin[j] = NoJob
      /\ job' = [job EXCEPT ![j].status = "queued"]
      /\ origin' = [origin EXCEPT ![j] = l]
    BY DEF Create, IInv, AbsentHasNoOrigin
<1>3. job' \in JobRows
    BY <1>1, <1>2 DEF JobRows, Status
<1>4. /\ \A i \in Jobs : job'[i].attempts = job[i].attempts
      /\ \A i \in Jobs : job'[i].status = IF i = j THEN "queued" ELSE job[i].status
    BY <1>1, <1>2 DEF JobRows
<1>5. origin' \in [Jobs -> Jobs \cup {NoJob}] /\ \A i \in Jobs : origin'[i] = IF i = j THEN l ELSE origin[i]
    BY <1>1, <1>2
<1>6. \A m \in Jobs : (\E i \in Jobs : origin[i] = m) => \E i \in Jobs : origin'[i] = m
    BY <1>2, <1>5, JobAssumption
<1>7. \A i \in Jobs : \/ job'[i].status = job[i].status
                      \/ (job'[i].status = "queued" /\ job[i].status = "absent")
  <2> SUFFICES ASSUME NEW i \in Jobs
               PROVE  \/ job'[i].status = job[i].status
                      \/ (job'[i].status = "queued" /\ job[i].status = "absent")
      OBVIOUS
  <2>1. CASE i = j
      BY <2>1, <1>2, <1>4
  <2>2. CASE i # j
      BY <2>2, <1>4
  <2> QED
      BY <2>1, <2>2
<1>8. \A i \in Jobs : origin'[i] = origin[i] \/ (job'[i].status # "absent" /\ origin[i] = NoJob)
  <2> SUFFICES ASSUME NEW i \in Jobs, i = j
               PROVE  job'[i].status # "absent" /\ origin[i] = NoJob
      BY <1>5
  <2> QED
      BY <1>2, <1>4
<1>9. origin'[j] = l
    BY <1>5
<1> QED
    BY <1>3, <1>4, <1>5, <1>6, <1>7, <1>8, <1>9

\* A request creates a row that replaces none.
LEMMA EnqueueKeeps == ASSUME IInv, NEW j \in Jobs, Enqueue(j) PROVE IInv'
<1>1. /\ Create(j, NoJob)
      /\ UNCHANGED <<worker, runs, letter, operator, succeeded, dropped, unclaimed, aborts>>
    BY DEF Enqueue
<1>2. /\ letter' \in [Jobs -> LetterStatus] /\ aborts' \in 0..MaxAborts
      /\ operator' \in [Operators -> [at : {"idle", "enqueue", "mark"}, letter : Jobs \cup {NoJob}]]
    BY <1>1 DEF IInv, TypeOK
<1>3. origin' = origin
    BY <1>1 DEF Create, IInv, AbsentHasNoOrigin, TypeOK
<1>4. MarkHasSuccessor' /\ ReplayedHasSuccessor'
    BY <1>1, <1>3 DEF IInv, MarkHasSuccessor, ReplayedHasSuccessor
<1> QED
    BY <1>1, <1>2, <1>4, CreateFacts, RequestStepKeeps

\* The time of an attempt is no part of what is promised.
LEMMA ElapseKeeps == ASSUME IInv, NEW j \in Jobs, Elapse(j) PROVE IInv'
<1>1. /\ job' = [job EXCEPT ![j].due = TRUE]
      /\ UNCHANGED <<origin, worker, runs, letter, operator, succeeded, dropped, unclaimed, aborts>>
    BY DEF Elapse
<1>2. job \in JobRows
    BY DEF IInv, TypeOK, JobRows
<1>3. job' \in JobRows
    BY <1>1, <1>2 DEF JobRows
<1>4. /\ \A i \in Jobs : job'[i].attempts = job[i].attempts
      /\ \A i \in Jobs : \/ job'[i].status = job[i].status
                         \/ (job'[i].status = "queued" /\ job[i].status = "absent")
    BY <1>1, <1>2 DEF JobRows
<1>5. /\ letter' \in [Jobs -> LetterStatus] /\ aborts' \in 0..MaxAborts
      /\ origin' \in [Jobs -> Jobs \cup {NoJob}]
      /\ operator' \in [Operators -> [at : {"idle", "enqueue", "mark"}, letter : Jobs \cup {NoJob}]]
    BY <1>1 DEF IInv, TypeOK
<1>6. MarkHasSuccessor' /\ ReplayedHasSuccessor'
    BY <1>1 DEF IInv, MarkHasSuccessor, ReplayedHasSuccessor
<1>7. /\ \A i \in Jobs : letter'[i] = "absent" <=> letter[i] = "absent"
      /\ \A i \in Jobs : origin'[i] = origin[i] \/ (job'[i].status # "absent" /\ origin[i] = NoJob)
    BY <1>1
<1> QED
    BY <1>1, <1>3, <1>4, <1>5, <1>6, <1>7, RequestStepKeeps

\* What suffices of a step of an operator that creates no row.
LEMMA OperatorStepKeeps ==
  ASSUME IInv, UNCHANGED <<job, origin, worker, runs, succeeded, dropped, unclaimed>>,
         aborts' \in 0..MaxAborts, letter' \in [Jobs -> LetterStatus],
         operator' \in [Operators -> [at : {"idle", "enqueue", "mark"}, letter : Jobs \cup {NoJob}]],
         \A o \in Operators : /\ operator'[o].at = "mark" => operator'[o] = operator[o]
                              /\ operator'[o].at # "idle" => operator'[o].letter \in Jobs,
         \A l \in Jobs : letter'[l] = "absent" <=> letter[l] = "absent",
         \A l \in Jobs : letter'[l] = "REPLAYED" =>
           letter[l] = "REPLAYED" \/ \E j \in Jobs : origin[j] = l
  PROVE  IInv'
<1>1. job' \in JobRows /\ origin' \in [Jobs -> Jobs \cup {NoJob}]
    BY DEF IInv, TypeOK, JobRows
<1>2. MarkHasSuccessor' /\ ReplayedHasSuccessor'
    BY DEF IInv, MarkHasSuccessor, ReplayedHasSuccessor
<1>3. /\ \A j \in Jobs : job'[j].attempts = job[j].attempts
      /\ \A j \in Jobs : \/ job'[j].status = job[j].status
                         \/ (job'[j].status = "queued" /\ job[j].status = "absent")
      /\ \A j \in Jobs : origin'[j] = origin[j] \/ (job'[j].status # "absent" /\ origin[j] = NoJob)
    OBVIOUS
<1> QED
    BY <1>1, <1>2, <1>3, RequestStepKeeps

\* A replay request has found a letter.
LEMMA ReplayReadKeeps == ASSUME IInv, NEW o \in Operators, NEW l \in Jobs, ReplayRead(o, l) PROVE IInv'
<1>1. /\ operator' = [operator EXCEPT ![o] = [at |-> "enqueue", letter |-> l]]
      /\ UNCHANGED <<job, origin, worker, runs, letter, succeeded, dropped, unclaimed, aborts>>
    BY DEF ReplayRead
<1>2. /\ operator' \in [Operators -> [at : {"idle", "enqueue", "mark"}, letter : Jobs \cup {NoJob}]]
      /\ \A p \in Operators : /\ operator'[p].at = "mark" => operator'[p] = operator[p]
                              /\ operator'[p].at # "idle" => operator'[p].letter \in Jobs
    BY <1>1 DEF IInv, TypeOK, MarkHasSuccessor
<1>3. aborts' \in 0..MaxAborts /\ letter' \in [Jobs -> LetterStatus]
    BY <1>1 DEF IInv, TypeOK
<1> QED
    BY <1>1, <1>2, <1>3, OperatorStepKeeps

\* The letter that is marked has the job that replaces it.
LEMMA ReplayMarkKeeps == ASSUME IInv, NEW o \in Operators, ReplayMark(o) PROVE IInv'
<1> DEFINE l == operator[o].letter
<1>1. /\ operator[o].at = "mark"
      /\ letter' = [letter EXCEPT ![l] = IF letter[l] = "PENDING" THEN "REPLAYED" ELSE letter[l]]
      /\ operator' = [operator EXCEPT ![o] = IdleOperator]
      /\ UNCHANGED <<job, origin, worker, runs, succeeded, dropped, unclaimed, aborts>>
    BY DEF ReplayMark
<1>2. /\ operator' \in [Operators -> [at : {"idle", "enqueue", "mark"}, letter : Jobs \cup {NoJob}]]
      /\ \A p \in Operators : /\ operator'[p].at = "mark" => operator'[p] = operator[p]
                              /\ operator'[p].at # "idle" => operator'[p].letter \in Jobs
    BY <1>1 DEF IInv, TypeOK, IdleOperator, MarkHasSuccessor
<1>3. \E j \in Jobs : origin[j] = l
    BY <1>1 DEF IInv, MarkHasSuccessor
<1>4. /\ letter' \in [Jobs -> LetterStatus]
      /\ \A m \in Jobs : letter'[m] = letter[m] \/ (m = l /\ letter[m] = "PENDING" /\ letter'[m] = "REPLAYED")
    BY <1>1 DEF IInv, TypeOK, LetterStatus
<1>5. aborts' \in 0..MaxAborts
    BY <1>1 DEF IInv, TypeOK
<1>6. /\ \A m \in Jobs : letter'[m] = "absent" <=> letter[m] = "absent"
      /\ \A m \in Jobs : letter'[m] = "REPLAYED" =>
           letter[m] = "REPLAYED" \/ \E j \in Jobs : origin[j] = m
    BY <1>3, <1>4
<1> QED
    BY <1>1, <1>2, <1>4, <1>5, <1>6, OperatorStepKeeps

\* A replay that is cut short marks nothing.
LEMMA ReplayAbortKeeps == ASSUME IInv, NEW o \in Operators, ReplayAbort(o) PROVE IInv'
<1>1. /\ operator' = [operator EXCEPT ![o] = IdleOperator]
      /\ aborts' = aborts + 1 /\ aborts < MaxAborts
      /\ UNCHANGED <<job, origin, worker, runs, letter, succeeded, dropped, unclaimed>>
    BY DEF ReplayAbort
<1>2. /\ operator' \in [Operators -> [at : {"idle", "enqueue", "mark"}, letter : Jobs \cup {NoJob}]]
      /\ \A p \in Operators : /\ operator'[p].at = "mark" => operator'[p] = operator[p]
                              /\ operator'[p].at # "idle" => operator'[p].letter \in Jobs
    BY <1>1 DEF IInv, TypeOK, IdleOperator, MarkHasSuccessor
<1>3. aborts' \in 0..MaxAborts /\ letter' \in [Jobs -> LetterStatus]
    BY <1>1, JobAssumption DEF IInv, TypeOK
<1> QED
    BY <1>1, <1>2, <1>3, OperatorStepKeeps

\* An archived letter is still a letter.
LEMMA ArchiveKeeps == ASSUME IInv, NEW l \in Jobs, Archive(l) PROVE IInv'
<1>1. /\ letter[l] = "PENDING" /\ letter' = [letter EXCEPT ![l] = "ARCHIVED"]
      /\ UNCHANGED <<job, origin, worker, runs, operator, succeeded, dropped, unclaimed, aborts>>
    BY DEF Archive
<1>2. /\ operator' \in [Operators -> [at : {"idle", "enqueue", "mark"}, letter : Jobs \cup {NoJob}]]
      /\ aborts' \in 0..MaxAborts
      /\ \A p \in Operators : operator'[p].at # "idle" => operator'[p].letter \in Jobs
    BY <1>1 DEF IInv, TypeOK, MarkHasSuccessor
<1>3. /\ letter' \in [Jobs -> LetterStatus]
      /\ \A m \in Jobs : letter'[m] = "absent" <=> letter[m] = "absent"
      /\ \A m \in Jobs : letter'[m] = "REPLAYED" => letter[m] = "REPLAYED"
    BY <1>1 DEF IInv, TypeOK, LetterStatus
<1> QED
    BY <1>1, <1>2, <1>3, OperatorStepKeeps

\* The job that a replay enqueues is there before its letter can be marked.
LEMMA ReplayEnqueueKeeps ==
  ASSUME IInv, NEW o \in Operators, NEW j \in Jobs, ReplayEnqueue(o, j) PROVE IInv'
<1> DEFINE l == operator[o].letter
<1>1. /\ Create(j, l) /\ operator[o].at = "enqueue"
      /\ operator' = [operator EXCEPT ![o].at = "mark"]
      /\ UNCHANGED <<worker, runs, letter, succeeded, dropped, unclaimed, aborts>>
    BY DEF ReplayEnqueue
<1>2. l \in Jobs
    BY <1>1 DEF IInv, MarkHasSuccessor
<1>3. /\ operator' \in [Operators -> [at : {"idle", "enqueue", "mark"}, letter : Jobs \cup {NoJob}]]
      /\ \A p \in Operators : operator'[p].letter = operator[p].letter
      /\ \A p \in Operators : p # o => operator'[p] = operator[p]
    BY <1>1 DEF IInv, TypeOK
<1>4. /\ origin'[j] = l
      /\ \A m \in Jobs : (\E i \in Jobs : origin[i] = m) => \E i \in Jobs : origin'[i] = m
    BY <1>1, <1>2, CreateFacts
<1>5. MarkHasSuccessor'
  <2> SUFFICES ASSUME NEW p \in Operators, operator'[p].at = "mark"
               PROVE  \E i \in Jobs : origin'[i] = operator'[p].letter
    <3>1. \A p \in Operators : operator'[p].at # "idle" => operator'[p].letter \in Jobs
        BY <1>1, <1>2, <1>3 DEF IInv, MarkHasSuccessor
    <3> QED
        BY <3>1 DEF MarkHasSuccessor
  <2>1. CASE p = o
      BY <2>1, <1>3, <1>4
  <2>2. CASE p # o
      BY <2>2, <1>3, <1>4 DEF IInv, MarkHasSuccessor
  <2> QED
      BY <2>1, <2>2
<1>6. ReplayedHasSuccessor'
    BY <1>1, <1>4 DEF IInv, ReplayedHasSuccessor
<1>7. letter' \in [Jobs -> LetterStatus] /\ aborts' \in 0..MaxAborts
    BY <1>1 DEF IInv, TypeOK
<1> QED
    BY <1>1, <1>2, <1>3, <1>5, <1>6, <1>7, CreateFacts, RequestStepKeeps

-----------------------------------------------------------------------------
(* Theorems                                                                *)

\* Every step keeps the invariant.
LEMMA NextKeeps == ASSUME IInv, [Next]_vars PROVE IInv'
<1>1. ASSUME NEW w \in Workers, Step(w) \/ SuccessThrows(w) \/ Abort(w) PROVE IInv'
    BY <1>1, SelectKeeps, ClaimKeeps, ClaimFallsBackKeeps, MarkRunningKeeps, HandleKeeps,
       RecordRunKeeps, CompleteKeeps, RequeueKeeps, DieKeeps, BuryKeeps, SuccessThrowsKeeps,
       AbortKeeps DEF Step
<1>2. ASSUME NEW j \in Jobs, Enqueue(j) \/ Elapse(j) \/ Archive(j) PROVE IInv'
    BY <1>2, EnqueueKeeps, ElapseKeeps, ArchiveKeeps
<1>3. ASSUME NEW o \in Operators,
             \/ \E j \in Jobs : ReplayRead(o, j) \/ ReplayEnqueue(o, j)
             \/ ReplayMark(o) \/ ReplayAbort(o)
      PROVE  IInv'
    BY <1>3, ReplayReadKeeps, ReplayEnqueueKeeps, ReplayMarkKeeps, ReplayAbortKeeps
<1>4. CASE UNCHANGED vars
    BY <1>4 DEF vars, IInv, TypeOK, CopiesLag, JobIsHeld, SuccessIsRecorded, FailureIsRecorded,
       BuriedIsExhausted, WorkIsCarried, CompletedHasRun, DeadIsBuried, LetterWasExhausted,
       AbsentHasNoOrigin, MarkHasSuccessor, ReplayedHasSuccessor, Run, Attempt, Exhausted
<1> QED
    BY <1>1, <1>2, <1>3, <1>4 DEF Next

\* The invariant holds in every behaviour of the job queue.
THEOREM InvariantHolds == Spec => []IInv
<1>1. Init => IInv
    BY InitEstablishes
<1>2. IInv /\ [Next]_vars => IInv'
    BY NextKeeps
<1> QED
    BY <1>1, <1>2, PTL DEF Spec

\* Rows, workers, runs, letters and requests keep their types.
THEOREM TypesHold == Spec => []TypeOK
<1>1. IInv => TypeOK
    BY DEF IInv
<1> QED
    BY <1>1, InvariantHolds, PTL

\* However many replicas work on a job, and whichever of their writes a failure cuts off, a
\* completed job has run to its end and says so on record.
THEOREM CompletedAlwaysRan == Spec => []CompletedHasRun
<1>1. IInv => CompletedHasRun
    BY DEF IInv
<1> QED
    BY <1>1, InvariantHolds, PTL

\* A dead job has its letter, or a worker that is to write it, unless that was cut short.
THEOREM DeadAlwaysBuried == Spec => []DeadIsBuried
<1>1. IInv => DeadIsBuried
    BY DEF IInv
<1> QED
    BY <1>1, InvariantHolds, PTL

\* No path through a tick forgets a claimed or running job.
THEOREM WorkAlwaysHeld == Spec => []WorkIsHeld
<1>1. IInv => WorkIsHeld
    BY DEF IInv, WorkIsCarried, WorkIsHeld, Carries, Held
<1> QED
    BY <1>1, InvariantHolds, PTL

\* A dead letter stands for all the attempts its job allows.
THEOREM LettersAlwaysExhausted == Spec => []LetterWasExhausted
<1>1. IInv => LetterWasExhausted
    BY DEF IInv
<1> QED
    BY <1>1, InvariantHolds, PTL

\* A letter is marked replayed only when the job that replaces its own is there.
THEOREM ReplayedAlwaysReplaced == Spec => []ReplayedHasSuccessor
<1>1. IInv => ReplayedHasSuccessor
    BY DEF IInv
<1> QED
    BY <1>1, InvariantHolds, PTL
=============================================================================
