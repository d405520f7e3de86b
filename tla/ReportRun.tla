------------------------------- MODULE ReportRun -------------------------------
(***************************************************************************)
(* One run of a report (src/backend/src/core/reporting/report): requested  *)
(* by a user, who may cancel or delete it at any time, worked on by a      *)
(* background job that uploads a file and then attaches it.                *)
(*                                                                         *)
(* The job may be taken more than once (see JobQueue). Every change of the *)
(* run is a transaction that checks the status it reads and is bound to    *)
(* its version: one step, or a failure. The upload is a transaction of its *)
(* own, and nothing takes it back.                                         *)
(***************************************************************************)
EXTENDS Integers, FiniteSets

CONSTANTS
  Workers,   \* replicas that run jobs
  MaxTakes,  \* bound on how often the job is taken
  NoFile

VARIABLES
  run,       \* status of the run, whether it is deleted, and its file
  takes,     \* how often its job was taken
  worker,    \* worker[w] : the step its handler is at, and its take
  files,     \* uploaded files, named by the take that uploaded them
  told,      \* what the requester was told: "ready", "failed"
  cut,       \* takes that began to work and died (history)
  refused    \* takes whose result the run no longer wanted (history)

vars == <<run, takes, worker, files, told, cut, refused>>

Idle == [at |-> "idle"]

Terminal == {"SUCCEEDED", "FAILED", "CANCELLED"}

Init ==
  /\ run = [status |-> "PENDING", deleted |-> FALSE, file |-> NoFile]
  /\ takes = 0
  /\ worker = [w \in Workers |-> Idle]
  /\ files = {} /\ told = {} /\ cut = {} /\ refused = {}

Goto(w, step) == worker' = [worker EXCEPT ![w] = step]
At(w, step) == [worker[w] EXCEPT !.at = step]

-----------------------------------------------------------------------------
(* The requester                                                           *)

Cancel ==
  /\ ~run.deleted /\ run.status \in {"PENDING", "RUNNING"}
  /\ run' = [run EXCEPT !.status = "CANCELLED"]
  /\ UNCHANGED <<takes, worker, files, told, cut, refused>>

\* Whatever its status; a file that is attached stays.
SoftDelete ==
  /\ ~run.deleted
  /\ run' = [run EXCEPT !.deleted = TRUE]
  /\ UNCHANGED <<takes, worker, files, told, cut, refused>>

-----------------------------------------------------------------------------
(* The job                                                                 *)

\* A run that is deleted is not found and one that is settled is skipped.
Take(w) ==
  /\ worker[w] = Idle /\ takes < MaxTakes
  /\ takes' = takes + 1
  /\ Goto(w, IF run.deleted \/ run.status \in Terminal THEN Idle
             ELSE [at |-> "starting", take |-> takes + 1])
  /\ UNCHANGED <<run, files, told, cut, refused>>

\* FAULT: a run that is running may be started again.
Startable_Running == ~run.deleted /\ run.status \in {"PENDING", "RUNNING"}

Startable == ~run.deleted /\ run.status = "PENDING"

MarkRunning(w) ==
  /\ worker[w].at = "starting" /\ Startable
  /\ run' = [run EXCEPT !.status = "RUNNING"]
  /\ Goto(w, At(w, "working"))
  /\ UNCHANGED <<takes, files, told, cut, refused>>

\* The attempt fails; the run is left as it is.
LateStart(w) ==
  /\ worker[w].at = "starting" /\ ~Startable
  /\ Goto(w, Idle)
  /\ UNCHANGED <<run, takes, files, told, cut, refused>>

\* Rows are read, formatted and uploaded.
Upload(w) ==
  /\ worker[w].at = "working"
  /\ files' = files \cup {worker[w].take}
  /\ Goto(w, At(w, "attaching"))
  /\ UNCHANGED <<run, takes, told, cut, refused>>

MarkSucceeded(w) ==
  /\ worker[w].at = "attaching" /\ ~run.deleted /\ run.status = "RUNNING"
  /\ run' = [run EXCEPT !.status = "SUCCEEDED", !.file = worker[w].take]
  /\ Goto(w, At(w, "telling"))
  /\ UNCHANGED <<takes, files, told, cut, refused>>

\* The run was cancelled or deleted in the meantime, or the call fails.
Refuse(w) ==
  /\ worker[w].at = "attaching"
  /\ Goto(w, At(w, "failing"))
  /\ refused' = refused \cup {worker[w].take}
  /\ UNCHANGED <<run, takes, files, told, cut>>

\* An engine, the formatter or the upload throws.
Throw(w) ==
  /\ worker[w].at = "working"
  /\ Goto(w, At(w, "failing"))
  /\ UNCHANGED <<run, takes, files, told, cut, refused>>

TellReady(w) ==
  /\ worker[w].at = "telling"
  /\ told' = told \cup {"ready"}
  /\ Goto(w, Idle)
  /\ UNCHANGED <<run, takes, files, cut, refused>>

\* markFailed, which refuses what is settled; the requester is told of a failure anyway.
MarkFailed(w) ==
  /\ worker[w].at = "failing"
  /\ run' = IF ~run.deleted /\ run.status = "RUNNING" THEN [run EXCEPT !.status = "FAILED"] ELSE run
  /\ told' = told \cup {"failed"}
  /\ Goto(w, Idle)
  /\ UNCHANGED <<takes, files, cut, refused>>

\* That fails too, which is logged.
FailUnrecorded(w) ==
  /\ worker[w].at = "failing"
  /\ cut' = cut \cup {worker[w].take}
  /\ told' = told \cup {"failed"}
  /\ Goto(w, Idle)
  /\ UNCHANGED <<run, takes, files, refused>>

\* The process dies, or the database fails in a call that nothing catches.
Die(w) ==
  /\ worker[w] # Idle
  /\ cut' = cut \cup {worker[w].take}
  /\ Goto(w, Idle)
  /\ UNCHANGED <<run, takes, files, told, refused>>

Next ==
  \/ Cancel \/ SoftDelete
  \/ \E w \in Workers :
       \/ Take(w) \/ MarkRunning(w) \/ LateStart(w) \/ Upload(w) \/ MarkSucceeded(w)
       \/ Refuse(w) \/ Throw(w) \/ TellReady(w) \/ MarkFailed(w)
       \/ FailUnrecorded(w) \/ Die(w)

Spec == Init /\ [][Next]_vars

-----------------------------------------------------------------------------
(* Properties                                                              *)

Running == {w \in Workers : worker[w].at \in {"working", "attaching", "failing", "telling"}}

TypeOK ==
  /\ run.status \in {"PENDING", "RUNNING"} \cup Terminal /\ run.deleted \in BOOLEAN
  /\ run.file \in files \cup {NoFile}
  /\ takes \in 0 .. MaxTakes /\ files \subseteq 1 .. takes
  /\ \A w \in Workers : worker[w].at \in {"idle", "starting", "working", "attaching", "telling", "failing"}
  /\ told \subseteq {"ready", "failed"} /\ cut \subseteq 1 .. takes /\ refused \subseteq files

\* However often the job is taken, one worker runs the report, and a run that is RUNNING
\* has that worker, or lost it: then nobody takes it further.
OneWorkerRuns ==
  /\ Cardinality(Running) <= 1
  /\ run.status = "RUNNING" /\ ~run.deleted => Running # {} \/ cut # {}

\* A run that succeeded has its file, and a file without a run belongs to a take that was
\* under way, died or was refused.
FilesAreAttached ==
  /\ run.status = "SUCCEEDED" <=> run.file # NoFile
  /\ \A f \in files :
       f \in {run.file} \cup cut \cup refused \/ \E w \in Running : worker[w].take = f

\* The requester is told one thing: that his report is ready only of one that succeeded, and
\* that it failed only of one that did not, unless nobody could record that.
ToldTheTruth ==
  /\ "ready" \in told => run.status = "SUCCEEDED" /\ "failed" \notin told
  /\ "failed" \in told => run.status \in {"FAILED", "CANCELLED"} \/ run.deleted \/ cut # {}
=============================================================================
