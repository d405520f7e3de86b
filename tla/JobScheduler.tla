----------------------------- MODULE JobScheduler -----------------------------
(***************************************************************************)
(* Scheduled jobs (src/backend/src/core/jobs/services/job-scheduler.       *)
(* service.ts): a timer in every API replica, which fires more than once a *)
(* minute, lists the active definitions and enqueues a job for each whose  *)
(* cron expression matches the minute in which the tick began.             *)
(*                                                                         *)
(* What has fired is remembered in the memory of the replica only, so a    *)
(* second replica, or a restart within the minute, fires again: the code   *)
(* runs one scheduler until a leader lock exists. What one replica does    *)
(* between two restarts is the subject here. Every definition has its own  *)
(* entry in that memory, so the definitions do not meet: one is modelled.  *)
(***************************************************************************)
EXTENDS Integers, Sequences

CONSTANTS
  Callbacks,   \* invocations of the interval callback that may overlap
  Matching,    \* minutes the cron expression matches
  LastMinute   \* bound on the clock

VARIABLES
  minute,     \* the minute of the clock
  draining,   \* is a tick under way?
  tick,       \* tick[c] : where the callback is and the minute in which it began
  lastFired,  \* the minute of the last job that was enqueued, or Never
  jobs,       \* the minutes for which this replica has inserted a job (history)
  unsure      \* minutes in which an enqueue threw after it took effect (history)

vars == <<minute, draining, tick, lastFired, jobs, unsure>>

Never == -1

IdleTick == [at |-> "idle", now |-> 0]

Init ==
  /\ minute = 0 /\ draining = FALSE
  /\ tick = [c \in Callbacks |-> IdleTick]
  /\ lastFired = Never /\ jobs = <<>> /\ unsure = {}

TimePasses ==
  /\ minute < LastMinute
  /\ minute' = minute + 1
  /\ UNCHANGED <<draining, tick, lastFired, jobs, unsure>>

\* FAULT: the timer does not look whether the last tick is under way.
Begin_Overlapping(c) ==
  /\ tick[c].at = "idle"
  /\ draining' = TRUE
  /\ tick' = [tick EXCEPT ![c] = [at |-> "listed", now |-> minute]]
  /\ UNCHANGED <<minute, lastFired, jobs, unsure>>

\* tickSafe: the tick takes its time and lists the active definitions.
Begin(c) ==
  /\ tick[c].at = "idle" /\ ~draining
  /\ draining' = TRUE
  /\ tick' = [tick EXCEPT ![c] = [at |-> "listed", now |-> minute]]
  /\ UNCHANGED <<minute, lastFired, jobs, unsure>>

ShouldFire(now) == lastFired # now /\ now \in Matching

End(c) ==
  /\ draining' = FALSE
  /\ tick' = [tick EXCEPT ![c] = IdleTick]

\* The definition is not active, or it should not fire.
Skip(c) ==
  /\ tick[c].at = "listed"
  /\ End(c)
  /\ UNCHANGED <<minute, lastFired, jobs, unsure>>

\* The enqueue is awaited.
Fire(c) ==
  /\ tick[c].at = "listed" /\ ShouldFire(tick[c].now)
  /\ tick' = [tick EXCEPT ![c].at = "enqueue"]
  /\ UNCHANGED <<minute, draining, lastFired, jobs, unsure>>

\* It inserts a job ...
Enqueued(c) ==
  /\ tick[c].at = "enqueue"
  /\ jobs' = Append(jobs, tick[c].now)
  /\ lastFired' = tick[c].now
  /\ End(c)
  /\ UNCHANGED <<minute, unsure>>

\* ... or throws, with or without effect, and the next tick tries again.
EnqueueThrows(c) ==
  /\ tick[c].at = "enqueue"
  /\ \/ UNCHANGED <<jobs, unsure>>
     \/ /\ tick[c].now \notin unsure
        /\ jobs' = Append(jobs, tick[c].now)
        /\ unsure' = unsure \cup {tick[c].now}
  /\ End(c)
  /\ UNCHANGED <<minute, lastFired>>

Next ==
  \/ TimePasses
  \/ \E c \in Callbacks : Begin(c) \/ Skip(c) \/ Fire(c) \/ Enqueued(c) \/ EnqueueThrows(c)

Spec == Init /\ [][Next]_vars

-----------------------------------------------------------------------------

TypeOK ==
  /\ minute \in 0 .. LastMinute /\ draining \in BOOLEAN
  /\ tick \in [Callbacks -> [at : {"idle", "listed", "enqueue"}, now : 0 .. LastMinute]]
  /\ lastFired \in {Never} \cup Matching
  /\ jobs \in Seq(Matching) /\ unsure \subseteq Matching

\* However slow the database is and wherever the minutes turn, one scheduler
\* inserts one job per matching minute, in the order of the minutes; only an
\* enqueue that threw after it took effect is repeated.
FiresOncePerMinute ==
  \A i, j \in DOMAIN jobs :
    i < j => jobs[i] < jobs[j] \/ (jobs[i] = jobs[j] /\ jobs[i] \in unsure)
=============================================================================
