------------------------------ MODULE MCPipelines ------------------------------
(***************************************************************************)
(* The two pipelines that work must not get stuck in, on small sets, for   *)
(* TLC: the job queue and the path of a request. They share no state; in a *)
(* behaviour one of them runs and the other stands still.                  *)
(***************************************************************************)
EXTENDS JobQueue, RequestPipeline

CONSTANTS j1, a, b, r1, r2, r3, k, b1, b2

VARIABLE component

\* Two requests under one key, of which the second reads before it takes its number, and
\* one request without a key; the second has the body of the first, or another.
Key == [r \in Requests |-> IF r = r3 THEN None ELSE k]
Body == {[r \in Requests |-> b1], [r \in Requests |-> IF r = r2 THEN b2 ELSE b1]}

PipelinesInit ==
  /\ component \in {"jobs", "requests"} /\ Init /\ RequestInit
  /\ component = "jobs" => body = [r \in Requests |-> b1]

Working(name, A) == component = name /\ A /\ UNCHANGED component

PipelinesNext ==
  \/ Working("jobs", Next) /\ UNCHANGED requestVars
  \/ Working("requests", RequestNext) /\ UNCHANGED vars

\* The one that runs is scheduled as its module says.
PipelinesSpec ==
  /\ PipelinesInit /\ [][PipelinesNext]_<<component, vars, requestVars>>
  /\ \A w \in Workers : WF_vars(Working("jobs", Step(w)))
  /\ \A j \in Jobs : WF_vars(Working("jobs", Elapse(j)))
  /\ \A r \in Requests : WF_requestVars(Working("requests", Proceed(r)))

-----------------------------------------------------------------------------

\* A job that is queued is settled in the end, but for failures that drop it.
JobsAreSettled ==
  \A j \in Jobs : component = "jobs" /\ job[j].status = "queued" ~> Settled(j)
=============================================================================
