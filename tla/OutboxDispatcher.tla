-------------------------- MODULE OutboxDispatcher --------------------------
(***************************************************************************)
(* The transactional outbox and its dispatcher (src/backend/src/core/      *)
(* outbox).  A business transaction inserts an event row; a timer in every *)
(* API replica claims a batch of pending rows, runs the handler of each    *)
(* row's topic and writes the outcome back.  The dispatcher works on the   *)
(* copies of the rows the claim returned, so what it writes may rest on a  *)
(* copy another replica has overtaken.                                     *)
(*                                                                         *)
(* The claim is a transaction at REPEATABLE READ: its first SELECT fixes   *)
(* the snapshot, its UPDATE acts on the current rows, and its second       *)
(* SELECT returns the rows it updated as it left them and all the others   *)
(* as they were in the snapshot.  No SELECT locks a row.                   *)
(***************************************************************************)
EXTENDS Integers, FiniteSets, Functions

CONSTANTS
  Events,       \* ids of outbox rows
  Handled,      \* events whose topic has a registered handler
  Processes,    \* API replicas that run the dispatcher
  Ticks,        \* invocations of the interval callback
  ProcessOf,    \* ProcessOf[t] : the process whose timer fires tick t
  BatchSize,    \* OUTBOX_DISPATCH_BATCH_SIZE
  MaxAttempts,  \* OUTBOX_MAX_ATTEMPTS
  MaxReplays,   \* bound on the replays by operators, of all events together
  ClaimMayFail, \* may the claiming transaction fail (time-out, deadlock victim)?
  MaxAborts,    \* bound on the ticks cut short by a crash or a database error
  NoEvent       \* the event of a tick that dispatches none

ASSUME DispatcherAssumption ==
  /\ IsFiniteSet(Events) /\ Handled \subseteq Events /\ NoEvent \notin Events
  /\ ProcessOf \in [Ticks -> Processes]
  /\ BatchSize \in Nat \ {0} /\ MaxAttempts \in Nat \ {0}
  /\ MaxReplays \in Nat /\ MaxAborts \in Nat /\ ClaimMayFail \in BOOLEAN

VARIABLES
  row,       \* row[e]  : status and attempts of the outbox row, whether it is due
  tick,      \* tick[t] : where the callback is, the copies it holds, its outcome
  handled,   \* events whose handler has succeeded (history)
  stranded,  \* events left claimed by a tick that was cut short (history)
  replays,   \* replays[e] : times an operator has replayed e (history)
  aborts     \* ticks cut short so far

vars == <<row, tick, handled, stranded, replays, aborts>>

-----------------------------------------------------------------------------

Status == {"absent", "pending", "claimed", "delivered", "failed", "dead"}

Settled == {"delivered", "failed", "dead"}

\* copies[e] is the attempts column of e as the claim returned it.
IsTick(k) ==
  /\ k = [at |-> k.at, copies |-> k.copies, event |-> k.event, outcome |-> k.outcome]
  /\ k.at \in {"idle", "claim", "dispatch", "mark"}
  /\ DOMAIN k.copies \subseteq Events /\ k.copies \in [DOMAIN k.copies -> Nat]
  /\ k.event \in Events \cup {NoEvent}
  /\ k.at = "mark" => k.event \in Events
  /\ k.outcome \in {"none", "succeeded", "failed"}

NoCopies == [e \in {} |-> 0]

IdleTick == [at |-> "idle", copies |-> NoCopies, event |-> NoEvent, outcome |-> "none"]

Init ==
  /\ row = [e \in Events |-> [status |-> "absent", attempts |-> 0, due |-> TRUE]]
  /\ tick = [t \in Ticks |-> IdleTick]
  /\ handled = {}
  /\ stranded = {}
  /\ replays = [e \in Events |-> 0]
  /\ aborts = 0

Candidates == {e \in Events : row[e].status = "pending" /\ row[e].due}

\* What `take: batchSize` may return of the candidates.
Batches ==
  {b \in SUBSET Candidates :
     Cardinality(b) = IF Cardinality(Candidates) < BatchSize
                      THEN Cardinality(Candidates) ELSE BatchSize}

Copies(es) == [e \in es |-> row[e].attempts]

\* A tick that holds the copies c and is about to dispatch one of them, if any.
Holding(c) == IF DOMAIN c = {} THEN IdleTick
              ELSE [at |-> "dispatch", copies |-> c, event |-> NoEvent, outcome |-> "none"]

\* FAULT: Exhausted that counts the attempt under way once more.
Exhausted_OneEarly(n) == n + 1 >= MaxAttempts

\* Does a copy with n attempts send the row to the dead letters when it fails?
Exhausted(n) == n >= MaxAttempts

-----------------------------------------------------------------------------
(* Steps.  A definition whose comment says FAULT is never used: it is the  *)
(* definition after it with one plausible slip, kept to show that the      *)
(* property PROJECT.json names with it would notice.                       *)

\* The transaction of a business operation commits with its event.
Publish(e) ==
  /\ row[e].status = "absent"
  /\ row' = [row EXCEPT ![e].status = "pending"]
  /\ UNCHANGED <<tick, handled, stranded, replays, aborts>>

\* FAULT: Select of a timer that does not look whether the last tick is draining.
Select_NotDraining(t) ==
  /\ tick[t].at = "idle"
  /\ Candidates # {}
  /\ \E b \in Batches :
       tick' = [tick EXCEPT ![t] = [at |-> "claim", copies |-> Copies(b),
                                    event |-> NoEvent, outcome |-> "none"]]
  /\ UNCHANGED <<row, handled, stranded, replays, aborts>>

\* The timer fires while no tick of the process is draining: claimBatch takes
\* its snapshot and reads the candidates.
Select(t) ==
  /\ tick[t].at = "idle"
  /\ \A u \in Ticks : ProcessOf[u] = ProcessOf[t] => tick[u].at = "idle"
  /\ Candidates # {}
  /\ \E b \in Batches :
       tick' = [tick EXCEPT ![t] = [at |-> "claim", copies |-> Copies(b),
                                    event |-> NoEvent, outcome |-> "none"]]
  /\ UNCHANGED <<row, handled, stranded, replays, aborts>>

\* FAULT: Claim whose update does not name the status pending again.
Claim_AnyStatus(t) ==
  LET es == DOMAIN tick[t].copies
  IN  /\ tick[t].at = "claim"
      /\ row' = [e \in Events |->
                   IF e \in es THEN [row[e] EXCEPT !.status = "claimed", !.attempts = @ + 1]
                   ELSE row[e]]
      /\ tick' = [tick EXCEPT ![t] = Holding([e \in es |-> row'[e].attempts])]
      /\ stranded' = stranded \ es
      /\ UNCHANGED <<handled, replays, aborts>>

\* The claim commits: rows still pending become this tick's, and every candidate
\* is returned, the rows another replica has claimed meanwhile included.
Claim(t) ==
  LET es == DOMAIN tick[t].copies
      mine == {e \in es : row[e].status = "pending"}
  IN  /\ tick[t].at = "claim"
      /\ row' = [e \in Events |->
                   IF e \in mine THEN [row[e] EXCEPT !.status = "claimed", !.attempts = @ + 1]
                   ELSE row[e]]
      /\ tick' = [tick EXCEPT ![t] =
                    Holding([e \in es |-> IF e \in mine THEN row[e].attempts + 1
                                          ELSE tick[t].copies[e]])]
      /\ stranded' = stranded \ mine
      /\ UNCHANGED <<handled, replays, aborts>>

\* The claiming transaction fails and the fallback returns rows it does not claim.
ClaimFallsBack(t) ==
  /\ ClaimMayFail
  /\ tick[t].at = "claim"
  /\ \E b \in Batches : tick' = [tick EXCEPT ![t] = Holding(Copies(b))]
  /\ UNCHANGED <<row, handled, stranded, replays, aborts>>

\* Look up the handler of the next row and await it.
Dispatch(t) ==
  /\ tick[t].at = "dispatch"
  /\ \E e \in DOMAIN tick[t].copies, outcome \in {"succeeded", "failed"} :
       /\ outcome = "succeeded" => e \in Handled
       /\ tick' = [tick EXCEPT ![t] = [at |-> "mark", copies |-> tick[t].copies,
                                       event |-> e, outcome |-> outcome]]
       /\ handled' = IF outcome = "succeeded" THEN handled \cup {e} ELSE handled
  /\ UNCHANGED <<row, stranded, replays, aborts>>

\* The tick is done with its event and goes on with the rest of the batch.
Advance(t) ==
  tick' = [tick EXCEPT ![t] =
             Holding(Restrict(tick[t].copies, DOMAIN tick[t].copies \ {tick[t].event}))]

\* FAULT: MarkDelivered that settles every row of the batch at the first success.
MarkDelivered_WholeBatch(t) ==
  /\ tick[t].at = "mark" /\ tick[t].outcome = "succeeded"
  /\ row' = [e \in Events |-> IF e \in DOMAIN tick[t].copies
                              THEN [row[e] EXCEPT !.status = "delivered"] ELSE row[e]]
  /\ Advance(t)
  /\ UNCHANGED <<handled, stranded, replays, aborts>>

MarkDelivered(t) ==
  /\ tick[t].at = "mark" /\ tick[t].outcome = "succeeded"
  /\ row' = [row EXCEPT ![tick[t].event].status = "delivered"]
  /\ Advance(t)
  /\ UNCHANGED <<handled, stranded, replays, aborts>>

\* markDelivered throws, before or after it took effect: the catch block takes the
\* success for a failure.
MarkDeliveredThrows(t) ==
  /\ tick[t].at = "mark" /\ tick[t].outcome = "succeeded"
  /\ \/ row' = row
     \/ row' = [row EXCEPT ![tick[t].event].status = "delivered"]
  /\ tick' = [tick EXCEPT ![t].outcome = "failed"]
  /\ UNCHANGED <<handled, stranded, replays, aborts>>

\* FAULT: MarkFailed that forgets to write the status of a row that may be retried.
MarkFailed_StatusKept(t) ==
  LET e == tick[t].event
      dead == Exhausted(tick[t].copies[e])
  IN  /\ tick[t].at = "mark" /\ tick[t].outcome = "failed"
      /\ row' = [row EXCEPT ![e].status = IF dead THEN "dead" ELSE @, ![e].due = dead]
      /\ Advance(t)
      /\ UNCHANGED <<handled, stranded, replays, aborts>>

\* The copy, not the row, says how many attempts were made.  A row that is not
\* dead gets a next attempt after the back-off.
MarkFailed(t) ==
  LET e == tick[t].event
      dead == Exhausted(tick[t].copies[e])
  IN  /\ tick[t].at = "mark" /\ tick[t].outcome = "failed"
      /\ row' = [row EXCEPT ![e].status = IF dead THEN "dead" ELSE "failed", ![e].due = dead]
      /\ Advance(t)
      /\ UNCHANGED <<handled, stranded, replays, aborts>>

\* The process dies, or a database error escapes the tick: the rest of the batch
\* is dropped as it stands.
Abort(t) ==
  /\ tick[t].at # "idle"
  /\ aborts < MaxAborts
  /\ aborts' = aborts + 1
  /\ stranded' = IF tick[t].at = "claim" THEN stranded
                 ELSE stranded \cup {e \in DOMAIN tick[t].copies : row[e].status = "claimed"}
  /\ tick' = [tick EXCEPT ![t] = IdleTick]
  /\ UNCHANGED <<row, handled, replays>>

\* The back-off of a row is over.
Elapse(e) ==
  /\ ~row[e].due
  /\ row' = [row EXCEPT ![e].due = TRUE]
  /\ UNCHANGED <<tick, handled, stranded, replays, aborts>>

\* FAULT: Replay that writes the status the job queue uses.
Replay_Queued(e) ==
  /\ row[e].status \in Settled
  /\ SumFunction(replays) < MaxReplays
  /\ row' = [row EXCEPT ![e].status = "queued", ![e].due = TRUE]
  /\ replays' = [replays EXCEPT ![e] = @ + 1]
  /\ UNCHANGED <<tick, handled, stranded, aborts>>

\* An operator puts a settled event back in the queue; its attempts stay.
Replay(e) ==
  /\ row[e].status \in Settled
  /\ SumFunction(replays) < MaxReplays
  /\ row' = [row EXCEPT ![e].status = "pending", ![e].due = TRUE]
  /\ replays' = [replays EXCEPT ![e] = @ + 1]
  /\ UNCHANGED <<tick, handled, stranded, aborts>>

\* One step of a tick that runs undisturbed.
Step(t) == \/ Select(t) \/ Claim(t) \/ ClaimFallsBack(t)
           \/ Dispatch(t) \/ MarkDelivered(t) \/ MarkDeliveredThrows(t) \/ MarkFailed(t)

Next == \/ \E t \in Ticks : Step(t) \/ Abort(t)
        \/ \E e \in Events : Publish(e) \/ Elapse(e) \/ Replay(e)

\* The timer of a live process fires again and again, handlers and database calls
\* return, and time passes.  Nothing makes an operator replay an event.
Fairness ==
  /\ \A p \in Processes : WF_vars(\E t \in Ticks : ProcessOf[t] = p /\ Step(t))
  /\ \A e \in Events : WF_vars(Elapse(e))

Spec == Init /\ [][Next]_vars

FairSpec == Spec /\ Fairness

-----------------------------------------------------------------------------
(* Correctness                                                             *)

\* Every variable keeps its type.
TypeOK ==
  /\ row \in [Events -> [status : Status, attempts : Nat, due : BOOLEAN]]
  /\ tick = [t \in Ticks |-> tick[t]] /\ \A t \in Ticks : IsTick(tick[t])
  /\ handled \subseteq Handled
  /\ stranded \subseteq Events
  /\ replays \in [Events -> Nat]
  /\ aborts \in 0..MaxAborts

\* The copies tick t dispatches.
Held(t) == IF tick[t].at \in {"dispatch", "mark"} THEN DOMAIN tick[t].copies ELSE {}

\* A row is dead only once it was claimed as often as the configuration allows,
\* however stale the copy is that the failing dispatcher decided on.
DeadWasExhausted ==
  \A e \in Events : row[e].status = "dead" => row[e].attempts >= MaxAttempts

\* An event counts as delivered only if its handler succeeded, whichever of the
\* ticks that hold a copy of it wrote last.
DeliveredWasHandled ==
  \A e \in Events : row[e].status = "delivered" => e \in handled

\* A claimed row has a tick that will still write its outcome, or lost it to an abort.
ClaimedIsHeld ==
  \A e \in Events : row[e].status = "claimed" =>
    e \in stranded \/ \E t \in Ticks : e \in Held(t)

\* The attempts of a row count its claims: one for the publication and one for
\* every replay, since a failed row is not claimed again by itself.
OneAttemptPerRequest ==
  \A e \in Events : row[e].attempts <= replays[e] + 1

\* The timer callbacks of one process never work on the same event together.
ProcessHoldsOnce ==
  \A t, u \in Ticks :
    t # u /\ ProcessOf[t] = ProcessOf[u] => Held(t) \cap Held(u) = {}

\* A pending event is settled, unless a tick is cut short while it has it claimed.
PendingIsSettled ==
  \A e \in Events :
    row[e].status = "pending" ~> row[e].status \in Settled \/ e \in stranded

\* What the dispatcher's comment promises of several replicas: a claim returns
\* rows that this dispatcher now owns, so no two of them dispatch the same event.
ClaimOwnsItsRows ==
  \A t, u \in Ticks : t # u => Held(t) \cap Held(u) = {}

\* What the dispatcher's comment promises of a transient failure: the event is
\* tried again after a back-off.
FailedIsRetried ==
  \A e \in Events : row[e].status = "failed" ~> row[e].status # "failed"

-----------------------------------------------------------------------------
(* The promise to publishers and subscribers                               *)

\* A row, for those who do not look inside the dispatcher.
QueueState ==
  [e \in Events |->
     CASE row[e].status = "pending" -> "waiting"
       [] row[e].status = "claimed" -> "taken"
       [] row[e].status = "dead" -> "failed"
       [] OTHER -> row[e].status]

Queue == INSTANCE AtLeastOnceQueue WITH Items <- Events, state <- QueueState

\* Whatever replicas, stale copies, fallback claims, crashes and replays do, the
\* dispatcher is an at-least-once queue: nothing is handled before it is published,
\* delivered before it is handled, or offered again before it is settled.
ImplementsQueue == Queue!Spec
=============================================================================
