------------------------- MODULE NotificationDelivery -------------------------
(***************************************************************************)
(* Delivering one queued notification (src/backend/src/core/notifications/ *)
(* notification-dispatcher): the outbox event of the message makes a send  *)
(* job, at least once; the handler of the job marks the message SENDING,   *)
(* calls the adapter of the channel, and records what came of it, with a   *)
(* new job for a later attempt when the adapter failed; an operator may    *)
(* cancel a message that is still queued.                                  *)
(*                                                                         *)
(* A status is written with the version the handler loaded. When another   *)
(* one has overtaken it, the handler reads the row again and writes with   *)
(* the version it finds, unless the status is final; the row is locked in  *)
(* between, so the second write cannot fail and the transition is atomic.  *)
(***************************************************************************)
EXTENDS Integers, FiniteSets

CONSTANTS
  Workers,        \* job handlers that may run at once
  MaxAttempts,    \* maxAttempts of the message
  MaxDeliveries,  \* bound on the deliveries of the outbox event
  MaxFaults       \* bound on crashes and errors of a handler

VARIABLES
  message,    \* status, version and attemptCount of the row
  event,      \* is the outbox event still to be delivered?
  deliveries, \* times the outbox event was delivered (history)
  jobs,       \* send jobs that wait to run
  worker,     \* worker[w] : where the handler is and the copy it loaded
  accepted,   \* times the provider accepted the message (history)
  faults,     \* crashes and errors so far
  dropped     \* has a crash dropped a job or an attempt? (history)

vars == <<message, event, deliveries, jobs, worker, accepted, faults, dropped>>

Status == {"QUEUED", "SENDING", "SENT", "DELIVERED", "FAILED", "CANCELLED", "DEAD_LETTER"}

TERMINAL_STATUSES == {"SENT", "DELIVERED", "CANCELLED", "DEAD_LETTER"}

Idle == [at |-> "idle", version |-> 0, attempts |-> 0]

Init ==
  /\ message = [status |-> "QUEUED", version |-> 1, attempts |-> 0]
  /\ event = TRUE /\ deliveries = 0 /\ jobs = 0
  /\ worker = [w \in Workers |-> Idle]
  /\ accepted = 0 /\ faults = 0 /\ dropped = FALSE

\* FAULT: whatever status the row has by now is overwritten.
Takes_Any(version) == TRUE

\* transitionStatusInTx: does the row take a status written with this version?
Takes(version) == message.version = version \/ message.status \notin TERMINAL_STATUSES

Write(status, attempts) ==
  [status |-> status, version |-> message.version + 1, attempts |-> attempts]

\* The handler returns, and its job is done.
Done(w) == worker' = [worker EXCEPT ![w] = Idle]

-----------------------------------------------------------------------------

\* The outbox handler inserts a send job; the event stays when it is to be
\* delivered again: marking it delivered is a write of its own.
Deliver ==
  /\ event /\ deliveries < MaxDeliveries
  /\ deliveries' = deliveries + 1 /\ jobs' = jobs + 1
  /\ event' \in (IF deliveries' < MaxDeliveries THEN BOOLEAN ELSE {FALSE})
  /\ UNCHANGED <<message, worker, accepted, faults, dropped>>

Cancel ==
  /\ message.status = "QUEUED"
  /\ message' = Write("CANCELLED", message.attempts)
  /\ UNCHANGED <<event, deliveries, jobs, worker, accepted, faults, dropped>>

\* loadMessage: a message that is neither queued nor failed is left alone.
Load(w) ==
  /\ worker[w].at = "idle" /\ jobs > 0
  /\ jobs' = jobs - 1
  /\ worker' = [worker EXCEPT ![w] =
                  IF message.status \in {"QUEUED", "FAILED"}
                  THEN [at |-> "loaded", version |-> message.version,
                        attempts |-> message.attempts]
                  ELSE Idle]
  /\ UNCHANGED <<message, event, deliveries, accepted, faults, dropped>>

\* The channel is disabled: the message is dead.
ChannelDisabled(w) ==
  /\ worker[w].at = "loaded"
  /\ message' = IF Takes(worker[w].version) THEN Write("DEAD_LETTER", message.attempts)
                ELSE message
  /\ Done(w)
  /\ UNCHANGED <<event, deliveries, jobs, accepted, faults, dropped>>

\* From here on the handler works with the row as this write left it.
StartSending(w) ==
  /\ worker[w].at = "loaded"
  /\ IF Takes(worker[w].version)
     THEN /\ message' = Write("SENDING", message.attempts)
          /\ worker' = [worker EXCEPT ![w] = [at |-> "sending", version |-> message'.version,
                                              attempts |-> message'.attempts]]
     ELSE Done(w) /\ UNCHANGED message
  /\ UNCHANGED <<event, deliveries, jobs, accepted, faults, dropped>>

Send(w) ==
  /\ worker[w].at = "sending"
  /\ \/ accepted' = accepted + 1 /\ worker' = [worker EXCEPT ![w].at = "accepted"]
     \/ accepted' = accepted /\ worker' = [worker EXCEPT ![w].at = "refused"]
  /\ UNCHANGED <<message, event, deliveries, jobs, faults, dropped>>

\* SENT, and at once DELIVERED when the provider says so; the second write uses
\* the version of the first.
RecordSuccess(w) ==
  /\ worker[w].at = "accepted"
  /\ \E status \in {"SENT", "DELIVERED"} :
       message' = IF Takes(worker[w].version)
                  THEN [status |-> status, attempts |-> message.attempts,
                        version |-> message.version + (IF status = "SENT" THEN 1 ELSE 2)]
                  ELSE message
  /\ Done(w)
  /\ UNCHANGED <<event, deliveries, jobs, accepted, faults, dropped>>

\* FAULT: the last attempt that is allowed is not followed by a job.
RecordFailure_OneShort(w) ==
  LET next == worker[w].attempts + 1
      retry == next < MaxAttempts
  IN /\ worker[w].at = "refused"
     /\ message' = IF Takes(worker[w].version)
                   THEN Write(IF retry THEN "FAILED" ELSE "DEAD_LETTER", next) ELSE message
     /\ jobs' = IF next + 1 < MaxAttempts THEN jobs + 1 ELSE jobs
     /\ Done(w)
     /\ UNCHANGED <<event, deliveries, accepted, faults, dropped>>

\* handleAdapterError: the attempts of the copy decide, and the job of the next
\* attempt is inserted whether or not the row took the status.
RecordFailure(w) ==
  LET next == worker[w].attempts + 1
      retry == next < MaxAttempts
  IN /\ worker[w].at = "refused"
     /\ message' = IF Takes(worker[w].version)
                   THEN Write(IF retry THEN "FAILED" ELSE "DEAD_LETTER", next) ELSE message
     /\ jobs' = IF retry THEN jobs + 1 ELSE jobs
     /\ Done(w)
     /\ UNCHANGED <<event, deliveries, accepted, faults, dropped>>

\* A write of the handler throws, or resolving the adapter does, and the job is
\* queued again; or the process dies and the job stays running for ever.
Fault(w) ==
  /\ worker[w].at # "idle" /\ faults < MaxFaults
  /\ faults' = faults + 1
  /\ \/ jobs' = jobs + 1 /\ dropped' = (dropped \/ worker[w].at # "loaded")
     \/ jobs' = jobs /\ dropped' = TRUE
  /\ Done(w)
  /\ UNCHANGED <<message, event, deliveries, accepted>>

Next ==
  \/ Deliver \/ Cancel
  \/ \E w \in Workers : \/ Load(w) \/ ChannelDisabled(w) \/ StartSending(w) \/ Send(w)
                        \/ RecordSuccess(w) \/ RecordFailure(w) \/ Fault(w)

Spec == Init /\ [][Next]_vars

-----------------------------------------------------------------------------

TypeOK ==
  /\ message \in [status : Status, version : Nat \ {0}, attempts : 0 .. MaxAttempts]
  /\ event \in BOOLEAN /\ dropped \in BOOLEAN
  /\ deliveries \in 0 .. MaxDeliveries /\ jobs \in Nat /\ accepted \in Nat
  /\ faults \in 0 .. MaxFaults
  /\ worker \in [Workers -> [at : {"idle", "loaded", "sending", "accepted", "refused"},
                             version : Nat, attempts : 0 .. MaxAttempts]]

\* A message that was cancelled is not handed to the provider, before or after,
\* by whichever handler had loaded it while it was queued; and no write of such a
\* handler takes the cancellation back.
CancelledIsNeverSent ==
  [][message.status = "CANCELLED" \/ message'.status = "CANCELLED" =>
       /\ message'.status = "CANCELLED" /\ accepted' = 0
       /\ \A w \in Workers : worker'[w].at \in {"idle", "loaded"}]_vars

\* A message that is not settled has somebody who will take it further: the
\* outbox event, a job, or a handler that holds it, as long as no crash or error
\* took one of them away. No error path forgets a message.
UnsentIsCarried ==
  \/ dropped
  \/ message.status \in TERMINAL_STATUSES
  \/ message.status = "SENDING" /\ \E w \in Workers : worker[w].at \notin {"idle", "loaded"}
  \/ message.status # "SENDING" /\ (event \/ jobs > 0 \/ \E w \in Workers : worker[w].at # "idle")

\* notification-queued.outbox-handler.ts: "the idempotency story relies on the
\* send job being safe to no-op when the underlying NotificationMessage has
\* already moved past QUEUED".
SentOnce == accepted <= 1
=============================================================================
