---------------------------- MODULE RequestPipeline ----------------------------
(***************************************************************************)
(* What the server does around one write request: the idempotency          *)
(* middleware (core/idempotency), then the handler's transaction, which    *)
(* takes a number from a tenant sequence (core/sequences) and appends a    *)
(* row to the audit trail of its school and category (core/audit), and the *)
(* response, whose outcome is stored under the key.                        *)
(*                                                                         *)
(* The middleware runs before the guards bind the tenant, so every key is  *)
(* reserved with a NULL school: the unique index on (school_id, key) never *)
(* refuses a second reservation.  All requests are of one school, take     *)
(* their number from one sequence and write one category of audit row.     *)
(***************************************************************************)
EXTENDS Naturals, FiniteSets, SequencesExt

CONSTANTS
    Requests,    \* the write requests that arrive
    KeyOf,       \* the Idempotency-Key header of a request, None without one
    Bodies,      \* what the requests may carry: each member gives every request a body
    ReadsFirst,  \* those whose transaction reads a table before it takes its number
    None

ASSUME RequestAssumption == IsFiniteSet(Requests) /\ None \notin Requests

VARIABLES
    body,       \* the fingerprint of a request's method, path and body
    stage,      \* how far each request is
    row,        \* the status of the idempotency_keys row a request reserved
    order,      \* the requests whose rows were created, oldest first
    lapsed,     \* how many of the oldest rows are past their expires_at
    base,       \* how many rows there were when a request's lookup missed
    hungUp,     \* the requests whose client went away before the response
    served,     \* the request whose stored response was replayed to a request
    last,       \* last_value of the tenant_sequences row, as committed
    holder,     \* the transaction that holds the lock on that row
    number,     \* the number a transaction took, 0 before
    committed,  \* the requests whose transaction committed
    view,       \* the commits a transaction's snapshot shows; None before and after its reads
    trail,      \* the audit rows, in the order of created_at; open transactions' too
    prev        \* prev_hash: the request whose audit row it names, None for the first

keyVars == <<row, order, lapsed, base, hungUp, served>>
sequenceVars == <<last, holder, number>>
auditVars == <<view, trail, prev>>
requestVars == <<body, stage, keyVars, sequenceVars, committed, auditVars>>

InTransaction == {"open", "numbered", "audited"}
Handling == {"handling"} \cup InTransaction \cup {"done"}
Final == {"answered", "replayed", "refused", "dead"}

RequestTypeOK ==
    /\ body \in Bodies
    /\ stage \in [Requests -> {"new", "missed"} \cup Handling \cup Final]
    /\ row \in [Requests -> {"absent", "in_progress", "completed", "failed", "deleted"}]
    /\ order \in Seq(Requests) /\ IsInjective(order)
    /\ lapsed \in 0..Len(order)
    /\ base \in [Requests -> 0..Len(order)]
    /\ hungUp \subseteq Requests
    /\ served \in [Requests -> Requests \cup {None}]
    /\ last \in 0..Cardinality(Requests)
    /\ holder \in Requests \cup {None}
    /\ number \in [Requests -> 0..Cardinality(Requests)]
    /\ committed \subseteq Requests
    /\ view \in [Requests -> (SUBSET Requests) \cup {None}]
    /\ trail \in Seq(Requests) /\ IsInjective(trail)
    /\ prev \in [Requests -> Requests \cup {None}]

RequestInit ==
    /\ body \in Bodies
    /\ stage = [r \in Requests |-> "new"]
    /\ row = [r \in Requests |-> "absent"]
    /\ order = <<>> /\ lapsed = 0
    /\ base = [r \in Requests |-> 0]
    /\ hungUp = {}
    /\ served = [r \in Requests |-> None]
    /\ last = 0 /\ holder = None
    /\ number = [r \in Requests |-> 0]
    /\ committed = {}
    /\ view = [r \in Requests |-> None]
    /\ trail = <<>>
    /\ prev = [r \in Requests |-> None]

-----------------------------------------------------------------------------
(* The middleware. *)

To(r, s) == stage' = [stage EXCEPT ![r] = s] /\ UNCHANGED body

\* FAULT: a row still in progress does not count as a hit.
Active_Stored(r) == {n \in (lapsed + 1)..Len(order) :
                        KeyOf[order[n]] = KeyOf[r] /\ row[order[n]] \in {"completed", "failed"}}

\* findActive: the rows of the key that have not expired; it takes the newest.
Active(r) == {n \in (lapsed + 1)..Len(order) :
                 KeyOf[order[n]] = KeyOf[r] /\ row[order[n]] # "deleted"}
Existing(r) == order[Max(Active(r))]

\* No header, or a lookup that throws (logged): the handler runs without a key.
PassThrough(r) ==
    /\ stage[r] = "new"
    /\ To(r, "handling")
    /\ UNCHANGED <<keyVars, sequenceVars, committed, auditVars>>

Miss(r) ==
    /\ stage[r] = "new" /\ KeyOf[r] # None
    /\ Active(r) = {}
    /\ To(r, "missed")
    /\ base' = [base EXCEPT ![r] = Len(order)]
    /\ UNCHANGED <<row, order, lapsed, hungUp, served, sequenceVars, committed, auditVars>>

\* 409: another body under the key, or its first request is still in progress.
Refuse(r) ==
    /\ stage[r] = "new" /\ KeyOf[r] # None
    /\ Active(r) # {}
    /\ body[Existing(r)] # body[r] \/ row[Existing(r)] = "in_progress"
    /\ To(r, "refused")
    /\ UNCHANGED <<keyVars, sequenceVars, committed, auditVars>>

\* A stored failure is replayed like a stored success.
Replay(r) ==
    /\ stage[r] = "new" /\ KeyOf[r] # None
    /\ Active(r) # {}
    /\ body[Existing(r)] = body[r] /\ row[Existing(r)] # "in_progress"
    /\ To(r, "replayed")
    /\ served' = [served EXCEPT ![r] = Existing(r)]
    /\ UNCHANGED <<row, order, lapsed, base, hungUp, sequenceVars, committed, auditVars>>

\* A separate statement, after the lookup.
Reserve(r) ==
    /\ stage[r] = "missed"
    /\ To(r, "handling")
    /\ row' = [row EXCEPT ![r] = "in_progress"]
    /\ order' = Append(order, r)
    /\ UNCHANGED <<lapsed, base, hungUp, served, sequenceVars, committed, auditVars>>

\* The socket closes before the response was written; the handler goes on.
HangUp(r) ==
    /\ stage[r] \in Handling /\ row[r] # "absent" /\ r \notin hungUp
    /\ hungUp' = hungUp \cup {r}
    /\ UNCHANGED <<body, stage, row, order, lapsed, base, served, sequenceVars, committed, auditVars>>

\* releaseReservation, not awaited: it may come late, or fail and never come.
Release(r) ==
    /\ r \in hungUp /\ row[r] = "in_progress" /\ stage[r] # "dead"
    /\ row' = [row EXCEPT ![r] = "deleted"]
    /\ UNCHANGED <<body, stage, order, lapsed, base, hungUp, served, sequenceVars, committed, auditVars>>

\* The response is written; 'finish' starts the store of its outcome.
Answer(r) ==
    /\ stage[r] = "done"
    /\ To(r, "answered")
    /\ UNCHANGED <<keyVars, sequenceVars, committed, auditVars>>

\* complete, not awaited: 'failed' for a 5xx, 'completed' for everything else.
Store(r) ==
    /\ stage[r] = "answered" /\ r \notin hungUp /\ row[r] = "in_progress"
    /\ \E status \in {"completed"} \cup (IF r \in committed THEN {} ELSE {"failed"}) :
          row' = [row EXCEPT ![r] = status]
    /\ UNCHANGED <<body, stage, order, lapsed, base, hungUp, served, sequenceVars, committed, auditVars>>

\* 24 hours after its creation; a request does not last that long.
Expire ==
    /\ lapsed < Len(order)
    /\ stage[order[lapsed + 1]] \in Final
    /\ lapsed' = lapsed + 1
    /\ UNCHANGED <<body, stage, row, order, base, hungUp, served, sequenceVars, committed, auditVars>>

-----------------------------------------------------------------------------
(* The handler's transaction, under REPEATABLE READ. *)

\* A plain read before the number: the snapshot of the transaction is taken here.
ReadFirst(r) ==
    /\ stage[r] = "handling" /\ r \in ReadsFirst
    /\ To(r, "open")
    /\ view' = [view EXCEPT ![r] = committed]
    /\ UNCHANGED <<keyVars, sequenceVars, committed, trail, prev>>

\* FAULT: the counter is incremented in a transaction of its own.
Allocate_Alone(r) ==
    /\ stage[r] = (IF r \in ReadsFirst THEN "open" ELSE "handling")
    /\ To(r, "numbered")
    /\ last' = last + 1
    /\ number' = [number EXCEPT ![r] = last + 1]
    /\ UNCHANGED <<keyVars, holder, committed, auditVars>>

\* allocateNext: the UPDATE waits for the row lock and keeps it until the end.
Allocate(r) ==
    /\ stage[r] = (IF r \in ReadsFirst THEN "open" ELSE "handling")
    /\ holder = None
    /\ To(r, "numbered")
    /\ holder' = r
    /\ number' = [number EXCEPT ![r] = last + 1]
    /\ UNCHANGED <<keyVars, last, committed, auditVars>>

\* FinanceChainService.compute: the newest row of the snapshot, read without a lock.
ChainHead(r) ==
    LET seen == IF view[r] = None THEN committed ELSE view[r]
        rows == {n \in 1..Len(trail) : trail[n] \in seen}
    IN  IF rows = {} THEN None ELSE trail[Max(rows)]

AppendAudit(r) ==
    /\ stage[r] = "numbered"
    /\ prev' = [prev EXCEPT ![r] = ChainHead(r)]
    /\ trail' = Append(trail, r)
    /\ view' = [view EXCEPT ![r] = None]
    /\ To(r, "audited")
    /\ UNCHANGED <<keyVars, sequenceVars, committed>>

\* FAULT: the number is added to the counter.
Commit_Adds(r) ==
    /\ stage[r] = "audited"
    /\ To(r, "done")
    /\ committed' = committed \cup {r}
    /\ last' = last + number[r]
    /\ holder' = None
    /\ UNCHANGED <<keyVars, number, auditVars>>

Commit(r) ==
    /\ stage[r] = "audited"
    /\ To(r, "done")
    /\ committed' = committed \cup {r}
    /\ last' = number[r]
    /\ holder' = None
    /\ UNCHANGED <<keyVars, number, auditVars>>

\* FAULT: the counter keeps the increment of a transaction that rolls back.
Undo_KeepsCount(r) ==
    /\ trail' = RemoveFirst(trail, r)
    /\ last' = IF holder = r THEN number[r] ELSE last
    /\ number' = [number EXCEPT ![r] = 0]
    /\ holder' = IF holder = r THEN None ELSE holder
    /\ view' = [view EXCEPT ![r] = None]
    /\ prev' = [prev EXCEPT ![r] = None]
    /\ UNCHANGED committed

\* FAULT: the lock on the counter survives the transaction.
Undo_KeepsLock(r) ==
    /\ trail' = RemoveFirst(trail, r)
    /\ number' = [number EXCEPT ![r] = 0]
    /\ view' = [view EXCEPT ![r] = None]
    /\ prev' = [prev EXCEPT ![r] = None]
    /\ UNCHANGED <<last, holder, committed>>

\* What the end of an uncommitted transaction undoes: its row, its number, its lock.
Undo(r) ==
    /\ trail' = RemoveFirst(trail, r)
    /\ number' = [number EXCEPT ![r] = 0]
    /\ holder' = IF holder = r THEN None ELSE holder
    /\ view' = [view EXCEPT ![r] = None]
    /\ prev' = [prev EXCEPT ![r] = None]
    /\ UNCHANGED <<last, committed>>

\* The handler throws, before its transaction or in it; the response is an error.
Fail(r) ==
    /\ stage[r] \in {"handling"} \cup InTransaction
    /\ To(r, "done")
    /\ Undo(r)
    /\ UNCHANGED keyVars

\* The process stops.  The database ends the transaction; the key stays in progress.
Crash(r) ==
    /\ stage[r] \in {"missed"} \cup Handling
    /\ To(r, "dead")
    /\ IF stage[r] \in InTransaction THEN Undo(r)
       ELSE UNCHANGED <<sequenceVars, committed, auditVars>>
    /\ UNCHANGED keyVars

-----------------------------------------------------------------------------

RequestNext ==
    \/ \E r \in Requests :
          \/ PassThrough(r) \/ Miss(r) \/ Refuse(r) \/ Replay(r) \/ Reserve(r)
          \/ HangUp(r) \/ Release(r) \/ Answer(r) \/ Store(r)
          \/ ReadFirst(r) \/ Allocate(r) \/ AppendAudit(r) \/ Commit(r) \/ Fail(r) \/ Crash(r)
    \/ Expire

RequestSpec == RequestInit /\ [][RequestNext]_requestVars

\* A running handler goes on: the event loop takes its next step, the database gives a
\* free lock to a waiting transaction.  Nothing makes clients call, hang up or crash.
Proceed(r) == Reserve(r) \/ ReadFirst(r) \/ Allocate(r) \/ AppendAudit(r) \/ Commit(r) \/ Answer(r)

FairRequestSpec == RequestSpec /\ \A r \in Requests : WF_requestVars(Proceed(r))

-----------------------------------------------------------------------------
(* Properties *)

\* The numbers of the committed transactions are 1, 2, ... with no gap and none twice,
\* although transactions that took one roll back and processes crash with one in hand.
NumbersAreGapFree ==
    /\ {number[r] : r \in committed} = 1..last
    /\ Cardinality(committed) = last

\* prev_hash never names a row that was rolled back, and two transactions that read
\* nothing before they took their number never name the same row: the lock on the
\* sequence orders their reads of the chain head, which have no lock of their own.
LinksAreSound ==
    /\ \A r \in committed : prev[r] \in committed \cup {None}
    /\ \A q, r \in committed \ ReadsFirst : q # r => prev[q] # prev[r]

\* A handler runs a second time under one key only if its lookup came before the other
\* reservation was written, or the other client hung up, or the 24 hours were over.
SecondRunIsExplained ==
    \A r \in Requests : \A n \in 1..base[r] :
        /\ KeyOf[order[n]] = KeyOf[r]
        /\ stage[r] \notin {"new", "refused", "replayed"}
        => n <= lapsed \/ (row[order[n]] = "deleted" /\ order[n] \in hungUp)

\* Every request whose process lives is answered: no crash, failure or slow client
\* leaves the lock on the sequence taken.
EveryoneIsAnswered ==
    \A r \in Requests : stage[r] = "missed" \/ stage[r] \in Handling ~> stage[r] \in Final

\* chain.service.ts: two writers must not read the same previous hash and produce
\* sibling rows.
ChainIsLinear == \A q, r \in committed : q # r => prev[q] # prev[r]
=============================================================================
