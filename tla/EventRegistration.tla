-------------------------- MODULE EventRegistration --------------------------
(***************************************************************************)
(* One event of a school, the seats taken in it and, where it is paid, the *)
(* fees they cost (src/backend/src/core/events).                           *)
(*                                                                         *)
(* A registration reads the event in its snapshot and binds itself to      *)
(* nothing: what it writes is a step of its own. So is a withdrawal, which *)
(* decides by its snapshot whether a seat is given back. The other         *)
(* handlers are bound to the version of every row they have judged, and    *)
(* are one step: a row that moved on would have refused them.              *)
(*                                                                         *)
(* The statuses from DRAFT to ONGOING are one here, COMING: no handler of  *)
(* a participant or a fee tells them apart. Every participant is a         *)
(* student. Invoices are made by the fee module, which bills a student     *)
(* once for a structure and a period.                                      *)
(***************************************************************************)
EXTENDS Integers, FiniteSets

CONSTANTS
  Users,
  Rows,      \* ids of participants, each with at most one fee assignment
  Capacity,
  Paid,      \* TRUE unless isFree
  Requests   \* concurrent handlers

VARIABLES
  kind,        \* the registrationType of the event
  event,       \* [status, open, count], the count being registeredCount
  row,         \* row[p] : the participant and `due`, the status of its fee assignment
  request,     \* request[r] : the handler and what it saw
  billed,      \* students who have an invoice of the event
  raced,       \* rows inserted by an overtaken registration (history)
  interrupted  \* students billed by a generation that then died (history)

vars == <<kind, event, row, request, billed, raced, interrupted>>

NoUser == "nobody"

NoRow == [user |-> NoUser, seat |-> "none", approved |-> FALSE, gone |-> FALSE, due |-> "none"]

Idle == [at |-> "idle"]

Init ==
  /\ kind \in {"OPEN", "APPROVAL_REQUIRED"}
  /\ event = [status |-> "COMING", open |-> FALSE, count |-> 0]
  /\ row = [p \in Rows |-> NoRow]
  /\ request = [r \in Requests |-> Idle]
  /\ billed = {} /\ raced = {} /\ interrupted = {}

Live(p) == row[p].user # NoUser /\ ~row[p].gone

Terminal == {"COMPLETED", "CANCELLED"}

Begin(r, step) ==
  /\ request[r].at = "idle"
  /\ request' = [request EXCEPT ![r] = step]

-----------------------------------------------------------------------------
(* Seats                                                                   *)

\* findActiveByEventUser, and the unique index behind it.
HasRow(u) == \E p \in Rows : Live(p) /\ row[p].user = u

Register(r, u) ==
  /\ event.open /\ event.status \notin Terminal
  /\ event.count < Capacity
  /\ ~HasRow(u)
  /\ Begin(r, [at |-> "register", user |-> u, overtaken |-> FALSE])
  /\ UNCHANGED <<kind, event, row, billed, raced, interrupted>>

\* What registrations under way have read of the event is now out of date.
Overtake(requests) ==
  [q \in Requests |-> IF requests[q].at = "register" THEN [requests[q] EXCEPT !.overtaken = TRUE]
                      ELSE requests[q]]

InsertSeat(r, p) ==
  LET u == request[r].user  direct == kind = "OPEN"
  IN /\ request[r].at = "register"
     /\ row[p] = NoRow /\ ~HasRow(u)
     /\ row' = [row EXCEPT ![p] =
          [user |-> u, seat |-> IF direct THEN "REGISTERED" ELSE "PENDING",
           approved |-> FALSE, gone |-> FALSE, due |-> IF Paid THEN "PENDING" ELSE "none"]]
     /\ event' = [event EXCEPT !.count = IF direct THEN @ + 1 ELSE @]
     /\ raced' = IF request[r].overtaken THEN raced \cup {p} ELSE raced
     /\ request' = Overtake([request EXCEPT ![r] = Idle])
     /\ UNCHANGED <<kind, billed, interrupted>>

\* FAULT: a withdrawal is not bound to the version of its row.
Doom_Nobody(ps) == request

\* Writes to the rows ps refuse the withdrawals that have judged one of them.
Doom(ps) ==
  [q \in Requests |-> IF request[q].at = "withdraw" /\ request[q].row \in ps
                      THEN [at |-> "doomed"] ELSE request[q]]

Decide(p, seat) ==
  /\ Live(p) /\ row[p].seat = "PENDING"
  /\ row' = [row EXCEPT ![p].seat = seat, ![p].approved = seat = "REGISTERED"]
  /\ request' = Doom({p})
  /\ UNCHANGED <<kind, event, billed, raced, interrupted>>

\* The counter is left as it is.
Approve(p) == Decide(p, "REGISTERED")
Reject(p) == Decide(p, "REJECTED")

\* cancel of a participant, in any status.
Withdraw(r, p) ==
  /\ Live(p)
  /\ Begin(r, [at |-> "withdraw", row |-> p, seat |-> row[p].seat])
  /\ UNCHANGED <<kind, event, row, billed, raced, interrupted>>

\* The fee assignment stays.
WriteWithdrawal(r) ==
  LET p == request[r].row
  IN /\ request[r].at = "withdraw"
     /\ row' = [row EXCEPT ![p].seat = "CANCELLED", ![p].gone = TRUE]
     /\ event' = [event EXCEPT !.count = IF request[r].seat = "REGISTERED" THEN @ - 1 ELSE @]
     /\ request' = [Doom({p}) EXCEPT ![r] = Idle]
     /\ UNCHANGED <<kind, billed, raced, interrupted>>

-----------------------------------------------------------------------------
(* The event                                                               *)

Complete ==
  /\ event.status = "COMING"
  /\ event' = [event EXCEPT !.status = "COMPLETED"]
  /\ UNCHANGED <<kind, row, request, billed, raced, interrupted>>

OpenRegistration ==
  /\ event.status \notin Terminal
  /\ event' = [event EXCEPT !.open = TRUE]
  /\ UNCHANGED <<kind, row, request, billed, raced, interrupted>>

CloseRegistration ==
  /\ event' = [event EXCEPT !.open = FALSE]
  /\ UNCHANGED <<kind, row, request, billed, raced, interrupted>>

\* FAULT: fees that are still to be billed stay so.
CancelEvent_KeepDues ==
  LET open == {p \in Rows : Live(p) /\ row[p].seat \in {"PENDING", "REGISTERED"}}
  IN /\ event.status \notin Terminal
     /\ event' = [event EXCEPT !.status = "CANCELLED", !.open = FALSE]
     /\ row' = [p \in Rows |-> IF p \in open THEN [row[p] EXCEPT !.seat = "CANCELLED"] ELSE row[p]]
     /\ request' = Overtake(Doom(open))
     /\ UNCHANGED <<kind, billed, raced, interrupted>>

\* cancel, with cancelAllForEvent and voidAllPendingForEvent. Seats stay counted, and
\* invoices stay as they are.
CancelEvent ==
  LET open == {p \in Rows : Live(p) /\ row[p].seat \in {"PENDING", "REGISTERED"}}
  IN /\ event.status \notin Terminal
     /\ event' = [event EXCEPT !.status = "CANCELLED", !.open = FALSE]
     /\ row' = [p \in Rows |->
          [row[p] EXCEPT !.seat = IF p \in open THEN "CANCELLED" ELSE @,
                         !.due = IF @ = "PENDING" THEN "VOID" ELSE @]]
     /\ request' = Overtake(Doom(open))
     /\ UNCHANGED <<kind, billed, raced, interrupted>>

-----------------------------------------------------------------------------
(* Fees                                                                    *)

VoidAssignment(p) ==
  /\ row[p].due = "PENDING"
  /\ row' = [row EXCEPT ![p].due = "VOID"]
  /\ UNCHANGED <<kind, event, request, billed, raced, interrupted>>

\* generateInvoices lists what is to be billed, of participants who have withdrawn too.
ListPending(r) ==
  /\ \E p \in Rows : row[p].due = "PENDING"
  /\ Begin(r, [at |-> "bill", rows |-> {p \in Rows : row[p].due = "PENDING"}])
  /\ UNCHANGED <<kind, event, row, billed, raced, interrupted>>

Marking(rows) == IF rows = {} THEN Idle ELSE [at |-> "mark", rows |-> rows]

\* FAULT: assignments of participants who have withdrawn are billed and not marked.
Bill_MarkLive(r) ==
  LET rows == request[r].rows
  IN /\ request[r].at = "bill"
     /\ billed' = billed \cup {row[p].user : p \in rows}
     /\ request' = [request EXCEPT ![r] =
          Marking({p \in rows : row[p].user \notin billed /\ ~row[p].gone})]
     /\ UNCHANGED <<kind, event, row, raced, interrupted>>

\* The fee module bills those it has not billed, and names only their invoices: the
\* assignments of the others are skipped.
Bill(r) ==
  LET rows == request[r].rows
  IN /\ request[r].at = "bill"
     /\ billed' = billed \cup {row[p].user : p \in rows}
     /\ request' = [request EXCEPT ![r] = Marking({p \in rows : row[p].user \notin billed})]
     /\ UNCHANGED <<kind, event, row, raced, interrupted>>

\* markInvoiced, each in a transaction of its own. An assignment whose version has moved on
\* is pending no more, and is skipped.
MarkInvoiced(r, p) ==
  /\ request[r].at = "mark" /\ p \in request[r].rows
  /\ row' = [row EXCEPT ![p].due = IF @ = "PENDING" THEN "INVOICED" ELSE @]
  /\ request' = [request EXCEPT ![r] = Marking(@.rows \ {p})]
  /\ UNCHANGED <<kind, event, billed, raced, interrupted>>

\* A conflict, a refusal of the fee module, a deadlock or a crash ends a handler.
Abort(r) ==
  /\ request[r].at # "idle"
  /\ interrupted' = IF request[r].at = "mark"
                    THEN interrupted \cup {row[p].user : p \in request[r].rows}
                    ELSE interrupted
  /\ request' = [request EXCEPT ![r] = Idle]
  /\ UNCHANGED <<kind, event, row, billed, raced>>

Next ==
  \/ Complete \/ OpenRegistration \/ CloseRegistration \/ CancelEvent
  \/ \E p \in Rows : Approve(p) \/ Reject(p) \/ VoidAssignment(p)
  \/ \E r \in Requests :
       \/ \E u \in Users : Register(r, u)
       \/ \E p \in Rows : InsertSeat(r, p) \/ Withdraw(r, p) \/ MarkInvoiced(r, p)
       \/ WriteWithdrawal(r) \/ ListPending(r) \/ Bill(r) \/ Abort(r)

Spec == Init /\ [][Next]_vars

-----------------------------------------------------------------------------
(* Correctness                                                             *)

\* Every variable keeps its type.
TypeOK ==
  /\ kind \in {"OPEN", "APPROVAL_REQUIRED"}
  /\ event.status \in {"COMING"} \cup Terminal
  /\ event.open \in BOOLEAN /\ event.count \in Int
  /\ row \in [Rows -> [user : Users \cup {NoUser},
                       seat : {"none", "PENDING", "REGISTERED", "REJECTED", "CANCELLED"},
                       approved : BOOLEAN, gone : BOOLEAN,
                       due : {"none", "PENDING", "INVOICED", "VOID"}]]
  /\ \A r \in Requests :
       request[r].at \in {"idle", "register", "withdraw", "doomed", "bill", "mark"}
  /\ billed \subseteq Users /\ interrupted \subseteq Users /\ raced \subseteq Rows

\* A cancelled event has no open seat and nothing left to bill, but for registrations that
\* the cancellation, or another registration, overtook.
CancelledEventIsEmpty ==
  event.status = "CANCELLED" =>
    \A p \in Rows \ raced :
      /\ row[p].due # "PENDING"
      /\ Live(p) => row[p].seat \notin {"PENDING", "REGISTERED"}

Seated == {p \in Rows : Live(p) /\ row[p].seat = "REGISTERED"}

\* Until the event is cancelled its counter is exact where registration is open, whatever
\* withdrawals cross; where it needs approval nothing is ever added, and a withdrawal after
\* approval takes away. Only overtaken registrations exceed the capacity of an open event.
SeatsAreCounted ==
  event.status # "CANCELLED" =>
    IF kind = "OPEN"
    THEN event.count = Cardinality(Seated) /\ Cardinality(Seated \ raced) <= Capacity
    ELSE event.count + Cardinality({p \in Rows : row[p].gone /\ row[p].approved}) = 0

\* A student who was billed has an assignment that says so, or one that was voided
\* meanwhile, or is about to be marked, or the generation died between the two.
BillsAreExplained ==
  \A u \in billed \ interrupted :
    \/ \E p \in Rows : row[p].user = u /\ row[p].due \in {"INVOICED", "VOID"}
    \/ \E r \in Requests : request[r].at = "mark" /\ \E p \in request[r].rows : row[p].user = u
=============================================================================
