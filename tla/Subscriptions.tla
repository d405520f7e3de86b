---------------------------- MODULE Subscriptions ----------------------------
(***************************************************************************)
(* The plan subscriptions of one school (src/backend/src/core/subscription *)
(* /subscription and /jobs): operators assign, activate, change, renew,    *)
(* suspend and cancel them, and the daily scan warns of the ones that are  *)
(* about to lapse and expires the ones that have.                          *)
(*                                                                         *)
(* Every write of a row is guarded by the version that was read, so what   *)
(* an operator does to one row is one step. Two readers write later: the   *)
(* scan, which lists rows and settles them one transaction at a time, and  *)
(* an assignment, which cancels the row that it found current.             *)
(***************************************************************************)
EXTENDS Integers, Sequences, FiniteSets

CONSTANTS
  Admins,           \* requests that assign plans
  MaxSubscriptions  \* bound on the rows of the school

VARIABLES
  sub,   \* sub[s] : status and expiry date of the s-th row created
  held,  \* rows that a scan or an assignment has read and will write: an update
         \* of the row by anyone else makes that write a version conflict
  scan   \* the pass the scan is in

vars == <<sub, held, scan>>

Status == {"PENDING", "TRIAL", "ACTIVE", "EXPIRING", "EXPIRED", "SUSPENDED", "CANCELLED"}

\* Where the expiry date is, seen from now: within the warning window or not.
Expiry == {"none", "far", "near", "past"}

SUBSCRIPTION_TRANSITIONS ==
  [PENDING   |-> {"TRIAL", "ACTIVE", "CANCELLED"},
   TRIAL     |-> {"ACTIVE", "EXPIRED", "SUSPENDED", "CANCELLED"},
   ACTIVE    |-> {"EXPIRING", "EXPIRED", "SUSPENDED", "CANCELLED"},
   EXPIRING  |-> {"ACTIVE", "EXPIRED", "CANCELLED"},
   EXPIRED   |-> {"ACTIVE", "CANCELLED"},
   SUSPENDED |-> {"ACTIVE", "CANCELLED"},
   CANCELLED |-> {}]

Rows == 1 .. Len(sub)

\* findActiveBySchool: the row created last of those that are current, or 0.
Current ==
  LET current == {s \in Rows : sub[s].status \in {"PENDING", "TRIAL", "ACTIVE", "EXPIRING"}}
  IN CHOOSE s \in current \cup {0} : \A t \in current : t <= s

Init == sub = <<>> /\ held = {} /\ scan = "idle"

\* The unique key on the school of an ACTIVE row.
OtherActive(s) == \E t \in Rows \ {s} : sub[t].status = "ACTIVE"

\* FAULT: the version of the row is left as it was.
Update_VersionKept(s, row) ==
  /\ sub' = [sub EXCEPT ![s] = row]
  /\ UNCHANGED <<held, scan>>

\* The update of a row fails those that hold an older version of it.
Update(s, row) ==
  /\ sub' = [sub EXCEPT ![s] = row]
  /\ held' = {h \in held : h.row # s}
  /\ UNCHANGED scan

Move(s, status) ==
  /\ status \in SUBSCRIPTION_TRANSITIONS[sub[s].status]
  /\ Update(s, [sub[s] EXCEPT !.status = status])

-----------------------------------------------------------------------------
(* What operators do *)

AssignRead(a) ==
  /\ \A h \in held : h.by # a
  /\ held' = held \cup {[by |-> a, row |-> Current]}
  /\ UNCHANGED <<sub, scan>>

\* The row found current is cancelled and a new one inserted: a trial, which
\* has an expiry date when the plan has trial days, or one to be activated.
Assign(a) ==
  \E h \in held : \E row \in [status : {"TRIAL"}, expiry : {"none", "far"}]
                               \cup {[status |-> "PENDING", expiry |-> "none"]} :
    /\ h.by = a
    /\ Len(sub) < MaxSubscriptions
    /\ sub' = Append([s \in Rows |-> IF s = h.row THEN [sub[s] EXCEPT !.status = "CANCELLED"]
                                     ELSE sub[s]], row)
    /\ held' = {g \in held : g.row \notin {h.row} \ {0} /\ g.by # a}
    /\ UNCHANGED scan

\* activate and reactivate
Activate(s) == ~OtherActive(s) /\ Move(s, "ACTIVE")

\* The old row is cancelled, from any state but that, and the new one is active
\* until the old one's expiry date.
ChangePlan(s) ==
  /\ sub[s].status # "CANCELLED" /\ ~OtherActive(s)
  /\ Len(sub) < MaxSubscriptions
  /\ sub' = Append([sub EXCEPT ![s].status = "CANCELLED"],
                   [status |-> "ACTIVE", expiry |-> sub[s].expiry])
  /\ held' = {h \in held : h.row # s}
  /\ UNCHANGED scan

\* A lapsed row that is renewed is active again, within the unique key.
Renew(s) ==
  LET lapsed == sub[s].status \in {"EXPIRING", "EXPIRED"}
  IN /\ sub[s].status # "CANCELLED"
     /\ lapsed => ~OtherActive(s)
     /\ \E e \in {"far"} \cup (IF sub[s].expiry = "far" THEN {} ELSE {"near"}) :
          Update(s, [status |-> IF lapsed THEN "ACTIVE" ELSE sub[s].status, expiry |-> e])

Suspend(s) == Move(s, "SUSPENDED")

Cancel(s) == Move(s, "CANCELLED")

-----------------------------------------------------------------------------
(* The daily scan: SubscriptionExpiryJobHandler.handle *)

List(pass, rows) ==
  /\ scan' = pass
  /\ held' = {h \in held : h.by # "scan"} \cup {[by |-> "scan", row |-> s] : s \in rows}
  /\ UNCHANGED sub

ListUpcoming ==
  /\ scan = "idle"
  /\ List("warn", {s \in Rows : sub[s].status \in {"ACTIVE", "TRIAL"} /\ sub[s].expiry = "near"})

\* Pass 2 begins when pass 1 has tried every row, the conflicting ones too.
ListElapsed ==
  /\ scan = "warn" /\ \A h \in held : h.by # "scan"
  /\ List("expire", {s \in Rows : /\ sub[s].status \in {"ACTIVE", "TRIAL", "EXPIRING"}
                                  /\ sub[s].expiry = "past"})

EndScan ==
  /\ scan = "expire" /\ \A h \in held : h.by # "scan"
  /\ List("idle", {})

\* markExpiring: a trial cannot be moved to EXPIRING, so the attempt throws.
MarkExpiring(s) ==
  /\ scan = "warn" /\ [by |-> "scan", row |-> s] \in held
  /\ IF "EXPIRING" \in SUBSCRIPTION_TRANSITIONS[sub[s].status] THEN Move(s, "EXPIRING")
     ELSE held' = held \ {[by |-> "scan", row |-> s]} /\ UNCHANGED <<sub, scan>>

MarkExpired(s) ==
  /\ scan = "expire" /\ [by |-> "scan", row |-> s] \in held
  /\ Move(s, "EXPIRED")

\* An expiry date comes nearer, and no row is written.
TimePasses(s) ==
  /\ sub[s].expiry \in {"far", "near"}
  /\ sub' = [sub EXCEPT ![s].expiry = IF @ = "far" THEN "near" ELSE "past"]
  /\ UNCHANGED <<held, scan>>

-----------------------------------------------------------------------------

Next ==
  \/ \E a \in Admins : AssignRead(a) \/ Assign(a)
  \/ \E s \in Rows : \/ Activate(s) \/ ChangePlan(s) \/ Renew(s) \/ Suspend(s) \/ Cancel(s)
                     \/ MarkExpiring(s) \/ MarkExpired(s) \/ TimePasses(s)
  \/ ListUpcoming \/ ListElapsed \/ EndScan

Spec == Init /\ [][Next]_vars

-----------------------------------------------------------------------------
(* Properties *)

TypeOK ==
  /\ sub \in Seq([status : Status, expiry : Expiry]) /\ Len(sub) <= MaxSubscriptions
  /\ held \subseteq [by : Admins \cup {"scan"}, row : 0 .. MaxSubscriptions]
  /\ scan \in {"idle", "warn", "expire"}

\* The scan judges a row by what it read some time before: still, a school that
\* renewed meanwhile is not expired, one that was suspended or cancelled is not
\* brought back as EXPIRED or EXPIRING, and nothing leaves CANCELLED.
LapsesWhenDue ==
  [][\A s \in Rows :
       LET old == sub[s]  new == sub'[s]
       IN /\ new.status = "EXPIRED" /\ old.status # "EXPIRED" =>
               old.expiry = "past" /\ old.status \in {"TRIAL", "ACTIVE", "EXPIRING"}
          /\ new.status = "EXPIRING" /\ old.status # "EXPIRING" =>
               old.expiry \in {"near", "past"} /\ old.status = "ACTIVE"
          /\ old.status = "CANCELLED" => new.status = "CANCELLED"]_vars
=============================================================================
