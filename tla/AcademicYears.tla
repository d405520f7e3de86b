---------------------------- MODULE AcademicYears ----------------------------
(***************************************************************************)
(* The academic years of a school: AcademicYearService and its repository  *)
(* (src/backend/src/core/academic).                                        *)
(*                                                                         *)
(* Every handler is one transaction and two steps here: the checks, on the *)
(* snapshot of its first query, and the writes, on the rows as they are.   *)
(* The overlap check is a plain read and locks nothing. The demotion of    *)
(* the other years is an update, which finds and locks the rows that are   *)
(* current when it runs.                                                   *)
(***************************************************************************)
EXTENDS Integers, FiniteSets

CONSTANTS
  Years,      \* ids of rows
  Ranges,     \* pairs of a first and a last day, the first before the last
  Requests,   \* concurrent handlers
  MaxVersion  \* bound on the versions of a row

VARIABLES
  year,     \* year[y]    : the row, whose range is NoRange before it is inserted
  request,  \* request[r] : the handler and what it will write
  raced     \* years whose days were last written by an overtaken handler (history)

vars == <<year, request, raced>>

NoRange == <<>>

Blank == [range |-> NoRange, current |-> FALSE, version |-> 0]

\* `overtaken` says that days were written since the snapshot.
Idle == [at |-> "idle", overtaken |-> FALSE]

Init ==
  /\ year = [y \in Years |-> Blank]
  /\ request = [r \in Requests |-> Idle]
  /\ raced = {}

Exists(y) == year[y].range # NoRange

Meet(a, b) == a[1] <= b[2] /\ a[2] >= b[1]

\* findOverlapping, which leaves the year itself out when it is updated.
Overlapping(range, self) ==
  {y \in Years \ {self} : Exists(y) /\ Meet(year[y].range, range)}

Plan(r, handler, y, range, version) ==
  request' = [request EXCEPT ![r] = [at |-> handler, year |-> y, range |-> range,
                                     version |-> version, overtaken |-> FALSE]]

-----------------------------------------------------------------------------
(* The checks of the handlers                                              *)

Create(r, y, range) ==
  /\ request[r].at = "idle"
  /\ ~Exists(y) /\ \A q \in Requests : request[q].at = "create" => request[q].year # y
  /\ Overlapping(range, y) = {}
  /\ Plan(r, "create", y, range, 0)
  /\ UNCHANGED <<year, raced>>

\* FAULT: the new days are not compared with those of the other years.
Update_Unchecked(r, y, range) ==
  /\ request[r].at = "idle"
  /\ Exists(y)
  /\ Plan(r, "update", y, range, year[y].version)
  /\ UNCHANGED <<year, raced>>

\* The version the client sends is compared with the snapshot.
Update(r, y, range) ==
  /\ request[r].at = "idle"
  /\ Exists(y)
  /\ Overlapping(range, y) = {}
  /\ Plan(r, "update", y, range, year[y].version)
  /\ UNCHANGED <<year, raced>>

\* Update of the name alone.
Rename(r, y) ==
  /\ request[r].at = "idle"
  /\ Exists(y)
  /\ Plan(r, "rename", y, NoRange, year[y].version)
  /\ UNCHANGED <<year, raced>>

Activate(r, y) ==
  /\ request[r].at = "idle"
  /\ Exists(y)
  /\ Plan(r, "activate", y, NoRange, year[y].version)
  /\ UNCHANGED <<year, raced>>

-----------------------------------------------------------------------------
(* The writes                                                              *)

Matches(r) == year[request[r].year].version = request[r].version

\* r writes the days of its year, and overtakes the handlers that are under way.
WriteDays(r, row) ==
  LET y == request[r].year
  IN /\ year' = [year EXCEPT ![y] = row]
     /\ raced' = IF request[r].overtaken THEN raced \cup {y} ELSE raced \ {y}
     /\ request' = [q \in Requests |->
                      IF q = r THEN Idle
                      ELSE IF request[q].at = "idle" THEN request[q]
                      ELSE [request[q] EXCEPT !.overtaken = TRUE]]

Insert(r) ==
  /\ request[r].at = "create"
  /\ WriteDays(r, [range |-> request[r].range, current |-> FALSE, version |-> 1])

UpdateDays(r) ==
  LET y == request[r].year
  IN /\ request[r].at = "update" /\ Matches(r) /\ year[y].version < MaxVersion
     /\ WriteDays(r, [year[y] EXCEPT !.range = request[r].range, !.version = @ + 1])

UpdateName(r) ==
  LET y == request[r].year
  IN /\ request[r].at = "rename" /\ Matches(r) /\ year[y].version < MaxVersion
     /\ year' = [year EXCEPT ![y].version = @ + 1]
     /\ request' = [request EXCEPT ![r] = Idle]
     /\ UNCHANGED raced

\* FAULT: the other years keep being current.
SetCurrent_NoDemotion(r) ==
  LET y == request[r].year
  IN /\ request[r].at = "activate" /\ Matches(r) /\ year[y].version < MaxVersion
     /\ year' = [year EXCEPT ![y].current = TRUE, ![y].version = @ + 1]
     /\ request' = [request EXCEPT ![r] = Idle]
     /\ UNCHANGED raced

\* setCurrent: every other current year is demoted, and its version moves.
SetCurrent(r) ==
  LET y == request[r].year
  IN /\ request[r].at = "activate" /\ Matches(r) /\ year[y].version < MaxVersion
     /\ year' = [z \in Years |->
                   IF z = y THEN [year[y] EXCEPT !.current = TRUE, !.version = @ + 1]
                   ELSE IF year[z].current
                   THEN [year[z] EXCEPT !.current = FALSE, !.version = @ + 1]
                   ELSE year[z]]
     /\ request' = [request EXCEPT ![r] = Idle]
     /\ UNCHANGED raced

\* A row that has moved on conflicts, a deadlock picks its victim, a replica dies.
Rollback(r) ==
  /\ request[r].at # "idle"
  /\ request' = [request EXCEPT ![r] = Idle]
  /\ UNCHANGED <<year, raced>>

Next ==
  \E r \in Requests :
    \/ \E y \in Years : \/ Activate(r, y) \/ Rename(r, y)
                        \/ \E range \in Ranges : Create(r, y, range) \/ Update(r, y, range)
    \/ Insert(r) \/ UpdateDays(r) \/ UpdateName(r) \/ SetCurrent(r) \/ Rollback(r)

Spec == Init /\ [][Next]_vars

-----------------------------------------------------------------------------
(* Correctness                                                             *)

\* Every variable keeps its type.
TypeOK ==
  /\ year \in [Years -> [range : Ranges \cup {NoRange}, current : BOOLEAN,
                         version : 0 .. MaxVersion + 1]]
  /\ \A r \in Requests : request[r].at \in {"idle", "create", "update", "rename", "activate"}
  /\ raced \subseteq Years

\* The school has at most one current year, although two activations may both find
\* another one, or none, in their snapshots.
OneCurrent == Cardinality({y \in Years : year[y].current}) <= 1

\* Two years share a day only when the days of one were written by a handler that
\* another one overtook after the overlap check.
OverlapIsRaced ==
  \A y, z \in Years :
    y # z /\ Exists(y) /\ Exists(z) /\ Meet(year[y].range, year[z].range)
      => y \in raced \/ z \in raced
=============================================================================
