------------------------------- MODULE ExamMarks -------------------------------
(***************************************************************************)
(* The marks of one exam, subject and section, the history of each, and    *)
(* the results computed from them (src/backend/src/core/examination).      *)
(*                                                                         *)
(* A handler is one transaction and two steps here: what it reads, in the  *)
(* snapshot of its first query, and what it writes. An update or a         *)
(* deletion is bound to the version of its row, and unique indexes allow   *)
(* one live mark and one live result of a student; whatever they refuse    *)
(* ends in a rollback.                                                     *)
(*                                                                         *)
(* The exam is not archived, its edit window is open, and a mark is in     *)
(* bounds or an absence.                                                   *)
(***************************************************************************)
EXTENDS Integers, Sequences, FiniteSets, FiniteSetsExt

CONSTANTS
  Students,
  Marks,      \* what may be entered
  Requests,   \* concurrent handlers
  MaxChanges  \* bound on the length of a history

VARIABLES
  row,      \* row[s]     : the live mark of s, whose value is None without one
  trail,    \* trail[s]   : the history rows of s, [from, to]
  request,  \* request[r] : the handler and what it read
  results,  \* live result rows, [student, value]
  sheet,    \* what the last computation wrote (history)
  crossed   \* another computation wrote while that one was under way (history)

vars == <<row, trail, request, results, sheet, crossed>>

None == 0

NoMark == [value |-> None, version |-> 0]

Idle == [at |-> "idle"]
Doomed == [at |-> "doomed"]

Init ==
  /\ row = [s \in Students |-> NoMark]
  /\ trail = [s \in Students |-> <<>>]
  /\ request = [r \in Requests |-> Idle]
  /\ results = {} /\ sheet = {} /\ crossed = FALSE

MarkOf(s) == row[s].value

Newest == Max({row[s].version : s \in Students})

Begin(r, step) ==
  /\ request' = [request EXCEPT ![r] = step]
  /\ UNCHANGED <<row, trail, results, sheet, crossed>>

\* The marks a handler is about to write, for the students of `entry`.
Entering(entry) == [at |-> "enter", entry |-> entry, seen |-> [s \in DOMAIN entry |-> MarkOf(s)]]

-----------------------------------------------------------------------------
(* Marks                                                                   *)

Upsert(r, s, mark) ==
  /\ request[r].at = "idle"
  /\ Begin(r, Entering([t \in {s} |-> mark]))

\* A teacher opens the sheet, and will send the newest version on it.
OpenSheet(r) ==
  /\ request[r].at = "idle"
  /\ Begin(r, [at |-> "sheet", newest |-> Newest])

\* bulkUpsert compares the newest versions, and not those of the rows it will replace.
BulkUpsert(r, entry) ==
  /\ request[r].at = "sheet"
  /\ Newest \in {0, request[r].newest}
  /\ Begin(r, Entering(entry))

SoftDelete(r, s) ==
  /\ request[r].at = "idle" /\ MarkOf(s) # None
  /\ Begin(r, Entering([t \in {s} |-> None]))

\* FAULT: rows are replaced whatever their versions are by now.
Judged_Nothing(q) == {}

\* The rows whose versions q is bound to.
Judged(q) == {s \in DOMAIN request[q].entry : request[q].seen[s] # None}

\* A history row says what the handler read, and what it wrote. Handlers that have judged
\* one of the rows will be refused.
WriteMarks(r) ==
  LET entry == request[r].entry  seen == request[r].seen
  IN /\ request[r].at = "enter"
     /\ \A s \in DOMAIN entry : seen[s] = None => MarkOf(s) = None
     /\ \A s \in DOMAIN entry : Len(trail[s]) < MaxChanges
     /\ row' = [s \in Students |->
          IF s \notin DOMAIN entry THEN row[s]
          ELSE IF entry[s] = None THEN NoMark
          ELSE [value |-> entry[s], version |-> row[s].version + 1]]
     /\ trail' = [s \in Students |->
          IF s \notin DOMAIN entry THEN trail[s]
          ELSE Append(trail[s], [from |-> seen[s], to |-> entry[s]])]
     /\ request' = [q \in Requests |->
          IF q = r THEN Idle
          ELSE IF request[q].at = "enter" /\ Judged(q) \cap DOMAIN entry # {} THEN Doomed
          ELSE request[q]]
     /\ UNCHANGED <<results, sheet, crossed>>

-----------------------------------------------------------------------------
(* Results                                                                 *)

Compute(r) ==
  /\ request[r].at = "idle"
  /\ Begin(r, [at |-> "compute", old |-> results, overtaken |-> FALSE,
               new |-> {[student |-> s, value |-> MarkOf(s)] : s \in {t \in Students : MarkOf(t) # None}}])

\* FAULT: results of students who have no marks any more are kept.
Remaining_Matched(r) ==
  {o \in results : o \in request[r].old => \A n \in request[r].new : n.student # o.student}

\* The results its snapshot had are deleted.
Remaining(r) == results \ request[r].old

\* replaceForExam.
WriteResults(r) ==
  /\ request[r].at = "compute"
  /\ \A o \in Remaining(r), n \in request[r].new : o.student # n.student
  /\ results' = Remaining(r) \cup request[r].new
  /\ sheet' = request[r].new
  /\ crossed' = request[r].overtaken
  /\ request' = [q \in Requests |->
       IF q = r THEN Idle
       ELSE IF request[q].at = "compute"
       THEN [request[q] EXCEPT !.overtaken = TRUE, !.old = @ \cap Remaining(r)]
       ELSE request[q]]
  /\ UNCHANGED <<row, trail>>

\* A conflict, a deadlock or a crash ends a handler, or a teacher closes the sheet.
Rollback(r) ==
  /\ request[r].at # "idle"
  /\ Begin(r, Idle)

Next ==
  \E r \in Requests :
    \/ \E s \in Students : SoftDelete(r, s) \/ \E mark \in Marks : Upsert(r, s, mark)
    \/ \E some \in SUBSET Students \ {{}} : \E entry \in [some -> Marks] : BulkUpsert(r, entry)
    \/ OpenSheet(r) \/ WriteMarks(r) \/ Compute(r) \/ WriteResults(r) \/ Rollback(r)

Spec == Init /\ [][Next]_vars

-----------------------------------------------------------------------------
(* Correctness                                                             *)

\* Every variable keeps its type.
TypeOK ==
  /\ row \in [Students -> [value : Marks \cup {None}, version : 0 .. MaxChanges]]
  /\ \A s \in Students : /\ Len(trail[s]) <= MaxChanges
                         /\ \A i \in 1 .. Len(trail[s]) :
                              trail[s][i] \in [from : Marks \cup {None}, to : Marks \cup {None}]
  /\ \A r \in Requests : request[r].at \in {"idle", "doomed", "sheet", "enter", "compute"}
  /\ results \cup sheet \subseteq [student : Students, value : Marks]
  /\ crossed \in BOOLEAN

\* The history of a mark replays to the mark: each row starts where the one before it ended,
\* although single entries, sheets and deletions of it cross.
EditsAreTraced ==
  \A s \in Students :
    LET n == Len(trail[s])
    IN /\ \A i \in 1 .. n : trail[s][i].from = IF i = 1 THEN None ELSE trail[s][i - 1].to
       /\ MarkOf(s) = IF n = 0 THEN None ELSE trail[s][n].to

\* The results are those of one computation, but when it crossed another one: then the two
\* may leave the results of different students side by side.
ResultsAreOneSheet == results = sheet \/ crossed
=============================================================================
