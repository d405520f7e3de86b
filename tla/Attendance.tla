------------------------------ MODULE Attendance ------------------------------
(***************************************************************************)
(* The attendance of one section on one day                                *)
(* (src/backend/src/core/attendance): marking, bulk marking, edits and     *)
(* deletions, the lock windows that close the day, the corrections that    *)
(* are the way around them, and the holidays of the calendar.              *)
(*                                                                         *)
(* A handler is one transaction and two steps here: the checks, on the     *)
(* snapshot of its first query, and the writes. An update, a deletion or   *)
(* an approval is bound to the versions it read, and a unique index allows *)
(* one live row of a student; the writes they refuse end in a rollback.    *)
(*                                                                         *)
(* Holidays are looked up through a map that each process keeps: it is     *)
(* filled by the first lookup of a day and never emptied.                  *)
(*                                                                         *)
(* The day is not in the future, the module is on and so is                *)
(* holidayAutoMark. bulkMark catches whatever one entry throws and goes on *)
(* to the next: of these failures only the unique index's is modelled.     *)
(***************************************************************************)
EXTENDS Integers, Sequences, FiniteSets

CONSTANTS
  Students,
  Statuses,    \* HOLIDAY among them
  Requests,    \* concurrent handlers
  Processes,   \* replicas of the API
  Corrections,
  Windows,     \* lock windows that cover the day
  Calendar,    \* what the calendar may come to say of the day, TRUE for a holiday
  MaxTrail     \* bound on the length of a history

VARIABLES
  row,         \* row[s]        : the status of the live row of s, or NoStatus
  trail,       \* trail[s]      : the history rows of that row
  elapsed,     \* students whose rows are older than the edit window
  locks,       \* active lock windows
  correction,  \* correction[c] : the request for a correction
  holiday,     \* what the calendar says of the day
  cache,       \* cache[p]      : what the map of p says of it
  request      \* request[r]    : the handler and what it read

vars == <<row, trail, elapsed, locks, correction, holiday, cache, request>>

NoStatus == "none"
Nobody == "nobody"

Idle == [at |-> "idle"]
Doomed == [at |-> "doomed"]
NoCorrection == [of |-> Nobody, to |-> NoStatus, status |-> "none"]

Init ==
  /\ row = [s \in Students |-> NoStatus]
  /\ trail = [s \in Students |-> <<>>]
  /\ elapsed = {} /\ locks = {}
  /\ correction = [c \in Corrections |-> NoCorrection]
  /\ holiday = FALSE
  /\ cache = [p \in Processes |-> "unknown"]
  /\ request = [r \in Requests |-> Idle]

Live(s) == row[s] # NoStatus

Begin(r, step) ==
  /\ request' = [request EXCEPT ![r] = step]
  /\ UNCHANGED <<row, trail, elapsed, locks, correction, holiday>>

-----------------------------------------------------------------------------
(* Checks                                                                  *)

\* FAULT: the lock windows are not looked up.
NotLocked_Never == TRUE

\* assertNotLocked.
NotLocked == locks = {}

\* What process p takes the day for.
TakenForHoliday(p) == IF cache[p] = "unknown" THEN holiday ELSE cache[p] = "holiday"

FillCache(p) ==
  cache' = [cache EXCEPT ![p] = IF TakenForHoliday(p) THEN "holiday" ELSE "workday"]

\* A handler that will write the statuses of `to`. `open` says that the day was open for
\* its students, and `festive` that it was a holiday.
Writing(at, to, correcting) ==
  [at |-> at, to |-> to, seen |-> [s \in DOMAIN to |-> row[s]], by |-> correcting,
   open |-> locks = {} /\ DOMAIN to \cap elapsed = {}, festive |-> holiday]

\* The map is filled even by a handler that refuses what it is asked.
Mark(r, p, s, status) ==
  /\ request[r].at = "idle" /\ NotLocked
  /\ FillCache(p)
  /\ Begin(r, IF Live(s) \/ (TakenForHoliday(p) /\ status # "HOLIDAY") THEN Idle
              ELSE Writing("mark", [t \in {s} |-> status], Nobody))

\* On a holiday every status becomes HOLIDAY; the students who have rows are reported.
BulkMark(r, p, entries) ==
  LET to == [s \in {t \in DOMAIN entries : ~Live(t)} |->
               IF TakenForHoliday(p) THEN "HOLIDAY" ELSE entries[s]]
  IN /\ request[r].at = "idle" /\ NotLocked
     /\ FillCache(p)
     /\ Begin(r, Writing("bulk", to, Nobody))

\* The holiday is looked up when the status changes.
Update(r, p, s, status) ==
  /\ request[r].at = "idle" /\ Live(s) /\ NotLocked /\ s \notin elapsed
  /\ IF status = row[s] THEN UNCHANGED cache ELSE FillCache(p)
  /\ Begin(r, IF status # row[s] /\ TakenForHoliday(p) /\ status # "HOLIDAY" THEN Idle
              ELSE Writing("update", [t \in {s} |-> status], Nobody))

SoftDelete(r, s) ==
  /\ request[r].at = "idle" /\ Live(s) /\ NotLocked /\ s \notin elapsed
  /\ Begin(r, Writing("delete", [t \in {s} |-> NoStatus], Nobody))
  /\ UNCHANGED cache

\* decide and applyCorrectedStatus, which asks for no lock, no window and no holiday.
Approve(r, c) ==
  LET s == correction[c].of
  IN /\ request[r].at = "idle" /\ correction[c].status = "PENDING" /\ s # Nobody
     /\ Begin(r, Writing("approve", [t \in {s} |-> correction[c].to], c))
     /\ UNCHANGED cache

-----------------------------------------------------------------------------
(* Writes                                                                  *)

\* FAULT: handlers keep the versions they read of rows that others have written.
Overtaken_Nobody(q, written) == FALSE

\* Whether q is bound to the version of a row that has been written.
Overtaken(q, written) ==
  request[q].at \in {"update", "delete", "approve"} /\ DOMAIN request[q].to \cap written # {}

\* A history row says what was read, what is written and for which correction; here also
\* whether the day was open when it was judged.
HistoryRow(r, s) ==
  [from |-> request[r].seen[s], to |-> request[r].to[s], by |-> request[r].by,
   open |-> request[r].open]

\* Students in `written` get the statuses r has for them, and a history row each if they
\* are in `logged`.
Write(r, written, logged) ==
  /\ \A s \in logged : Len(trail[s]) < MaxTrail
  /\ row' = [s \in Students |-> IF s \in written THEN request[r].to[s] ELSE row[s]]
  /\ trail' = [s \in Students |-> IF s \in logged THEN Append(trail[s], HistoryRow(r, s))
                                  ELSE trail[s]]
  /\ request' = [q \in Requests |-> IF q = r THEN Idle
                                    ELSE IF Overtaken(q, written) THEN Doomed
                                    ELSE request[q]]
  /\ UNCHANGED <<locks, holiday, cache>>

\* The unique index refuses a second live one.
WriteMark(r) ==
  LET free == {s \in DOMAIN request[r].to : ~Live(s)}
  IN /\ \/ request[r].at = "mark" /\ free = DOMAIN request[r].to
        \/ request[r].at = "bulk"
     /\ Write(r, free, free)
     /\ UNCHANGED <<elapsed, correction>>

WriteUpdate(r) ==
  LET s == CHOOSE t \in DOMAIN request[r].to : TRUE
  IN /\ request[r].at = "update"
     /\ Write(r, {s}, IF request[r].to[s] = request[r].seen[s] THEN {} ELSE {s})
     /\ UNCHANGED <<elapsed, correction>>

\* A row marked anew is young, and the deleted one keeps its history and its corrections.
WriteDeletion(r) ==
  LET s == CHOOSE t \in DOMAIN request[r].to : TRUE
  IN /\ request[r].at = "delete"
     /\ row' = [row EXCEPT ![s] = NoStatus]
     /\ trail' = [trail EXCEPT ![s] = <<>>]
     /\ correction' = [c \in Corrections |->
          IF correction[c].of = s THEN [correction[c] EXCEPT !.of = Nobody] ELSE correction[c]]
     /\ request' = [q \in Requests |-> IF q = r THEN Idle
                                       ELSE IF Overtaken(q, {s}) THEN Doomed
                                       ELSE request[q]]
     /\ elapsed' = elapsed \ {s}
     /\ UNCHANGED <<locks, holiday, cache>>

\* The correction is settled in the same transaction; other approvals of it are refused.
WriteApproval(r) ==
  LET s == CHOOSE t \in DOMAIN request[r].to : TRUE
  IN /\ request[r].at = "approve"
     /\ correction[request[r].by].status = "PENDING"
     /\ Write(r, {s}, {s})
     /\ correction' = [correction EXCEPT ![request[r].by].status = "APPROVED"]
     /\ UNCHANGED elapsed

\* A conflict, a deadlock or a crash ends a handler.
Rollback(r) ==
  /\ request[r].at # "idle"
  /\ Begin(r, Idle)
  /\ UNCHANGED cache

-----------------------------------------------------------------------------
(* Corrections, lock windows, the calendar and the clock                   *)

RequestCorrection(c, s, status) ==
  /\ correction[c] = NoCorrection /\ Live(s)
  /\ correction' = [correction EXCEPT ![c] = [of |-> s, to |-> status, status |-> "PENDING"]]
  /\ UNCHANGED <<row, trail, elapsed, locks, holiday, cache, request>>

Reject(c) ==
  /\ correction[c].status = "PENDING"
  /\ correction' = [correction EXCEPT ![c].status = "REJECTED"]
  /\ UNCHANGED <<row, trail, elapsed, locks, holiday, cache, request>>

Lock(w) ==
  /\ w \notin locks /\ locks' = locks \cup {w}
  /\ UNCHANGED <<row, trail, elapsed, correction, holiday, cache, request>>

Unlock(w) ==
  /\ w \in locks /\ locks' = locks \ {w}
  /\ UNCHANGED <<row, trail, elapsed, correction, holiday, cache, request>>

\* The row of s grows older than editWindowHours.
Elapse(s) ==
  /\ Live(s) /\ s \notin elapsed /\ elapsed' = elapsed \cup {s}
  /\ UNCHANGED <<row, trail, locks, correction, holiday, cache, request>>

\* A holiday is declared or withdrawn.
ChangeCalendar ==
  /\ holiday' \in Calendar \ {holiday}
  /\ UNCHANGED <<row, trail, elapsed, locks, correction, cache, request>>

\* A process starts again, with an empty map.
Restart(p) ==
  /\ cache' = [cache EXCEPT ![p] = "unknown"]
  /\ UNCHANGED <<row, trail, elapsed, locks, correction, holiday, request>>

Next ==
  \/ \E r \in Requests :
       \/ \E s \in Students :
            \/ \E p \in Processes, status \in Statuses : Mark(r, p, s, status) \/ Update(r, p, s, status)
            \/ SoftDelete(r, s)
       \/ \E p \in Processes, some \in SUBSET Students \ {{}} :
            \E entries \in [some -> Statuses] : BulkMark(r, p, entries)
       \/ \E c \in Corrections : Approve(r, c)
       \/ WriteMark(r) \/ WriteUpdate(r) \/ WriteDeletion(r) \/ WriteApproval(r) \/ Rollback(r)
  \/ \E c \in Corrections :
       Reject(c) \/ \E s \in Students, status \in Statuses : RequestCorrection(c, s, status)
  \/ \E w \in Windows : Lock(w) \/ Unlock(w)
  \/ \E s \in Students : Elapse(s)
  \/ ChangeCalendar
  \/ \E p \in Processes : Restart(p)

Spec == Init /\ [][Next]_vars

-----------------------------------------------------------------------------
(* Correctness                                                             *)

\* Every variable keeps its type.
TypeOK ==
  /\ row \in [Students -> Statuses \cup {NoStatus}]
  /\ \A s \in Students :
       /\ Len(trail[s]) <= MaxTrail
       /\ \A i \in 1 .. Len(trail[s]) :
            trail[s][i] \in [from : Statuses \cup {NoStatus}, to : Statuses,
                             by : Corrections \cup {Nobody}, open : BOOLEAN]
  /\ elapsed \subseteq Students /\ locks \subseteq Windows
  /\ correction \in [Corrections -> [of : Students \cup {Nobody}, to : Statuses \cup {NoStatus},
                                     status : {"none", "PENDING", "APPROVED", "REJECTED"}]]
  /\ holiday \in BOOLEAN /\ cache \in [Processes -> {"unknown", "holiday", "workday"}]
  /\ \A r \in Requests :
       request[r].at \in {"idle", "doomed", "mark", "bulk", "update", "delete", "approve"}

\* The history of a row replays to its status: each change starts where the one before it
\* ended, although edits, bulk marks and approvals cross. A correction that was approved
\* has changed its row, once, and no other correction has.
HistoryReplays ==
  \A s \in Students :
    LET n == Len(trail[s])
        corrected == {i \in 1 .. n : trail[s][i].by # Nobody}
    IN /\ \A i \in 1 .. n : trail[s][i].from = IF i = 1 THEN NoStatus ELSE trail[s][i - 1].to
       /\ row[s] = IF n = 0 THEN NoStatus ELSE trail[s][n].to
       /\ \A i, j \in corrected : trail[s][i].by = trail[s][j].by => i = j
       /\ {trail[s][i].by : i \in corrected} =
            {c \in Corrections : correction[c].of = s /\ correction[c].status = "APPROVED"}

\* A status that was judged when the day was closed, by a lock window or by the age of the
\* row, is the work of a correction. (A handler that has judged before may write after.)
ClosedDayIsCorrected ==
  \A s \in Students : \A i \in 1 .. Len(trail[s]) :
    trail[s][i].open \/ trail[s][i].by # Nobody

\* student-attendance.service.ts:11-14: on a holiday a mark of another status is refused, and
\* a bulk mark of it becomes HOLIDAY. A handler that has judged the day on a holiday writes
\* nothing else, unless it corrects.
HolidayIsMarked ==
  \A r \in Requests :
    request[r].at \in {"mark", "bulk", "update"} /\ request[r].festive =>
      \A s \in DOMAIN request[r].to :
        request[r].to[s] \in {request[r].seen[s], "HOLIDAY"}
==============================================================================
