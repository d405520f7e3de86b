------------------------------ MODULE Timetable ------------------------------
(***************************************************************************)
(* The timetable of a branch in an academic year (src/backend/src/core/    *)
(* timetable): versions of it, of which one may be active, the entries of  *)
(* a version, and the load of each teacher, which is derived from them.    *)
(*                                                                         *)
(* A handler is one transaction and two steps here: its checks, on the     *)
(* snapshot of its first query, and its writes. A write to a row it bound  *)
(* itself to by a version number dooms it, and a unique index may refuse   *)
(* it: both end in a rollback. Nothing an entry handler writes touches the *)
(* row of its timetable version, and the conflict detector reads without   *)
(* locks.                                                                  *)
(*                                                                         *)
(* A slot is a day and a period that the template has and the calendar     *)
(* keeps; every teacher is qualified and available. Rooms are checked as   *)
(* teachers are, and are left out.                                         *)
(***************************************************************************)
EXTENDS Integers, FiniteSets

CONSTANTS
  Versions,    \* ids of timetable versions
  Entries,     \* live entries at a time
  Sections, Teachers, Slots,
  Requests     \* concurrent handlers

VARIABLES
  status,    \* status[v]  : of the timetable version; absent before it is created
  entry,     \* entry[e]   : the row; its timetable is None unless it is live
  load,      \* load[v][t] : periods per week of the teacher, or NoRow
  request,   \* request[r] : the handler, what it saw and what it will write
  raced,     \* entries put where they are by an overtaken handler (history)
  stale      \* loads last written by an overtaken handler, or left behind (history)

vars == <<status, entry, load, request, raced, stale>>

None == 0

NoRow == -1

NoEntry == [timetable |-> None, section |-> None, teacher |-> None, slot |-> None]

\* `tally` are the loads a bulk request still has to recompute.
Idle == [at |-> "idle", tally |-> {}, overtaken |-> FALSE]

Init ==
  /\ status = [v \in Versions |-> "absent"]
  /\ entry = [e \in Entries |-> NoEntry]
  /\ load = [v \in Versions |-> [t \in Teachers |-> NoRow]]
  /\ request = [r \in Requests |-> Idle]
  /\ raced = {} /\ stale = {}

Live(e) == entry[e].timetable # None

\* What a teacher has to do in v, as rows say.
Taught(rows, v, t) == Cardinality({e \in Entries : rows[e].timetable = v /\ rows[e].teacher = t})

\* The live entries in the timetable and slot of `row`.
InSlot(row) ==
  {e \in Entries : entry[e].timetable = row.timetable /\ entry[e].slot = row.slot}

-----------------------------------------------------------------------------
(* Loads                                                                   *)

\* TeacherLoadRecomputer counts what its transaction sees: the snapshot, with the
\* handler's own writes. It overwrites the row of a teacher, or inserts one.
Recompute(rows, v, ts) ==
  [t \in ts |-> [count |-> Taught(rows, v, t), insert |-> load[v][t] = NoRow]]

\* uq_teacher_load_active: a row inserted by another handler since is not inserted twice.
LoadsFit(v, loads) == \A t \in DOMAIN loads : loads[t].insert => load[v][t] = NoRow

WriteLoads(r, v, loads) ==
  /\ LoadsFit(v, loads)
  /\ load' = [load EXCEPT ![v] = [t \in Teachers |->
                IF t \in DOMAIN loads THEN loads[t].count ELSE @[t]]]
  /\ stale' = LET touched == {v} \X DOMAIN loads
              IN IF request[r].overtaken THEN stale \cup touched ELSE stale \ touched

-----------------------------------------------------------------------------
(* Entries: the checks                                                     *)

\* findFirst answers with one of the entries found, in no order. No answer is no conflict,
\* and neither is the entry itself, whatever else was found.
MayPass(found, self) == found = {} \/ \E first \in found : first = self

\* FAULT: the detector leaves out the teacher.
Validate_NoTeacher(row, self) ==
  MayPass({e \in InSlot(row) : entry[e].section = row.section}, self)

\* TimetableConflictDetectorService.validate looks for an entry of the section and for one
\* of the teacher in the slot. An entry that is double-booked already may stay as it is.
Validate(row, self) ==
  /\ MayPass({e \in InSlot(row) : entry[e].section = row.section}, self)
  /\ MayPass({e \in InSlot(row) : entry[e].teacher = row.teacher}, self)

\* assertVersionEditable.
Editable(v) == v # None /\ status[v] = "DRAFT"

\* r will replace the row of e, which it saw as it is, by `row`.
Plan(r, handler, e, row, v, teachers) ==
  /\ request' = [request EXCEPT ![r] =
       [at |-> handler, entry |-> e, row |-> row, timetable |-> v,
        loads |-> Recompute([entry EXCEPT ![e] = row], v, teachers),
        tally |-> @.tally, overtaken |-> FALSE]]
  /\ UNCHANGED <<status, entry, load, raced, stale>>

Draft(v, section, teacher, slot) ==
  [timetable |-> v, section |-> section, teacher |-> teacher, slot |-> slot]

Unused(e) == ~Live(e) /\ \A q \in Requests :
               request[q].at \in {"create", "round"} => request[q].entry # e

CreateEntry(r, e, v, section, teacher, slot) ==
  LET row == Draft(v, section, teacher, slot)
  IN /\ request[r].at = "idle" /\ Unused(e)
     /\ Editable(v) /\ Validate(row, e)
     /\ Plan(r, "create", e, row, v, {teacher})

\* bulkCreate: every entry in a transaction of its own, and no load.
BulkRound(r, e, v, section, teacher, slot) ==
  LET row == Draft(v, section, teacher, slot)
  IN /\ request[r].at \in {"idle", "bulk"} /\ Unused(e)
     /\ request[r].at = "bulk" => request[r].timetable = v
     /\ Editable(v) /\ Validate(row, e)
     /\ Plan(r, "round", e, row, v, {})

\* FAULT: the load of the new teacher is left as it was.
UpdateEntry_OldTeacherOnly(r, e, teacher, slot) ==
  LET row == [entry[e] EXCEPT !.teacher = teacher, !.slot = slot]
  IN /\ request[r].at = "idle" /\ Editable(entry[e].timetable)
     /\ Validate(row, e)
     /\ Plan(r, "update", e, row, row.timetable, {entry[e].teacher})

UpdateEntry(r, e, teacher, slot) ==
  LET row == [entry[e] EXCEPT !.teacher = teacher, !.slot = slot]
  IN /\ request[r].at = "idle" /\ Editable(entry[e].timetable)
     /\ Validate(row, e)
     /\ Plan(r, "update", e, row, row.timetable, {entry[e].teacher, teacher})

DeleteEntry(r, e) ==
  /\ request[r].at = "idle" /\ Editable(entry[e].timetable)
  /\ Plan(r, "delete", e, NoEntry, entry[e].timetable, {entry[e].teacher})

-----------------------------------------------------------------------------
(* Entries: the writes                                                     *)

\* uq_tt_entry_section_slot: a section has one live entry in a slot.
SlotIsFree(row, self) ==
  row.timetable # None =>
    \A e \in InSlot(row) \ {self} : entry[e].section # row.section

Doomed == [Idle EXCEPT !.at = "doomed"]

\* r writes e: handlers of the same row are doomed, the others have read what is now
\* out of date.
Overtake(r, e, next) ==
  request' = [q \in Requests |->
    CASE q = r -> next
      [] q # r /\ request[q].at \in {"create", "round", "update", "delete", "tally"} ->
           IF request[q].at \in {"update", "delete"} /\ request[q].entry = e THEN Doomed
           ELSE [request[q] EXCEPT !.overtaken = TRUE]
      [] OTHER -> request[q]]

\* Where an entry is; an update that leaves it there books nobody anew.
Place(row) == <<row.timetable, row.teacher, row.slot>>

WriteRow(r) ==
  LET e == request[r].entry  row == request[r].row
  IN /\ SlotIsFree(row, e)
     /\ entry' = [entry EXCEPT ![e] = row]
     /\ raced' = CASE Place(row) = Place(entry[e]) -> raced
                  [] Place(row) # Place(entry[e]) ->
                       IF request[r].overtaken /\ row # NoEntry THEN raced \cup {e} ELSE raced \ {e}
     /\ UNCHANGED status

WriteEntry(r) ==
  /\ request[r].at \in {"create", "update", "delete"}
  /\ WriteRow(r)
  /\ WriteLoads(r, request[r].timetable, request[r].loads)
  /\ Overtake(r, request[r].entry, Idle)

\* The teachers of bulk entries wait for their loads.
Bulk(v, tally) == [at |-> "bulk", timetable |-> v, tally |-> tally, overtaken |-> FALSE]

WriteRound(r) ==
  LET v == request[r].timetable  t == request[r].row.teacher
  IN /\ request[r].at = "round"
     /\ WriteRow(r)
     /\ stale' = stale \cup {<<v, t>>}
     /\ Overtake(r, request[r].entry, Bulk(v, request[r].tally \cup {t}))
     /\ UNCHANGED load

\* A round that fails is reported, and the next one goes on.
RoundFails(r) ==
  /\ request[r].at = "round" /\ request[r].tally # {}
  /\ request' = [request EXCEPT ![r] = Bulk(@.timetable, @.tally)]
  /\ UNCHANGED <<status, entry, load, raced, stale>>

\* The last transaction of bulkCreate recomputes the loads.
ReadTally(r) ==
  /\ request[r].at = "bulk"
  /\ request' = [request EXCEPT ![r] =
       [at |-> "tally", timetable |-> @.timetable, tally |-> {}, overtaken |-> FALSE,
        loads |-> Recompute(entry, @.timetable, @.tally)]]
  /\ UNCHANGED <<status, entry, load, raced, stale>>

WriteTally(r) ==
  /\ request[r].at = "tally"
  /\ WriteLoads(r, request[r].timetable, request[r].loads)
  /\ request' = [request EXCEPT ![r] = Idle]
  /\ UNCHANGED <<status, entry, raced>>

-----------------------------------------------------------------------------
(* Timetable versions                                                      *)

CreateVersion(v) ==
  /\ status[v] = "absent"
  /\ status' = [status EXCEPT ![v] = "DRAFT"]
  /\ UNCHANGED <<entry, load, request, raced, stale>>

\* A write to the rows of vs dooms the activations that were to write one of them.
Write(vs, r) ==
  request' = [q \in Requests |->
    CASE q = r -> Idle
      [] q # r /\ request[q].at = "activate" /\ request[q].rows \cap vs # {} -> Doomed
      [] OTHER -> request[q]]

Nobody == None

\* An update of the name or the dates.
UpdateVersion(v) ==
  /\ status[v] \in {"DRAFT", "ACTIVE", "ARCHIVED"}
  /\ Write({v}, Nobody)
  /\ UNCHANGED <<status, entry, load, raced, stale>>

\* activate: the active version of the snapshot will be archived.
Activate(r, v) ==
  /\ request[r].at = "idle" /\ status[v] = "DRAFT"
  /\ request' = [request EXCEPT ![r] =
       [at |-> "activate", tally |-> {}, overtaken |-> FALSE, target |-> v,
        rows |-> {v} \cup {w \in Versions : status[w] = "ACTIVE"}]]
  /\ UNCHANGED <<status, entry, load, raced, stale>>

\* FAULT: the prior version stays active, and no unique index refuses it.
WriteActivation_KeepPrior(r) ==
  /\ request[r].at = "activate"
  /\ status' = [status EXCEPT ![request[r].target] = "ACTIVE"]
  /\ Write(request[r].rows, r)
  /\ UNCHANGED <<entry, load, raced, stale>>

\* uq_tt_ver_active_per_year refuses a second active version.
WriteActivation(r) ==
  LET k == request[r]
  IN /\ k.at = "activate"
     /\ \A w \in Versions \ k.rows : status[w] # "ACTIVE"
     /\ status' = [w \in Versions |-> IF w = k.target THEN "ACTIVE"
                                     ELSE IF w \in k.rows THEN "ARCHIVED" ELSE status[w]]
     /\ Write(k.rows, r)
     /\ UNCHANGED <<entry, load, raced, stale>>

Archive(v) ==
  /\ status[v] = "ACTIVE"
  /\ status' = [status EXCEPT ![v] = "ARCHIVED"]
  /\ Write({v}, Nobody)
  /\ UNCHANGED <<entry, load, raced, stale>>

SoftDelete(v) ==
  /\ status[v] \in {"DRAFT", "ARCHIVED"}
  /\ status' = [status EXCEPT ![v] = "deleted"]
  /\ Write({v}, Nobody)
  /\ UNCHANGED <<entry, load, raced, stale>>

\* A conflict, a unique index, a deadlock or a crash ends a handler.
Rollback(r) ==
  /\ request[r].at # "idle"
  /\ request' = [request EXCEPT ![r] = Idle]
  /\ UNCHANGED <<status, entry, load, raced, stale>>

Next ==
  \/ \E r \in Requests :
       \/ \E e \in Entries :
            \/ \E v \in Versions, c \in Sections, t \in Teachers, s \in Slots :
                 CreateEntry(r, e, v, c, t, s) \/ BulkRound(r, e, v, c, t, s)
            \/ \E t \in Teachers, s \in Slots : UpdateEntry(r, e, t, s)
            \/ DeleteEntry(r, e)
       \/ WriteEntry(r) \/ WriteRound(r) \/ RoundFails(r) \/ ReadTally(r) \/ WriteTally(r)
       \/ \E v \in Versions : Activate(r, v)
       \/ WriteActivation(r) \/ Rollback(r)
  \/ \E v \in Versions : CreateVersion(v) \/ UpdateVersion(v) \/ Archive(v) \/ SoftDelete(v)

Spec == Init /\ [][Next]_vars

-----------------------------------------------------------------------------
(* Correctness                                                             *)

\* Every variable keeps its type.
TypeOK ==
  /\ status \in [Versions -> {"absent", "DRAFT", "ACTIVE", "ARCHIVED", "deleted"}]
  /\ \A e \in Entries :
       /\ entry[e].timetable \in Versions \cup {None} /\ entry[e].section \in Sections \cup {None}
       /\ entry[e].teacher \in Teachers \cup {None} /\ entry[e].slot \in Slots \cup {None}
  /\ load \in [Versions -> [Teachers -> Nat \cup {NoRow}]]
  /\ raced \subseteq Entries
  /\ stale \subseteq Versions \X Teachers

\* A branch has at most one active timetable in a year, although two activations may both
\* find none.
OneActive == Cardinality({v \in Versions : status[v] = "ACTIVE"}) <= 1

\* A section is never taught twice at once, and a teacher is in two places only when one of
\* the two entries was put there by a handler that another one overtook, however often the
\* two have been updated since.
BookedOnce ==
  \A e, f \in Entries :
    (e # f /\ Live(e) /\ entry[e].timetable = entry[f].timetable /\ entry[e].slot = entry[f].slot)
      => /\ entry[e].section # entry[f].section
         /\ entry[e].teacher = entry[f].teacher => e \in raced \/ f \in raced

\* The stored load of a teacher is what the entries say, unless a handler that was
\* overtaken wrote it last or a bulk request has not come to it.
LoadsAreExplained ==
  \A v \in Versions, t \in Teachers :
    \/ load[v][t] = Taught(entry, v, t)
    \/ load[v][t] = NoRow /\ Taught(entry, v, t) = 0
    \/ <<v, t>> \in stale
=============================================================================
