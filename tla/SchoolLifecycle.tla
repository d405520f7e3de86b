--------------------------- MODULE SchoolLifecycle ---------------------------
(***************************************************************************)
(* How a school comes to the platform and leaves it                        *)
(* (src/backend/src/core/provisioning): a request provisions it under a    *)
(* slug and keeps a journal row of the attempt, the super-admin moves it   *)
(* between the states of its life and extends its trial, and a daily job   *)
(* expires the trials that are over.                                       *)
(*                                                                         *)
(* The journal row is written outside the transaction that creates the     *)
(* school, before and after it. Every later change reads the school,       *)
(* judges what it read and writes if the version has not moved: two steps. *)
(***************************************************************************)
EXTENDS Integers

CONSTANTS
  Schools,        \* ids of schools; a school is named after the request that makes it
  SlugOf,         \* SlugOf[s] : the slug its request asks for
  Admins,         \* requests of the super-admin that are under way at a time
  Scanners,       \* runs of the expiry job that are under way at a time
  TrialDays,      \* length of a trial
  ExtensionDays,  \* days an extension adds
  MaxExtensions,  \* TRIAL_EXTENSION_MAX_COUNT
  LastDay,        \* bound on time
  MaxVersion      \* bound on the changes of a school

VARIABLES
  school,     \* school[s]  : the row
  attempt,    \* attempt[s] : where the provisioning request is
  run,        \* run[s]     : its journal row
  admin,      \* admin[a]   : what the request is to do, and the row it has read
  scan,       \* scan[k]    : the schools the job has listed, and the one it has read
  day,        \* today
  unmarked,   \* schools that were created before recording that failed (history)
  cut,        \* attempts that died, or could not record their failure (history)
  overtaken,  \* schools extended while a scan had them on its list (history)
  shortcut    \* schools reactivated that were not suspended (history)

vars == <<school, attempt, run, admin, scan, day, unmarked, cut, overtaken, shortcut>>

-----------------------------------------------------------------------------

Absent == [status |-> "absent", plan |-> "none", onboarded |-> FALSE,
           end |-> 0, extended |-> 0, version |-> 0]

\* LIFECYCLE_TRANSITIONS
Moves == {<<"TRIAL", "ACTIVE">>, <<"TRIAL", "EXPIRED">>, <<"TRIAL", "CANCELLED">>,
          <<"ACTIVE", "SUSPENDED">>, <<"ACTIVE", "CANCELLED">>,
          <<"SUSPENDED", "ACTIVE">>, <<"SUSPENDED", "CANCELLED">>,
          <<"EXPIRED", "ACTIVE">>, <<"EXPIRED", "CANCELLED">>}

Waiting == [op |-> "none"]
IdleScan == [list |-> {}, read |-> {}]

Init ==
  /\ school = [s \in Schools |-> Absent]
  /\ attempt = [s \in Schools |-> "idle"]
  /\ run = [s \in Schools |-> [status |-> "none", attached |-> FALSE]]
  /\ admin = [a \in Admins |-> Waiting]
  /\ scan = [k \in Scanners |-> IdleScan]
  /\ day = 0
  /\ unmarked = {} /\ cut = {} /\ overtaken = {} /\ shortcut = {}

Exists(s) == school[s].status # "absent"

SlugIsFree(s) == \A t \in Schools : Exists(t) => SlugOf[t] # SlugOf[s]

-----------------------------------------------------------------------------
(* Provisioning                                                            *)

\* The slug is looked up, and the attempt entered in the journal.
Start(s) ==
  /\ attempt[s] = "idle" /\ SlugIsFree(s)
  /\ attempt' = [attempt EXCEPT ![s] = "create"]
  /\ run' = [run EXCEPT ![s].status = "RUNNING"]
  /\ UNCHANGED <<school, admin, scan, day, unmarked, cut, overtaken, shortcut>>

\* FAULT: Create that relies on the look-up.
Create_LookedUp(s) ==
  /\ attempt[s] = "create"
  /\ school' = [school EXCEPT ![s] = [Absent EXCEPT !.status = "TRIAL", !.plan = "ASSIGNED",
                                                    !.end = day + TrialDays]]
  /\ run' = [run EXCEPT ![s].attached = TRUE]
  /\ attempt' = [attempt EXCEPT ![s] = "complete"]
  /\ UNCHANGED <<admin, scan, day, unmarked, cut, overtaken, shortcut>>

\* The transaction commits: the school with all that belongs to it, on trial, and the
\* journal row's reference to it. The unique index of the slug lets one in.
Create(s) ==
  /\ attempt[s] = "create" /\ SlugIsFree(s)
  /\ school' = [school EXCEPT ![s] = [Absent EXCEPT !.status = "TRIAL", !.plan = "ASSIGNED",
                                                    !.end = day + TrialDays]]
  /\ run' = [run EXCEPT ![s].attached = TRUE]
  /\ attempt' = [attempt EXCEPT ![s] = "complete"]
  /\ UNCHANGED <<admin, scan, day, unmarked, cut, overtaken, shortcut>>

\* FAULT: a reference to the school that is written outside its transaction.
CreateFails_Attached(s) ==
  /\ attempt[s] = "create"
  /\ attempt' = [attempt EXCEPT ![s] = "fail"]
  /\ run' = [run EXCEPT ![s].attached = TRUE]
  /\ UNCHANGED <<school, admin, scan, day, unmarked, cut, overtaken, shortcut>>

\* One of its writes fails, and all are rolled back.
CreateFails(s) ==
  /\ attempt[s] = "create"
  /\ attempt' = [attempt EXCEPT ![s] = "fail"]
  /\ UNCHANGED <<school, run, admin, scan, day, unmarked, cut, overtaken, shortcut>>

MarkCompleted(s) ==
  /\ attempt[s] = "complete"
  /\ run' = [run EXCEPT ![s].status = "SUCCEEDED"]
  /\ attempt' = [attempt EXCEPT ![s] = "done"]
  /\ UNCHANGED <<school, admin, scan, day, unmarked, cut, overtaken, shortcut>>

\* The record of the success throws, before or after it took effect: the catch block
\* treats it as a failure of the attempt.
CompletionThrows(s) ==
  /\ attempt[s] = "complete"
  /\ run' \in {run, [run EXCEPT ![s].status = "SUCCEEDED"]}
  /\ attempt' = [attempt EXCEPT ![s] = "fail"]
  /\ unmarked' = unmarked \cup {s}
  /\ UNCHANGED <<school, admin, scan, day, cut, overtaken, shortcut>>

MarkFailed(s) ==
  /\ attempt[s] = "fail"
  /\ run' = [run EXCEPT ![s].status = "FAILED"]
  /\ attempt' = [attempt EXCEPT ![s] = "done"]
  /\ UNCHANGED <<school, admin, scan, day, unmarked, cut, overtaken, shortcut>>

\* The process dies, or the failure cannot be recorded either.
Cut(s) ==
  /\ attempt[s] \notin {"idle", "done"}
  /\ attempt' = [attempt EXCEPT ![s] = "done"]
  /\ cut' = cut \cup {s}
  /\ UNCHANGED <<school, run, admin, scan, day, unmarked, overtaken, shortcut>>

-----------------------------------------------------------------------------
(* The super-admin                                                         *)

\* What the operation requires of the row it reads. The target of activate and of
\* reactivate is the same, and so is what they accept.
Allowed(op, row) ==
  CASE op \in {"activate", "reactivate"} -> <<row.status, "ACTIVE">> \in Moves
    [] op = "suspend" -> <<row.status, "SUSPENDED">> \in Moves
    [] op = "cancel" -> <<row.status, "CANCELLED">> \in Moves
    [] op = "assign" -> TRUE
    [] op = "extend" -> row.status = "TRIAL" /\ row.extended < MaxExtensions

\* What it writes, from the row it has read.
Result(op, row) ==
  CASE op = "activate" -> [row EXCEPT !.status = "ACTIVE", !.onboarded = TRUE, !.plan = "ACTIVE"]
    [] op = "reactivate" -> [row EXCEPT !.status = "ACTIVE"]
    [] op = "suspend" -> [row EXCEPT !.status = "SUSPENDED"]
    [] op = "cancel" -> [row EXCEPT !.status = "CANCELLED", !.plan = "CANCELLED"]
    [] op = "assign" -> [row EXCEPT !.plan = "ASSIGNED"]
    [] op = "extend" -> [row EXCEPT !.end = @ + ExtensionDays, !.extended = @ + 1]
    [] op = "expire" -> [row EXCEPT !.status = "EXPIRED",
                                    !.plan = IF @ = "ASSIGNED" THEN "EXPIRED" ELSE @]

Read(a, s, op) ==
  /\ admin[a] = Waiting /\ Exists(s) /\ Allowed(op, school[s])
  /\ school[s].version < MaxVersion
  /\ admin' = [admin EXCEPT ![a] = [op |-> op, school |-> s, row |-> school[s]]]
  /\ UNCHANGED <<school, attempt, run, scan, day, unmarked, cut, overtaken, shortcut>>

\* FAULT: an update by id only.
Fits_Always(s, row) == TRUE

\* The versioned update matches the row.
Fits(s, row) == school[s].version = row.version

Put(s, row) == school' = [school EXCEPT ![s] = [row EXCEPT !.version = school[s].version + 1]]

OnSomeList(s) == \E k \in Scanners : s \in scan[k].list

Write(a) ==
  LET op == admin[a].op
      s == admin[a].school
      row == admin[a].row
  IN  /\ admin[a] # Waiting
      /\ Fits(s, row)
      /\ Put(s, Result(op, row))
      /\ admin' = [admin EXCEPT ![a] = Waiting]
      /\ overtaken' = IF op = "extend" /\ OnSomeList(s) THEN overtaken \cup {s} ELSE overtaken
      /\ shortcut' = IF op = "reactivate" /\ row.status # "SUSPENDED"
                     THEN shortcut \cup {s} ELSE shortcut
      /\ UNCHANGED <<attempt, run, scan, day, unmarked, cut>>

\* A conflict, or a failure before the commit.
GiveUp(a) ==
  /\ admin[a] # Waiting
  /\ admin' = [admin EXCEPT ![a] = Waiting]
  /\ UNCHANGED <<school, attempt, run, scan, day, unmarked, cut, overtaken, shortcut>>

-----------------------------------------------------------------------------
(* The expiry job                                                          *)

\* FAULT: a trial that ends tomorrow counts as over.
Due_Tomorrow(s) == school[s].status = "TRIAL" /\ school[s].end <= day + 1

Due(s) == school[s].status = "TRIAL" /\ school[s].end <= day

\* The schools whose trial is over are listed. (The warnings the job sends before change
\* nothing here.)
List(k) ==
  /\ scan[k] = IdleScan
  /\ \E s \in Schools : Due(s)
  /\ scan' = [scan EXCEPT ![k].list = {s \in Schools : Due(s)}]
  /\ UNCHANGED <<school, attempt, run, admin, day, unmarked, cut, overtaken, shortcut>>

\* FAULT: expireTrial without the look at the status.
OnTrial_Always(row) == TRUE

OnTrial(row) == row.status = "TRIAL"

Skip(k, s) == scan' = [scan EXCEPT ![k] = [list |-> @.list \ {s}, read |-> {}]]

\* The next school of the list is read again; one that is no longer on trial is left alone.
ExpireRead(k, s) ==
  /\ s \in scan[k].list /\ scan[k].read = {}
  /\ IF OnTrial(school[s])
     THEN scan' = [scan EXCEPT ![k].read = {<<s, school[s]>>}]
     ELSE Skip(k, s)
  /\ UNCHANGED <<school, attempt, run, admin, day, unmarked, cut, overtaken, shortcut>>

\* It expires, if nobody has changed it since.
ExpireWrite(k, s) ==
  /\ \E row \in {e[2] : e \in {f \in scan[k].read : f[1] = s}} :
       /\ Fits(s, row)
       /\ Put(s, Result("expire", row))
  /\ Skip(k, s)
  /\ UNCHANGED <<attempt, run, admin, day, unmarked, cut, overtaken, shortcut>>

\* An error is of one school; the job goes on with the next.
ExpireFails(k, s) ==
  /\ s \in scan[k].list /\ Skip(k, s)
  /\ UNCHANGED <<school, attempt, run, admin, day, unmarked, cut, overtaken, shortcut>>

\* The process dies.
ScanDies(k) ==
  /\ scan[k] # IdleScan
  /\ scan' = [scan EXCEPT ![k] = IdleScan]
  /\ UNCHANGED <<school, attempt, run, admin, day, unmarked, cut, overtaken, shortcut>>

Tick ==
  /\ day < LastDay
  /\ day' = day + 1
  /\ UNCHANGED <<school, attempt, run, admin, scan, unmarked, cut, overtaken, shortcut>>

Operations == {"activate", "reactivate", "suspend", "cancel", "assign", "extend"}

Next ==
  \/ \E s \in Schools : \/ Start(s) \/ Create(s) \/ CreateFails(s) \/ MarkCompleted(s)
                        \/ CompletionThrows(s) \/ MarkFailed(s) \/ Cut(s)
  \/ \E a \in Admins : \/ \E s \in Schools, op \in Operations : Read(a, s, op)
                       \/ Write(a) \/ GiveUp(a)
  \/ \E k \in Scanners : \/ List(k) \/ ScanDies(k)
                         \/ \E s \in Schools : \/ ExpireRead(k, s) \/ ExpireWrite(k, s)
                                               \/ ExpireFails(k, s)
  \/ Tick

Spec == Init /\ [][Next]_vars

-----------------------------------------------------------------------------
(* Correctness                                                             *)

Row == [status : {"TRIAL", "ACTIVE", "SUSPENDED", "EXPIRED", "CANCELLED"},
        plan : {"ASSIGNED", "ACTIVE", "EXPIRED", "CANCELLED"}, onboarded : BOOLEAN,
        end : Nat, extended : 0 .. MaxExtensions, version : 0 .. MaxVersion + 1]

\* Every variable keeps its type.
TypeOK ==
  /\ school \in [Schools -> Row \cup {Absent}]
  /\ attempt \in [Schools -> {"idle", "create", "complete", "fail", "done"}]
  /\ run \in [Schools -> [status : {"none", "RUNNING", "SUCCEEDED", "FAILED"},
                          attached : BOOLEAN]]
  /\ admin \in [Admins -> {Waiting} \cup [op : Operations, school : Schools, row : Row]]
  /\ scan \in [Scanners -> [list : SUBSET Schools, read : SUBSET (Schools \X Row)]]
  /\ day \in 0 .. LastDay
  /\ unmarked \subseteq Schools /\ cut \subseteq Schools
  /\ overtaken \subseteq Schools /\ shortcut \subseteq Schools

\* However many requests ask for a slug, one school gets it.
SlugIsUnique == \A s, t \in Schools : Exists(s) /\ Exists(t) /\ s # t => SlugOf[s] # SlugOf[t]

\* The journal tells the truth of an attempt: it names the school exactly if there is one,
\* a success has one, a failure has one only if it was the record of the success that
\* failed, and an attempt that is over is not left running unless it was cut short.
JournalIsTrue ==
  \A s \in Schools :
    /\ run[s].attached = Exists(s)
    /\ run[s].status = "SUCCEEDED" => Exists(s)
    /\ run[s].status = "FAILED" /\ Exists(s) => s \in unmarked
    /\ run[s].status = "RUNNING" /\ attempt[s] = "done" => s \in cut

\* A trial that has been extended lasts as much longer, however the extensions, the other
\* changes and the job interleave; one that has expired was over, or was extended while
\* the job had it on its list: the job looks at the status again, not at the date.
TrialsAddUp ==
  \A s \in Schools : Exists(s) =>
    /\ \E start \in 0 .. day : school[s].end = start + TrialDays + ExtensionDays * school[s].extended
    /\ school[s].status = "EXPIRED" /\ school[s].end > day => s \in overtaken

\* Who works without ever having been onboarded was reactivated out of a trial.
OnboardedOrReactivated ==
  \A s \in Schools : school[s].status \in {"ACTIVE", "SUSPENDED"} /\ ~school[s].onboarded =>
    s \in shortcut

\* The states of a school follow the table of transitions, whatever its writers had read.
StatesFollowTheTable ==
  [][\A s \in Schools :
       Exists(s) /\ school'[s].status # school[s].status =>
         <<school[s].status, school'[s].status>> \in Moves]_school
=============================================================================
