------------------------------- MODULE MCRecords -------------------------------
(***************************************************************************)
(* The components that keep the records of a school, side by side on small *)
(* sets, for TLC. As in MCPlatform they share no state: in a behaviour one *)
(* of them runs, whichever the initial state names, and the others stand   *)
(* still. A component may run in several sizes, with the constants of one  *)
(* of them.                                                                *)
(***************************************************************************)
EXTENDS Integers, Sequences, FiniteSets

\* The sizes of each component: records of the values of its constants.
CONSTANTS
  YearSizes, TimetableSizes, EventSizes, MarkSizes, RollSizes, ImportSizes, SyllabusSizes,
  AssignmentSizes, PlacementSizes, ReportSizes

\* Days are numbers, and versions and bounds count.
YearSize(z) == z.ranges \subseteq Int \X Int /\ z.maxVersion \in Nat
TimetableSize(z) == 0 \notin z.versions /\ IsFiniteSet(z.entries)
EventSize(z) == "nobody" \notin z.users /\ IsFiniteSet(z.rows) /\ z.capacity \in Nat

\* An absence of marks is not a mark.
MarkSize(z) == 0 \notin z.marks /\ z.maxChanges \in Nat

RollSize(z) ==
  /\ "none" \notin z.statuses /\ "HOLIDAY" \in z.statuses
  /\ "nobody" \notin z.students /\ "nobody" \notin z.corrections
  /\ z.calendar \subseteq BOOLEAN /\ z.maxTrail \in Nat

ImportSize(z) == IsFiniteSet(z.rows) /\ z.maxTakes \in Nat
SyllabusSize(z) == IsFiniteSet(z.topics) /\ z.maxVersion \in Nat
AssignmentSize(z) == IsFiniteSet(z.students) /\ z.marks \subseteq Nat

\* A promotion leads from one place to another, and being nowhere is no place.
PlacementSize(z) ==
  /\ z.maxTakes \in Nat /\ z.maxMoves \in Nat /\ z.targets \in Seq(z.students)
  /\ z.from \in z.places /\ z.to \in z.places /\ z.from # z.to
  /\ z.none \notin z.places /\ "deleted" \notin z.places \cup {z.none}

\* Files are numbered by the takes that write them.
ReportSize(z) == z.maxTakes \in Nat /\ z.noFile \notin Nat \ {0}

ASSUME RecordsAssumption ==
  /\ \A z \in YearSizes : YearSize(z)
  /\ \A z \in TimetableSizes : TimetableSize(z)
  /\ \A z \in EventSizes : EventSize(z)
  /\ \A z \in MarkSizes : MarkSize(z)
  /\ \A z \in RollSizes : RollSize(z)
  /\ \A z \in ImportSizes : ImportSize(z)
  /\ \A z \in SyllabusSizes : SyllabusSize(z)
  /\ \A z \in AssignmentSizes : AssignmentSize(z)
  /\ \A z \in PlacementSizes : PlacementSize(z)
  /\ \A z \in ReportSizes : ReportSize(z)

VARIABLES
  component, size,  \* which one runs, and its constants
  year, edit, rushed,
  status, entry, load, handler, squeezed, stale,
  kind, fair, seat, visitor, billed, late, interrupted,
  mark, trail, teacher, results, sheet, crossed,
  roll, log, old, locks, correction, holiday, cache, registrar,
  phase, committed, invalid, automatic, taken, importer, known, used, usable, warned, batches, broken,
  topic, version, header, recount, touched, overtook,
  assignment, submission, paper,
  pupil, placing, moves, promotion, takes, promoter, promoted,
  run, tries, runner, files, told, cut, refused

yearVars == <<year, edit, rushed>>
timetableVars == <<status, entry, load, handler, squeezed, stale>>
fairVars == <<kind, fair, seat, visitor, billed, late, interrupted>>
markVars == <<mark, trail, teacher, results, sheet, crossed>>
rollVars == <<roll, log, old, locks, correction, holiday, cache, registrar>>
importVars == <<phase, committed, invalid, automatic, taken, importer, known, used, usable,
                warned, batches, broken>>
syllabusVars == <<topic, version, header, recount, touched, overtook>>
paperVars == <<assignment, submission, paper>>
placeVars == <<pupil, placing, moves, promotion, takes, promoter, promoted>>
reportVars == <<run, tries, runner, files, told, cut, refused>>

Years(z) == INSTANCE AcademicYears WITH
  Years <- z.years, Ranges <- z.ranges, Requests <- z.requests, MaxVersion <- z.maxVersion,
  request <- edit, raced <- rushed

Timetables(z) == INSTANCE Timetable WITH
  Versions <- z.versions, Entries <- z.entries, Sections <- z.sections, Teachers <- z.teachers,
  Slots <- z.slots, Requests <- z.requests, request <- handler, raced <- squeezed

Events(z) == INSTANCE EventRegistration WITH
  Users <- z.users, Rows <- z.rows, Capacity <- z.capacity, Paid <- z.paid, Requests <- z.requests,
  event <- fair, row <- seat, request <- visitor, raced <- late

Exams(z) == INSTANCE ExamMarks WITH
  Students <- z.students, Marks <- z.marks, Requests <- z.requests, MaxChanges <- z.maxChanges,
  row <- mark, request <- teacher

Attendances(z) == INSTANCE Attendance WITH
  Students <- z.students, Statuses <- z.statuses, Requests <- z.requests,
  Processes <- z.processes, Corrections <- z.corrections, Windows <- z.windows,
  Calendar <- z.calendar, MaxTrail <- z.maxTrail,
  row <- roll, trail <- log, elapsed <- old, request <- registrar

Imports(z) == INSTANCE ImportPipeline WITH
  Rows <- z.rows, Limit <- z.limit, Workers <- z.workers, MaxTakes <- z.maxTakes,
  status <- phase, worker <- importer, student <- known

Plans(z) == INSTANCE Syllabus WITH
  Topics <- z.topics, Requests <- z.requests, MaxVersion <- z.maxVersion, request <- recount

Papers(z) == INSTANCE Coursework WITH
  Students <- z.students, Requests <- z.requests, Marks <- z.marks, NoMarks <- z.noMarks,
  request <- paper

Placements(z) == INSTANCE StudentPlacement WITH
  Students <- z.students, Places <- z.places, Rolls <- z.rolls, Requests <- z.requests,
  Targets <- z.targets, From <- z.from, To <- z.to, Workers <- z.workers,
  MaxTakes <- z.maxTakes, MaxMoves <- z.maxMoves, None <- z.none,
  student <- pupil, request <- placing, worker <- promoter

Reports(z) == INSTANCE ReportRun WITH
  Workers <- z.workers, MaxTakes <- z.maxTakes, NoFile <- z.noFile, takes <- tries, worker <- runner

\* The component that runs begins in any of its sizes, and each of the others in one.
Begins(name, z, sizes) == IF component = name THEN size = z ELSE z = CHOOSE y \in sizes : TRUE

RecordsInit ==
  /\ component \in {"years", "timetables", "events", "marks", "rolls", "imports", "plans", "papers",
                    "placements", "reports"}
  /\ \E z \in YearSizes : Begins("years", z, YearSizes) /\ Years(z)!Init
  /\ \E z \in TimetableSizes : Begins("timetables", z, TimetableSizes) /\ Timetables(z)!Init
  /\ \E z \in EventSizes : Begins("events", z, EventSizes) /\ Events(z)!Init
  /\ component = "events" \/ kind = "OPEN"
  /\ \E z \in MarkSizes : Begins("marks", z, MarkSizes) /\ Exams(z)!Init
  /\ \E z \in RollSizes : Begins("rolls", z, RollSizes) /\ Attendances(z)!Init
  /\ \E z \in ImportSizes : Begins("imports", z, ImportSizes) /\ Imports(z)!Init
  /\ component = "imports" \/ (invalid = {} /\ automatic)
  /\ \E z \in SyllabusSizes : Begins("plans", z, SyllabusSizes) /\ Plans(z)!Init
  /\ \E z \in AssignmentSizes : Begins("papers", z, AssignmentSizes) /\ Papers(z)!Init
  /\ component = "papers" \/ assignment.maxMarks = 1
  /\ \E z \in PlacementSizes : Begins("placements", z, PlacementSizes) /\ Placements(z)!Init
  /\ \E z \in ReportSizes : Begins("reports", z, ReportSizes) /\ Reports(z)!Init

Runs(name, z) == component = name /\ size = z

Stays(name, variables) == component # name /\ UNCHANGED variables

RecordsNext ==
  /\ UNCHANGED <<component, size>>
  /\ (\E z \in YearSizes : Runs("years", z) /\ Years(z)!Next) \/ Stays("years", yearVars)
  /\ \/ \E z \in TimetableSizes : Runs("timetables", z) /\ Timetables(z)!Next
     \/ Stays("timetables", timetableVars)
  /\ (\E z \in EventSizes : Runs("events", z) /\ Events(z)!Next) \/ Stays("events", fairVars)
  /\ (\E z \in MarkSizes : Runs("marks", z) /\ Exams(z)!Next) \/ Stays("marks", markVars)
  /\ (\E z \in RollSizes : Runs("rolls", z) /\ Attendances(z)!Next) \/ Stays("rolls", rollVars)
  /\ (\E z \in ImportSizes : Runs("imports", z) /\ Imports(z)!Next) \/ Stays("imports", importVars)
  /\ (\E z \in SyllabusSizes : Runs("plans", z) /\ Plans(z)!Next) \/ Stays("plans", syllabusVars)
  /\ (\E z \in AssignmentSizes : Runs("papers", z) /\ Papers(z)!Next) \/ Stays("papers", paperVars)
  /\ \/ \E z \in PlacementSizes : Runs("placements", z) /\ Placements(z)!Next
     \/ Stays("placements", placeVars)
  /\ (\E z \in ReportSizes : Runs("reports", z) /\ Reports(z)!Next) \/ Stays("reports", reportVars)

RecordsVars ==
  <<component, size, yearVars, timetableVars, fairVars, markVars, rollVars, importVars,
    syllabusVars, paperVars, placeVars, reportVars>>

RecordsSpec == RecordsInit /\ [][RecordsNext]_RecordsVars

-----------------------------------------------------------------------------
(* The sizes of the run                                                    *)

TwoYears ==
  {[years |-> {1, 2}, ranges |-> {<<1, 2>>, <<2, 3>>}, requests |-> {"r1", "r2"}, maxVersion |-> 3]}

\* Entries that collide, an entry that changes hands, and two timetables.
Slots ==
  {[versions |-> {1}, entries |-> {1, 2}, sections |-> {1, 2}, teachers |-> {1}, slots |-> {1},
    requests |-> {1, 2}],
   [versions |-> {1}, entries |-> {1}, sections |-> {1}, teachers |-> {1, 2}, slots |-> {1},
    requests |-> {1, 2}],
   [versions |-> {1, 2}, entries |-> {1}, sections |-> {1}, teachers |-> {1}, slots |-> {1},
    requests |-> {1, 2}]}

\* An event for which two students compete, and one that a student has to pay for.
Fairs ==
  {[users |-> {"u1", "u2"}, rows |-> {1, 2}, capacity |-> 1, paid |-> FALSE,
    requests |-> {"r1", "r2"}],
   [users |-> {"u1"}, rows |-> {1, 2}, capacity |-> 1, paid |-> TRUE, requests |-> {"r1", "r2"}]}

\* A student whose marks change often, and two.
Sheets ==
  {[students |-> {"u1"}, marks |-> {1, 2}, requests |-> {"r1", "r2"}, maxChanges |-> 3],
   [students |-> {"u1", "u2"}, marks |-> {1}, requests |-> {"r1", "r2"}, maxChanges |-> 2]}

\* A student whose row is corrected, and two who are marked together.
Days ==
  {[students |-> {"u1"}, statuses |-> {"PRESENT", "HOLIDAY"}, requests |-> {"r1", "r2"},
    processes |-> {"w1"}, corrections |-> {"c1"}, windows |-> {"l1"}, calendar |-> {},
    maxTrail |-> 2],
   [students |-> {"u1", "u2"}, statuses |-> {"HOLIDAY"}, requests |-> {"r1", "r2"},
    processes |-> {"w1"}, corrections |-> {}, windows |-> {"l1"}, calendar |-> BOOLEAN,
    maxTrail |-> 1]}

\* A file of two rows of which the plan admits one.
Files == {[rows |-> {1, 2}, limit |-> 1, workers |-> {"w1", "w2"}, maxTakes |-> 2]}

Syllabuses == {[topics |-> {1, 2}, requests |-> {"r1", "r2"}, maxVersion |-> 3]}

Homework ==
  {[students |-> {"u1", "u2"}, requests |-> {"r1", "r2"}, marks |-> {1, 2}, noMarks |-> -1]}

\* Two students who want one number, two whom two workers promote, and one who is named twice.
Classes ==
  {[students |-> {"u1", "u2"}, places |-> {"old", "new"}, rolls |-> {"7"},
    requests |-> {"r1", "r2"}, targets |-> <<"u1">>, from |-> "old", to |-> "new", workers |-> {},
    maxTakes |-> 1, maxMoves |-> 1, none |-> "none"],
   [students |-> {"u1", "u2"}, places |-> {"old", "new"}, rolls |-> {"7"}, requests |-> {},
    targets |-> <<"u1", "u2">>, from |-> "old", to |-> "new", workers |-> {"w1", "w2"},
    maxTakes |-> 2, maxMoves |-> 1, none |-> "none"],
   [students |-> {"u1"}, places |-> {"old", "new"}, rolls |-> {"7"}, requests |-> {},
    targets |-> <<"u1", "u1">>, from |-> "old", to |-> "new", workers |-> {"w1"},
    maxTakes |-> 2, maxMoves |-> 2, none |-> "none"]}

Runners == {[workers |-> {"w1", "w2"}, maxTakes |-> 3, noFile |-> 0]}

-----------------------------------------------------------------------------
(* The properties of the components, under names of this module            *)

\* Every variable of the component that runs keeps its type.
RecordTypesOK ==
  /\ \A z \in YearSizes : Runs("years", z) => Years(z)!TypeOK
  /\ \A z \in TimetableSizes : Runs("timetables", z) => Timetables(z)!TypeOK
  /\ \A z \in EventSizes : Runs("events", z) => Events(z)!TypeOK
  /\ \A z \in MarkSizes : Runs("marks", z) => Exams(z)!TypeOK
  /\ \A z \in RollSizes : Runs("rolls", z) => Attendances(z)!TypeOK
  /\ \A z \in ImportSizes : Runs("imports", z) => Imports(z)!TypeOK
  /\ \A z \in SyllabusSizes : Runs("plans", z) => Plans(z)!TypeOK
  /\ \A z \in AssignmentSizes : Runs("papers", z) => Papers(z)!TypeOK
  /\ \A z \in PlacementSizes : Runs("placements", z) => Placements(z)!TypeOK
  /\ \A z \in ReportSizes : Runs("reports", z) => Reports(z)!TypeOK

\* A school has one current year and a branch one active timetable in it; years that meet,
\* teachers in two places and loads that are out of date are the work of handlers that
\* others overtook.
TimesAgree ==
  /\ \A z \in YearSizes : Runs("years", z) => Years(z)!OneCurrent /\ Years(z)!OverlapIsRaced
  /\ \A z \in TimetableSizes : Runs("timetables", z) =>
       /\ Timetables(z)!OneActive
       /\ Timetables(z)!BookedOnce
       /\ Timetables(z)!LoadsAreExplained

\* A cancelled event holds no seats and bills nothing more, its counter follows the seats
\* until then, and who was billed has an assignment that says so, but for handlers that
\* were overtaken or died.
EventAddsUp ==
  \A z \in EventSizes : Runs("events", z) =>
    Events(z)!CancelledEventIsEmpty /\ Events(z)!SeatsAreCounted /\ Events(z)!BillsAreExplained

\* The histories of marks and of attendance replay to what they are the history of, and a
\* day that is closed changes by corrections.
EditsAreTraced ==
  /\ \A z \in MarkSizes : Runs("marks", z) => Exams(z)!EditsAreTraced
  /\ \A z \in RollSizes : Runs("rolls", z) =>
       Attendances(z)!HistoryReplays /\ Attendances(z)!ClosedDayIsCorrected

\* The results of an exam come from one computation, unless two of them crossed; the
\* completion of a syllabus and the counters of an assignment are those of its topics and
\* submissions, but for the ways in which the code loses them.
CourseworkAddsUp ==
  /\ \A z \in MarkSizes : Runs("marks", z) => Exams(z)!ResultsAreOneSheet
  /\ \A z \in SyllabusSizes : Runs("plans", z) => Plans(z)!CompletionIsExplained
  /\ \A z \in AssignmentSizes : Runs("papers", z) => Papers(z)!SubmissionsAddUp

\* What a bulk import and a report say of themselves is what they did, however often and
\* by however many workers their jobs were taken.
BatchesAreTrue ==
  /\ \A z \in ImportSizes : Runs("imports", z) =>
       Imports(z)!CancelledWritesNothing /\ Imports(z)!OutcomeIsTrue /\ Imports(z)!MissedAreRefused
  /\ \A z \in ReportSizes : Runs("reports", z) =>
       Reports(z)!OneWorkerRuns /\ Reports(z)!FilesAreAttached /\ Reports(z)!ToldTheTruth

\* Students share a roll number only where one brought it along or a look was overtaken,
\* and a promotion counts what it did and moves a student once.
PlacesAreExplained ==
  \A z \in PlacementSizes : Runs("placements", z) =>
    Placements(z)!RollsAreExplained /\ Placements(z)!PromotionAddsUp
=============================================================================
