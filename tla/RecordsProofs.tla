---------------------------- MODULE RecordsProofs ----------------------------
(***************************************************************************)
(* Safety of the components of MCRecords, in any of their sizes and for    *)
(* any sizes that the assumption admits. Each component has an inductive   *)
(* invariant, a lemma that says the initial states have it, one that says  *)
(* every step keeps it, and one that says what it implies. The last part   *)
(* puts them side by side.                                                 *)
(***************************************************************************)
EXTENDS MCRecords, FiniteSetTheorems, TLAPS

-----------------------------------------------------------------------------
(* Sets                                                                    *)

\* Things that are all one thing are one thing or none.
LEMMA OneAtMost == ASSUME NEW S, \A a, b \in S : a = b PROVE Cardinality(S) <= 1
<1>1. CASE S = {}
    BY <1>1, FS_EmptySet
<1>2. ASSUME NEW a \in S PROVE Cardinality(S) <= 1
  <2>1. S = {a}
      OBVIOUS
  <2> QED
      BY <2>1, FS_Singleton
<1> QED
    BY <1>1, <1>2

-----------------------------------------------------------------------------
(* Academic years                                                          *)

\* A current year has not run out of versions.
YearRows(z) ==
  {row \in [range : z.ranges \cup {<<>>}, current : BOOLEAN, version : 0 .. z.maxVersion + 1] :
     row.current => row.version <= z.maxVersion}

EditRows(z) ==
  [at : {"idle"}, overtaken : {FALSE}]
    \cup [at : {"create", "update", "rename", "activate"}, year : z.years, range : z.ranges \cup {<<>>},
          version : Nat, overtaken : BOOLEAN]

YearTypes(z) ==
  /\ year \in [z.years -> YearRows(z)] /\ edit \in [z.requests -> EditRows(z)]
  /\ rushed \subseteq z.years

OneYearIsCurrent(z) == \A x, y \in z.years : year[x].current /\ year[y].current => x = y

\* Days that were compared and not overtaken since are free.
DaysAreFree(z) ==
  \A r \in z.requests : edit[r].at \in {"create", "update"} /\ ~edit[r].overtaken =>
    \A y \in z.years \ {edit[r].year} :
      Years(z)!Exists(y) => ~Years(z)!Meet(year[y].range, edit[r].range)

YearInv(z) == YearTypes(z) /\ OneYearIsCurrent(z) /\ DaysAreFree(z) /\ Years(z)!OverlapIsRaced

\* A school begins without years.
LEMMA YearBegins == ASSUME NEW z, YearSize(z), Years(z)!Init PROVE YearInv(z)
<1> USE DEF Years!Init, Years!Blank, Years!NoRange, Years!Idle, YearSize
<1>1. YearTypes(z)
    BY DEF YearTypes, YearRows, EditRows
<1>2. OneYearIsCurrent(z) /\ DaysAreFree(z)
    BY DEF OneYearIsCurrent, DaysAreFree
<1>3. Years(z)!OverlapIsRaced
    BY DEF Years!OverlapIsRaced, Years!Exists
<1> QED
    BY <1>1, <1>2, <1>3 DEF YearInv

\* Two ranges meet from either side.
LEMMA MeetingIsMutual ==
  ASSUME NEW z, NEW a \in Int \X Int, NEW b \in Int \X Int
  PROVE  Years(z)!Meet(a, b) <=> Years(z)!Meet(b, a)
    BY DEF Years!Meet

\* A year with new days overlaps another only if its handler was overtaken, and overtakes
\* every other handler.
LEMMA DaysWritten ==
  ASSUME NEW z, YearSize(z), YearInv(z), NEW r \in z.requests, edit[r].at \in {"create", "update"},
         NEW row \in YearRows(z), row.range = edit[r].range,
         row.current => year[edit[r].year].current, Years(z)!WriteDays(r, row)
  PROVE  YearInv(z)'
<1> USE DEF YearInv
<1> DEFINE x == edit[r].year
<1>1. /\ x \in z.years /\ edit[r].overtaken \in BOOLEAN /\ edit[r].range \in z.ranges \cup {<<>>}
    BY DEF YearTypes, EditRows
<1>2. /\ year' = [year EXCEPT ![x] = row]
      /\ rushed' = IF edit[r].overtaken THEN rushed \cup {x} ELSE rushed \ {x}
      /\ edit' = [q \in z.requests |->
                   IF q = r THEN [at |-> "idle", overtaken |-> FALSE]
                   ELSE IF edit[q].at = "idle" THEN edit[q] ELSE [edit[q] EXCEPT !.overtaken = TRUE]]
    BY DEF Years!WriteDays, Years!Idle
<1>3. year' \in [z.years -> YearRows(z)] /\ year'[x] = row /\ \A y \in z.years \ {x} : year'[y] = year[y]
    BY <1>1, <1>2 DEF YearTypes
<1>4. ASSUME NEW q \in z.requests
      PROVE  edit'[q] \in EditRows(z) /\ (edit'[q].at \in {"create", "update"} => edit'[q].overtaken)
  <2>1. CASE q = r \/ edit[q].at = "idle"
      BY <1>2, <2>1 DEF YearTypes, EditRows
  <2>2. CASE q # r /\ edit[q].at # "idle"
    <3> DEFINE e == edit[q]
    <3>1. /\ e \in [at : {"create", "update", "rename", "activate"}, year : z.years,
                    range : z.ranges \cup {<<>>}, version : Nat, overtaken : BOOLEAN]
          /\ edit'[q] = [e EXCEPT !.overtaken = TRUE]
        BY <1>2, <2>2 DEF YearTypes, EditRows
    <3> HIDE DEF e
    <3> QED
        BY <3>1 DEF EditRows
  <2> QED
      BY <2>1, <2>2
<1>5. edit' \in [z.requests -> EditRows(z)]
    BY <1>2, <1>4
<1>6. YearTypes(z)'
    BY <1>1, <1>2, <1>3, <1>5 DEF YearTypes, YearRows, EditRows
<1>7. OneYearIsCurrent(z)'
    BY <1>1, <1>3 DEF OneYearIsCurrent
<1>8. DaysAreFree(z)'
    BY <1>4 DEF DaysAreFree
<1>9. Years(z)!OverlapIsRaced'
  <2>1. ASSUME NEW y \in z.years \ {x}, Years(z)!Exists(y), row.range # <<>>, ~edit[r].overtaken
        PROVE  ~Years(z)!Meet(year[y].range, row.range) /\ ~Years(z)!Meet(row.range, year[y].range)
    <3>1. ~Years(z)!Meet(year[y].range, row.range)
        BY <1>1, <2>1 DEF DaysAreFree
    <3>2. year[y].range \in Int \X Int /\ row.range \in Int \X Int
        BY <1>1, <2>1 DEF YearTypes, YearRows, YearSize, Years!Exists, Years!NoRange
    <3> QED
        BY <3>1, <3>2, MeetingIsMutual
  <2>2. \A y \in z.years : Years(z)!Exists(y)' <=> year'[y].range # <<>>
      BY DEF Years!Exists, Years!NoRange
  <2>3. ASSUME NEW a \in z.years, NEW b \in z.years, a # b, year'[a].range # <<>>, year'[b].range # <<>>,
               Years(z)!Meet(year'[a].range, year'[b].range)
        PROVE  a \in rushed' \/ b \in rushed'
    <3>1. CASE edit[r].overtaken /\ x \in {a, b}
        BY <1>2, <3>1
    <3>2. CASE ~edit[r].overtaken /\ x \in {a, b}
        BY <1>3, <2>1, <2>3, <3>2 DEF Years!Exists, Years!NoRange
    <3>3. CASE x \notin {a, b}
        BY <1>2, <1>3, <2>3, <3>3 DEF Years!OverlapIsRaced, Years!Exists, Years!NoRange
    <3> QED
        BY <1>1, <3>1, <3>2, <3>3
  <2> QED
      BY <2>2, <2>3 DEF Years!OverlapIsRaced, Years!Meet
<1> QED
    BY <1>6, <1>7, <1>8, <1>9

\* A handler plans, or ends: the rows keep their days.
LEMMA DaysStay ==
  ASSUME NEW z, YearSize(z), YearInv(z), UNCHANGED rushed,
         year' \in [z.years -> YearRows(z)], \A y \in z.years : year'[y].range = year[y].range,
         NEW r \in z.requests, NEW e \in EditRows(z), edit' = [edit EXCEPT ![r] = e],
         e.at \in {"create", "update"} => Years(z)!Overlapping(e.range, e.year) = {}
  PROVE  YearTypes(z)' /\ DaysAreFree(z)' /\ Years(z)!OverlapIsRaced'
<1> USE DEF YearInv
<1>1. YearTypes(z)'
    BY DEF YearTypes, YearRows, EditRows
<1>2. \A q \in z.requests \ {r} : edit'[q] = edit[q]
    BY DEF YearTypes
<1>3. edit'[r] = e
    BY DEF YearTypes
<1>4. DaysAreFree(z)'
    BY <1>2, <1>3 DEF DaysAreFree, Years!Overlapping, Years!Exists, Years!NoRange
<1>5. Years(z)!OverlapIsRaced'
    BY DEF Years!OverlapIsRaced, Years!Exists, Years!NoRange
<1> QED
    BY <1>1, <1>4, <1>5

\* Versions of years are numbers.
LEMMA VersionsAreNumbers ==
  ASSUME NEW z, YearSize(z), YearTypes(z) PROVE \A y \in z.years : year[y].version \in Nat
<1> TAKE y \in z.years
<1>1. year[y].version \in 0 .. z.maxVersion + 1
    BY DEF YearTypes, YearRows
<1> QED
    BY <1>1 DEF YearSize

\* A row takes new days, and a new version as long as it has not run out of them.
LEMMA YearRow ==
  ASSUME NEW z, YearSize(z), NEW row \in YearRows(z)
  PROVE  /\ row.version < z.maxVersion =>
              /\ \A range \in z.ranges \cup {<<>>} :
                   [row EXCEPT !.range = range, !.version = @ + 1] \in YearRows(z)
              /\ [row EXCEPT !.version = @ + 1] \in YearRows(z)
              /\ [row EXCEPT !.current = TRUE, !.version = @ + 1] \in YearRows(z)
         /\ row.current => [row EXCEPT !.current = FALSE, !.version = @ + 1] \in YearRows(z)
         /\ [row EXCEPT !.version = @ + 1].range = row.range
         /\ [row EXCEPT !.version = @ + 1].current = row.current
         /\ \A b : /\ [row EXCEPT !.current = b, !.version = @ + 1].range = row.range
                   /\ [row EXCEPT !.current = b, !.version = @ + 1].current = b
<1>1. /\ row.range \in z.ranges \cup {<<>>} /\ row.version \in 0 .. z.maxVersion + 1
      /\ row.current \in BOOLEAN /\ (row.current => row.version <= z.maxVersion)
      /\ row \in [range : z.ranges \cup {<<>>}, current : BOOLEAN, version : 0 .. z.maxVersion + 1]
    BY DEF YearRows
<1>2. /\ row.version \in Nat
      /\ row.version < z.maxVersion =>
           row.version + 1 \in 0 .. z.maxVersion + 1 /\ row.version + 1 <= z.maxVersion
      /\ row.current => row.version + 1 \in 0 .. z.maxVersion + 1
    BY <1>1 DEF YearSize
<1>3. ASSUME row.version < z.maxVersion
      PROVE  /\ \A range \in z.ranges \cup {<<>>} :
                  [row EXCEPT !.range = range, !.version = @ + 1] \in YearRows(z)
             /\ [row EXCEPT !.version = @ + 1] \in YearRows(z)
             /\ [row EXCEPT !.current = TRUE, !.version = @ + 1] \in YearRows(z)
    BY <1>1, <1>2, <1>3 DEF YearRows
<1>4. ASSUME row.current PROVE [row EXCEPT !.current = FALSE, !.version = @ + 1] \in YearRows(z)
    BY <1>1, <1>2, <1>4 DEF YearRows
<1>5. /\ [row EXCEPT !.version = @ + 1].range = row.range
      /\ [row EXCEPT !.version = @ + 1].current = row.current
      /\ \A b : /\ [row EXCEPT !.current = b, !.version = @ + 1].range = row.range
                /\ [row EXCEPT !.current = b, !.version = @ + 1].current = b
    BY <1>1
<1> QED
    BY <1>3, <1>4, <1>5

\* A school keeps its years.
LEMMA YearKeeps ==
  ASSUME NEW z, YearSize(z), YearInv(z), Years(z)!Next \/ UNCHANGED yearVars
  PROVE  YearInv(z)'
<1> USE DEF YearInv, YearTypes
<1>1. CASE UNCHANGED yearVars
    BY <1>1 DEF yearVars, YearRows, EditRows, OneYearIsCurrent, DaysAreFree, Years!OverlapIsRaced,
       Years!Exists, Years!Meet
<1>2. ASSUME NEW r \in z.requests, NEW y \in z.years, NEW range \in z.ranges,
             Years(z)!Create(r, y, range) \/ Years(z)!Update(r, y, range)
      PROVE  YearInv(z)'
  <2>1. PICK op \in {"create", "update"} :
          /\ Years(z)!Overlapping(range, y) = {} /\ UNCHANGED <<year, rushed>>
          /\ \E v \in {0, year[y].version} : Years(z)!Plan(r, op, y, range, v)
      BY <1>2 DEF Years!Create, Years!Update
  <2>2. PICK v \in {0, year[y].version} : Years(z)!Plan(r, op, y, range, v)
      BY <2>1
  <2> DEFINE e == [at |-> op, year |-> y, range |-> range, version |-> v, overtaken |-> FALSE]
  <2>3. v \in Nat
      BY VersionsAreNumbers
  <2>5. e \in EditRows(z)
      BY <2>1, <2>3 DEF EditRows
  <2>6. edit' = [edit EXCEPT ![r] = e]
      BY <2>2 DEF Years!Plan
  <2>4. e.range = range /\ e.year = y
      OBVIOUS
  <2> HIDE DEF e
  <2> QED
      BY <2>1, <2>4, <2>5, <2>6, DaysStay DEF OneYearIsCurrent
<1>3. ASSUME NEW r \in z.requests, NEW y \in z.years, Years(z)!Rename(r, y) \/ Years(z)!Activate(r, y)
      PROVE  YearInv(z)'
  <2>1. PICK op \in {"rename", "activate"} : Years(z)!Plan(r, op, y, <<>>, year[y].version)
      BY <1>3 DEF Years!Rename, Years!Activate, Years!NoRange
  <2> DEFINE e == [at |-> op, year |-> y, range |-> <<>>, version |-> year[y].version,
                   overtaken |-> FALSE]
  <2>4. year[y].version \in Nat
      BY VersionsAreNumbers
  <2>2. e \in EditRows(z) /\ edit' = [edit EXCEPT ![r] = e]
      BY <2>1, <2>4 DEF Years!Plan, EditRows
  <2>3. e.at \notin {"create", "update"} /\ UNCHANGED <<year, rushed>>
      BY <1>3, <2>1 DEF Years!Rename, Years!Activate
  <2> HIDE DEF e
  <2> QED
      BY <2>2, <2>3, DaysStay DEF OneYearIsCurrent
<1>4. ASSUME NEW r \in z.requests, Years(z)!Insert(r) PROVE YearInv(z)'
  <2> DEFINE row == [range |-> edit[r].range, current |-> FALSE, version |-> 1]
  <2>1. edit[r].at = "create" /\ Years(z)!WriteDays(r, row)
      BY <1>4 DEF Years!Insert
  <2>2. row.range = edit[r].range /\ ~row.current
      OBVIOUS
  <2>3. edit[r].range \in z.ranges \cup {<<>>} /\ 1 \in 0 .. z.maxVersion + 1
    <3>1. edit[r] \in EditRows(z)
        OBVIOUS
    <3>2. edit[r].range \in z.ranges \cup {<<>>}
        BY <2>1, <3>1 DEF EditRows
    <3> QED
        BY <3>2 DEF YearSize
  <2>4. row \in YearRows(z)
      BY <2>3 DEF YearRows
  <2> HIDE DEF row
  <2> QED
      BY <2>1, <2>2, <2>4, DaysWritten
<1>5. ASSUME NEW r \in z.requests, Years(z)!UpdateDays(r) PROVE YearInv(z)'
  <2> DEFINE y == edit[r].year
             row == [year[y] EXCEPT !.range = edit[r].range, !.version = @ + 1]
  <2>1. edit[r].at = "update" /\ year[y].version < z.maxVersion /\ Years(z)!WriteDays(r, row)
      BY <1>5 DEF Years!UpdateDays
  <2>2. year[y] \in YearRows(z) /\ edit[r].range \in z.ranges \cup {<<>>}
      BY <2>1 DEF EditRows
  <2>3. row \in YearRows(z) /\ row.range = edit[r].range /\ row.current = year[y].current
    <3> DEFINE was == year[y]
    <3>1. was \in YearRows(z) /\ row = [was EXCEPT !.range = edit[r].range, !.version = @ + 1]
        BY <2>2
    <3>2. row.range = edit[r].range /\ row.current = was.current
        BY <3>1 DEF YearRows
    <3> DEFINE days == edit[r].range
    <3>4. days \in z.ranges \cup {<<>>} /\ FALSE \in BOOLEAN
        BY <2>2
    <3> HIDE DEF was, days
    <3>5. was.version < z.maxVersion => [was EXCEPT !.range = days, !.version = @ + 1] \in YearRows(z)
        BY <3>1, <3>4, YearRow
    <3>3. was.version < z.maxVersion => row \in YearRows(z)
        BY <3>1, <3>5 DEF days
    <3> QED
        BY <2>1, <3>2, <3>3 DEF was
  <2> HIDE DEF row
  <2> QED
      BY <2>1, <2>3, DaysWritten
<1>6. ASSUME NEW r \in z.requests, Years(z)!UpdateName(r) \/ Years(z)!SetCurrent(r) \/ Years(z)!Rollback(r)
      PROVE  YearInv(z)'
  <2> DEFINE e == [at |-> "idle", overtaken |-> FALSE]
             y == edit[r].year
  <2>1. /\ e \in EditRows(z) /\ e.at \notin {"create", "update"}
        /\ edit' = [edit EXCEPT ![r] = e] /\ UNCHANGED rushed
      BY <1>6 DEF Years!UpdateName, Years!SetCurrent, Years!Rollback, Years!Idle, EditRows
  <2>2. /\ year' \in [z.years -> YearRows(z)] /\ \A x \in z.years : year'[x].range = year[x].range
        /\ OneYearIsCurrent(z)'
    <3>1. CASE Years(z)!Rollback(r)
        BY <3>1 DEF Years!Rollback, OneYearIsCurrent
    <3>2. CASE Years(z)!UpdateName(r)
      <4> DEFINE row == [year[y] EXCEPT !.version = @ + 1]
      <4>1. /\ edit[r] \in EditRows(z) /\ edit[r].at = "rename" /\ year[y].version < z.maxVersion
            /\ year' = [year EXCEPT ![y] = row]
          BY <3>2 DEF Years!UpdateName
      <4>2. y \in z.years
          BY <4>1 DEF EditRows
      <4>3. row \in YearRows(z) /\ row.range = year[y].range /\ row.current = year[y].current
          BY <4>1, <4>2, YearRow
      <4> HIDE DEF row, y
      <4> QED
          BY <4>1, <4>2, <4>3 DEF OneYearIsCurrent
    <3>3. CASE Years(z)!SetCurrent(r)
      <4>1. edit[r] \in EditRows(z) /\ edit[r].at = "activate" /\ year[y].version < z.maxVersion
          BY <3>3 DEF Years!SetCurrent
      <4>2. y \in z.years
          BY <4>1 DEF EditRows
      <4> DEFINE row(x) == IF x = y THEN [year[x] EXCEPT !.current = TRUE, !.version = @ + 1]
                           ELSE IF year[x].current
                           THEN [year[x] EXCEPT !.current = FALSE, !.version = @ + 1]
                           ELSE year[x]
      <4>3. year' = [x \in z.years |-> row(x)]
          BY <3>3 DEF Years!SetCurrent
      <4>4. ASSUME NEW x \in z.years
            PROVE  row(x) \in YearRows(z) /\ row(x).range = year[x].range /\ (row(x).current => x = y)
        <5> DEFINE was == year[x]
        <5>1. was \in YearRows(z) /\ (x = y => was.version < z.maxVersion)
            BY <4>1
        <5> HIDE DEF was
        <5>2. /\ x = y => [was EXCEPT !.current = TRUE, !.version = @ + 1] \in YearRows(z)
              /\ was.current => [was EXCEPT !.current = FALSE, !.version = @ + 1] \in YearRows(z)
              /\ [was EXCEPT !.current = TRUE, !.version = @ + 1].range = was.range
              /\ [was EXCEPT !.current = FALSE, !.version = @ + 1].range = was.range
              /\ [was EXCEPT !.current = FALSE, !.version = @ + 1].current = FALSE
            BY <5>1, YearRow
        <5> QED
            BY <5>1, <5>2 DEF was
      <4> HIDE DEF row, y
      <4> QED
          BY <4>2, <4>3, <4>4 DEF OneYearIsCurrent
    <3> QED
        BY <1>6, <3>1, <3>2, <3>3
  <2> HIDE DEF e
  <2> QED
      BY <2>1, <2>2, DaysStay
<1> QED
    BY <1>1, <1>2, <1>3, <1>4, <1>5, <1>6 DEF Years!Next

\* What a school shows of its years.
LEMMA YearShows ==
  ASSUME NEW z, YearSize(z), YearInv(z)
  PROVE  Years(z)!TypeOK /\ Years(z)!OneCurrent /\ Years(z)!OverlapIsRaced
<1> USE DEF YearInv
<1>1. Years(z)!TypeOK
    BY DEF Years!TypeOK, YearTypes, YearRows, EditRows, Years!NoRange
<1>2. Cardinality({y \in z.years : year[y].current}) <= 1
    BY OneAtMost DEF OneYearIsCurrent
<1>3. \A S : Years(z)!Cardinality(S) = Cardinality(S)
    BY DEF Years!Cardinality, Cardinality
<1>4. Years(z)!OneCurrent
    BY <1>2, <1>3 DEF Years!OneCurrent
<1> QED
    BY <1>1, <1>4

-----------------------------------------------------------------------------
(* Timetables                                                              *)

LiveRows(z) == [timetable : z.versions, section : z.sections, teacher : z.teachers, slot : z.slots]

NoRows == [timetable |-> 0, section |-> 0, teacher |-> 0, slot |-> 0]

LoadRows(z) == UNION {[ts -> [count : Nat, insert : BOOLEAN]] : ts \in SUBSET z.teachers}

RestingRows == [at : {"idle", "doomed"}, tally : {{}}, overtaken : {FALSE}]

HandlerRows(z) ==
  RestingRows
    \cup [at : {"create", "round", "update", "delete"}, entry : z.entries,
          row : LiveRows(z) \cup {NoRows}, timetable : z.versions, loads : LoadRows(z),
          tally : SUBSET z.teachers, overtaken : BOOLEAN]
    \cup [at : {"bulk"}, timetable : z.versions, tally : SUBSET z.teachers, overtaken : {FALSE}]
    \cup [at : {"tally"}, timetable : z.versions, tally : {{}}, overtaken : BOOLEAN,
          loads : LoadRows(z)]
    \cup [at : {"activate"}, tally : {{}}, overtaken : {FALSE}, target : z.versions,
          rows : SUBSET z.versions]

TimetableTypes(z) ==
  /\ status \in [z.versions -> {"absent", "DRAFT", "ACTIVE", "ARCHIVED", "deleted"}]
  /\ entry \in [z.entries -> LiveRows(z) \cup {NoRows}]
  /\ load \in [z.versions -> [z.teachers -> Nat \cup {-1}]]
  /\ handler \in [z.requests -> HandlerRows(z)]
  /\ squeezed \subseteq z.entries /\ stale \subseteq z.versions \X z.teachers

\* An entry stays in its timetable, with its teacher and in its slot.
InPlace(was, row) ==
  was.timetable = row.timetable /\ was.teacher = row.teacher /\ was.slot = row.slot

\* The row that a handler writes stays in place or has no teacher who is elsewhere, and its
\* loads are those of the entries with that row: unless it was overtaken.
PlanHolds(z, E, k) ==
  /\ k.at \in {"create", "round"} => E[k.entry].timetable = 0
  /\ k.at \in {"create", "round", "update"} => k.row \in LiveRows(z) /\ k.row.timetable = k.timetable
  /\ k.at = "delete" => k.row = NoRows
  /\ k.at \in {"create", "update"} => k.row.teacher \in DOMAIN k.loads
  /\ k.at \in {"update", "delete"} =>
       E[k.entry].timetable = k.timetable /\ E[k.entry].teacher \in DOMAIN k.loads
  /\ k.at \in {"create", "round", "update"} /\ ~k.overtaken =>
       \/ InPlace(E[k.entry], k.row)
       \/ \A f \in z.entries \ {k.entry} :
            E[f].timetable = k.row.timetable /\ E[f].slot = k.row.slot => E[f].teacher # k.row.teacher
  /\ k.at \in {"create", "update", "delete"} /\ ~k.overtaken =>
       \A t \in DOMAIN k.loads :
         k.loads[t].count = Timetables(z)!Taught([E EXCEPT ![k.entry] = k.row], k.timetable, t)
  /\ k.at = "tally" /\ ~k.overtaken =>
       \A t \in DOMAIN k.loads : k.loads[t].count = Timetables(z)!Taught(E, k.timetable, t)

PlansHold(z) == \A q \in z.requests : PlanHolds(z, entry, handler[q])

\* Two handlers fill different entries.
FillsAreApart(z) ==
  \A q, r \in z.requests :
    (handler[q].at \in {"create", "round"} /\ handler[r].at \in {"create", "round"}
     /\ handler[q].entry = handler[r].entry) => q = r

OneIsActive(z) == \A v, w \in z.versions : status[v] = "ACTIVE" /\ status[w] = "ACTIVE" => v = w

TimetableInv(z) ==
  /\ TimetableTypes(z) /\ PlansHold(z) /\ FillsAreApart(z) /\ OneIsActive(z)
  /\ Timetables(z)!BookedOnce /\ Timetables(z)!LoadsAreExplained

\* The size of a set is the same in the component and here.
LEMMA TimetableCardinality ==
  ASSUME NEW z PROVE \A S : Timetables(z)!Cardinality(S) = Cardinality(S)
    BY DEF Timetables!Cardinality, Cardinality

\* What a teacher has to do is a number, and depends on the teacher's entries alone.
LEMMA TaughtIsNumber ==
  ASSUME NEW z, TimetableSize(z), NEW E, NEW v, NEW t
  PROVE  Timetables(z)!Taught(E, v, t) \in Nat
<1> DEFINE S == {e \in z.entries : E[e].timetable = v /\ E[e].teacher = t}
<1>1. IsFiniteSet(S)
    BY FS_Subset DEF TimetableSize
<1>2. Cardinality(S) \in Nat
    BY <1>1, FS_CardinalityType
<1> QED
    BY <1>2, TimetableCardinality DEF Timetables!Taught

\* Who keeps their entries keeps their load.
LEMMA TaughtStays ==
  ASSUME NEW z, NEW E, NEW F, NEW v, NEW t,
         \A e \in z.entries :
           \/ F[e] = E[e]
           \/ ~(E[e].timetable = v /\ E[e].teacher = t) /\ ~(F[e].timetable = v /\ F[e].teacher = t)
  PROVE  Timetables(z)!Taught(F, v, t) = Timetables(z)!Taught(E, v, t)
<1>1. {e \in z.entries : E[e].timetable = v /\ E[e].teacher = t}
        = {e \in z.entries : F[e].timetable = v /\ F[e].teacher = t}
    OBVIOUS
<1> QED
    BY <1>1 DEF Timetables!Taught

\* A branch begins without timetables.
LEMMA TimetableBegins == ASSUME NEW z, TimetableSize(z), Timetables(z)!Init PROVE TimetableInv(z)
<1> USE DEF Timetables!Init, Timetables!NoEntry, Timetables!None, Timetables!NoRow, Timetables!Idle,
       TimetableSize
<1>1. TimetableTypes(z)
    BY DEF TimetableTypes, HandlerRows, RestingRows, NoRows
<1>2. PlansHold(z) /\ FillsAreApart(z) /\ OneIsActive(z)
    BY DEF PlansHold, PlanHolds, FillsAreApart, OneIsActive
<1>3. Timetables(z)!BookedOnce
    BY DEF Timetables!BookedOnce, Timetables!Live
<1>4. ASSUME NEW v \in z.versions, NEW t \in z.teachers
      PROVE  load[v][t] = -1 /\ Timetables(z)!Taught(entry, v, t) = 0
  <2>1. {e \in z.entries : entry[e].timetable = v /\ entry[e].teacher = t} = {}
      OBVIOUS
  <2>2. Timetables(z)!Taught(entry, v, t) = Cardinality({})
      BY <2>1, TimetableCardinality DEF Timetables!Taught
  <2> QED
      BY <2>2, FS_EmptySet
<1>5. Timetables(z)!LoadsAreExplained
    BY <1>4 DEF Timetables!LoadsAreExplained
<1> QED
    BY <1>1, <1>2, <1>3, <1>5 DEF TimetableInv

\* Handlers that plan or end change no entry.
LEMMA PlansOnly ==
  ASSUME NEW z, TimetableInv(z), UNCHANGED <<entry, load, squeezed, stale>>,
         status' \in [z.versions -> {"absent", "DRAFT", "ACTIVE", "ARCHIVED", "deleted"}],
         handler' \in [z.requests -> HandlerRows(z)], OneIsActive(z)', FillsAreApart(z)',
         \A q \in z.requests :
           \/ handler'[q] = handler[q] \/ handler'[q] \in RestingRows
           \/ PlanHolds(z, entry, handler'[q])
  PROVE  TimetableInv(z)'
<1> USE DEF TimetableInv
<1>1. TimetableTypes(z)'
    BY DEF TimetableTypes
<1>2. \A k \in RestingRows : PlanHolds(z, entry, k)
    BY DEF RestingRows, PlanHolds
<1>3. PlansHold(z)'
    BY <1>2 DEF PlansHold
<1>4. Timetables(z)!BookedOnce'
    BY DEF Timetables!BookedOnce, Timetables!Live
<1>5. \A v, t : Timetables(z)!Taught(entry, v, t)' = Timetables(z)!Taught(entry, v, t)
    BY DEF Timetables!Taught
<1>6. Timetables(z)!LoadsAreExplained'
    BY <1>5 DEF Timetables!LoadsAreExplained
<1> QED
    BY <1>1, <1>3, <1>4, <1>6

\* The rows of a handler under way, and of one that was overtaken.
LEMMA HandlerFields ==
  ASSUME NEW z, NEW k \in HandlerRows(z)
  PROVE  /\ k.at \in {"create", "round", "update", "delete"} =>
              /\ k.entry \in z.entries /\ k.row \in LiveRows(z) \cup {NoRows} /\ k.timetable \in z.versions
              /\ k.loads \in LoadRows(z) /\ k.tally \in SUBSET z.teachers /\ k.overtaken \in BOOLEAN
              /\ [k EXCEPT !.overtaken = TRUE] \in HandlerRows(z)
              /\ [k EXCEPT !.overtaken = TRUE].entry = k.entry
         /\ k.at = "bulk" => k.timetable \in z.versions /\ k.tally \in SUBSET z.teachers
         /\ k.at = "tally" => /\ k.timetable \in z.versions /\ k.loads \in LoadRows(z)
                              /\ k.overtaken \in BOOLEAN
                              /\ [k EXCEPT !.overtaken = TRUE] \in HandlerRows(z)
         /\ k.at \in {"create", "round", "update", "delete", "tally"} =>
              /\ [k EXCEPT !.overtaken = TRUE].at = k.at
              /\ [k EXCEPT !.overtaken = TRUE].overtaken
         /\ k.at = "activate" => k.rows \in SUBSET z.versions
         /\ k.at \in {"idle", "doomed"} => k \in RestingRows
         /\ k.at = "idle" => k.tally = {}
<1>1. CASE k \in RestingRows
    BY <1>1 DEF RestingRows
<1>2. CASE k \in [at : {"create", "round", "update", "delete"}, entry : z.entries,
                  row : LiveRows(z) \cup {NoRows}, timetable : z.versions, loads : LoadRows(z),
                  tally : SUBSET z.teachers, overtaken : BOOLEAN]
  <2>1. [k EXCEPT !.overtaken = TRUE]
          \in [at : {"create", "round", "update", "delete"}, entry : z.entries,
               row : LiveRows(z) \cup {NoRows}, timetable : z.versions, loads : LoadRows(z),
               tally : SUBSET z.teachers, overtaken : BOOLEAN]
      BY <1>2
  <2>2. [k EXCEPT !.overtaken = TRUE] \in HandlerRows(z)
      BY <2>1 DEF HandlerRows
  <2> QED
      BY <1>2, <2>2
<1>3. CASE k \in [at : {"bulk"}, timetable : z.versions, tally : SUBSET z.teachers, overtaken : {FALSE}]
    BY <1>3
<1>4. CASE k \in [at : {"tally"}, timetable : z.versions, tally : {{}}, overtaken : BOOLEAN,
                  loads : LoadRows(z)]
  <2>1. [k EXCEPT !.overtaken = TRUE]
          \in [at : {"tally"}, timetable : z.versions, tally : {{}}, overtaken : BOOLEAN,
               loads : LoadRows(z)]
      BY <1>4
  <2>2. [k EXCEPT !.overtaken = TRUE] \in HandlerRows(z)
      BY <2>1 DEF HandlerRows
  <2> QED
      BY <1>4, <2>2
<1>5. CASE k \in [at : {"activate"}, tally : {{}}, overtaken : {FALSE}, target : z.versions,
                  rows : SUBSET z.versions]
    BY <1>5
<1> QED
    BY <1>1, <1>2, <1>3, <1>4, <1>5 DEF HandlerRows

\* What an overtaken handler still knows.
LEMMA OvertakenPlanHolds ==
  ASSUME NEW z, NEW E, NEW F, NEW k \in HandlerRows(z), PlanHolds(z, E, k),
         k.at \in {"create", "round", "update", "delete", "tally"},
         k.at = "tally" \/ F[k.entry] = E[k.entry]
  PROVE  PlanHolds(z, F, [k EXCEPT !.overtaken = TRUE])
<1> DEFINE m == [k EXCEPT !.overtaken = TRUE]
<1>1. CASE k.at = "tally"
  <2>1. m.at = "tally" /\ m.overtaken
      BY <1>1, HandlerFields
  <2> HIDE DEF m
  <2> QED
      BY <2>1 DEF PlanHolds
<1>2. CASE k.at # "tally"
  <2>1. k \in [at : {"create", "round", "update", "delete"}, entry : z.entries,
               row : LiveRows(z) \cup {NoRows}, timetable : z.versions, loads : LoadRows(z),
               tally : SUBSET z.teachers, overtaken : BOOLEAN]
      BY <1>2 DEF HandlerRows, RestingRows
  <2>2. /\ m.at = k.at /\ m.entry = k.entry /\ m.row = k.row /\ m.timetable = k.timetable
        /\ m.loads = k.loads /\ m.overtaken
      BY <2>1
  <2> HIDE DEF m
  <2> QED
      BY <1>2, <2>2 DEF PlanHolds
<1> QED
    BY <1>1, <1>2

\* A handler that writes its entry leaves the others with what they still know.
LEMMA OthersAreOvertaken ==
  ASSUME NEW z, TimetableSize(z), TimetableInv(z), NEW r \in z.requests,
         handler[r].at \in {"create", "round", "update", "delete"},
         entry' = [entry EXCEPT ![handler[r].entry] = handler[r].row], NEW k \in HandlerRows(z),
         k \in RestingRows \/ k.at = "bulk", Timetables(z)!Overtake(r, handler[r].entry, k)
  PROVE  handler' \in [z.requests -> HandlerRows(z)] /\ PlansHold(z)' /\ FillsAreApart(z)'
<1> USE DEF TimetableInv, TimetableTypes
<1> DEFINE e == handler[r].entry
           Under == {"create", "round", "update", "delete", "tally"}
<1>1. e \in z.entries
    BY HandlerFields
<1>2. k.at \in {"idle", "doomed", "bulk"}
    BY DEF RestingRows
<1>3. handler' = [q \in z.requests |->
        CASE q = r -> k
          [] q # r /\ handler[q].at \in Under ->
               IF handler[q].at \in {"update", "delete"} /\ handler[q].entry = e
               THEN [at |-> "doomed", tally |-> {}, overtaken |-> FALSE]
               ELSE [handler[q] EXCEPT !.overtaken = TRUE]
          [] OTHER -> handler[q]]
    BY DEF Timetables!Overtake, Timetables!Doomed, Timetables!Idle
<1>4. ASSUME NEW q \in z.requests
      PROVE  /\ handler'[q] \in HandlerRows(z) /\ PlanHolds(z, entry', handler'[q])
             /\ handler'[q].at \in {"create", "round"} =>
                  /\ q # r /\ handler[q].at = handler'[q].at /\ handler'[q].entry = handler[q].entry
  <2>1. CASE q = r
      BY <1>2, <1>3, <2>1 DEF PlanHolds
  <2>2. CASE q # r /\ handler[q].at \notin Under
    <3>1. handler'[q] = handler[q]
        BY <1>3, <2>2
    <3> QED
        BY <2>2, <3>1 DEF PlanHolds
  <2>3. CASE q # r /\ handler[q].at \in {"update", "delete"} /\ handler[q].entry = e
    <3>1. handler'[q] = [at |-> "doomed", tally |-> {}, overtaken |-> FALSE]
        BY <1>3, <2>3
    <3> QED
        BY <3>1 DEF PlanHolds, HandlerRows, RestingRows
  <2>4. CASE /\ q # r /\ handler[q].at \in Under
             /\ ~(handler[q].at \in {"update", "delete"} /\ handler[q].entry = e)
    <3> DEFINE m == handler[q]
    <3>1. m \in HandlerRows(z) /\ PlanHolds(z, entry, m) /\ m.at \in Under
        BY <2>4 DEF PlansHold
    <3>2. handler'[q] = [m EXCEPT !.overtaken = TRUE]
        BY <1>3, <2>4
    <3>3. ASSUME m.at \in {"create", "round"} PROVE m.entry # e
      <4>1. CASE handler[r].at \in {"create", "round"}
          BY <2>4, <3>3, <4>1 DEF FillsAreApart
      <4>2. CASE handler[r].at \in {"update", "delete"}
        <5>1. entry[e].timetable = handler[r].timetable /\ handler[r].timetable \in z.versions
            BY <4>2, HandlerFields DEF PlansHold, PlanHolds
        <5>2. entry[m.entry].timetable = 0
            BY <3>1, <3>3 DEF PlanHolds
        <5> QED
            BY <5>1, <5>2 DEF TimetableSize
      <4> QED
          BY <4>1, <4>2
    <3>4. m.at = "tally" \/ entry'[m.entry] = entry[m.entry]
        BY <1>1, <2>4, <3>1, <3>3, HandlerFields
    <3> HIDE DEF m
    <3>5. /\ [m EXCEPT !.overtaken = TRUE] \in HandlerRows(z)
          /\ [m EXCEPT !.overtaken = TRUE].at = m.at
          /\ m.at # "tally" => [m EXCEPT !.overtaken = TRUE].entry = m.entry
        BY <3>1, HandlerFields
    <3>6. PlanHolds(z, entry', [m EXCEPT !.overtaken = TRUE])
        BY <3>1, <3>4, OvertakenPlanHolds
    <3> QED
        BY <2>4, <3>2, <3>5, <3>6 DEF m
  <2> QED
      BY <2>1, <2>2, <2>3, <2>4
<1>5. handler' \in [z.requests -> HandlerRows(z)]
    BY <1>3, <1>4
<1>6. PlansHold(z)'
    BY <1>4 DEF PlansHold
<1>7. FillsAreApart(z)'
    BY <1>4 DEF FillsAreApart
<1> QED
    BY <1>5, <1>6, <1>7

\* An entry that is written is where no other entry of its section is. It is where it was, or
\* its teacher's others are elsewhere unless the handler was overtaken.
LEMMA RowWritten ==
  ASSUME NEW z, TimetableSize(z), TimetableInv(z), NEW r \in z.requests,
         handler[r].at \in {"create", "round", "update", "delete"}, Timetables(z)!WriteRow(r)
  PROVE  /\ entry' = [entry EXCEPT ![handler[r].entry] = handler[r].row]
         /\ entry' \in [z.entries -> LiveRows(z) \cup {NoRows}]
         /\ squeezed' \subseteq z.entries /\ status' = status
         /\ Timetables(z)!BookedOnce'
<1> USE DEF TimetableInv, TimetableTypes
<1> DEFINE e == handler[r].entry
           row == handler[r].row
<1>1. e \in z.entries /\ row \in LiveRows(z) \cup {NoRows}
    BY HandlerFields
<1>2. /\ entry' = [entry EXCEPT ![e] = row] /\ status' = status
      /\ InPlace(entry[e], row) => squeezed' = squeezed
      /\ ~InPlace(entry[e], row) =>
           squeezed' = IF handler[r].overtaken /\ row # NoRows THEN squeezed \cup {e} ELSE squeezed \ {e}
      /\ row.timetable # 0 => \A f \in z.entries \ {e} :
           entry[f].timetable = row.timetable /\ entry[f].slot = row.slot
             => entry[f].section # row.section
    BY DEF Timetables!WriteRow, Timetables!SlotIsFree, Timetables!InSlot, Timetables!Place,
       Timetables!None, Timetables!NoEntry, NoRows, InPlace
<1>3. entry' \in [z.entries -> LiveRows(z) \cup {NoRows}] /\ squeezed' \subseteq z.entries
    BY <1>1, <1>2
<1>4. row.timetable # 0 /\ ~handler[r].overtaken /\ ~InPlace(entry[e], row) =>
        \A f \in z.entries \ {e} :
          entry[f].timetable = row.timetable /\ entry[f].slot = row.slot => entry[f].teacher # row.teacher
  <2>1. PlanHolds(z, entry, handler[r])
      BY DEF PlansHold
  <2>2. handler[r].at = "delete" => row.timetable = 0
      BY <2>1 DEF PlanHolds, NoRows
  <2> QED
      BY <2>1, <2>2 DEF PlanHolds
<1>5. handler[r].overtaken /\ row.timetable # 0 /\ ~InPlace(entry[e], row) => e \in squeezed'
    BY <1>1, <1>2 DEF NoRows
<1>6. /\ entry'[e] = row /\ \A f \in z.entries \ {e} : entry'[f] = entry[f]
      /\ \A f \in z.entries \ {e} : f \in squeezed => f \in squeezed'
    BY <1>1, <1>2
<1>7. \A f, g \in z.entries :
        (f # g /\ entry[f].timetable # 0 /\ entry[f].timetable = entry[g].timetable
         /\ entry[f].slot = entry[g].slot)
          => /\ entry[f].section # entry[g].section
             /\ entry[f].teacher = entry[g].teacher => f \in squeezed \/ g \in squeezed
    BY DEF Timetables!BookedOnce, Timetables!Live, Timetables!None
<1> HIDE DEF e, row
<1>8. ASSUME NEW f \in z.entries, NEW g \in z.entries, f # g, entry'[f].timetable # 0,
             entry'[f].timetable = entry'[g].timetable, entry'[f].slot = entry'[g].slot
      PROVE  /\ entry'[f].section # entry'[g].section
             /\ entry'[f].teacher = entry'[g].teacher => f \in squeezed' \/ g \in squeezed'
  <2>1. ASSUME InPlace(entry[e], row)
        PROVE  entry'[f].teacher = entry'[g].teacher => f \in squeezed' \/ g \in squeezed'
    <3>1. ASSUME NEW h \in z.entries
          PROVE  /\ entry'[h].timetable = entry[h].timetable /\ entry'[h].slot = entry[h].slot
                 /\ entry'[h].teacher = entry[h].teacher
        BY <1>1, <1>6, <2>1 DEF InPlace
    <3>2. squeezed' = squeezed
        BY <1>2, <2>1
    <3> QED
        BY <1>7, <1>8, <3>1, <3>2
  <2>2. CASE f = e
      BY <1>1, <1>2, <1>4, <1>5, <1>6, <1>8, <2>1, <2>2
  <2>3. CASE g = e
      BY <1>1, <1>2, <1>4, <1>5, <1>6, <1>8, <2>1, <2>3
  <2>4. CASE f # e /\ g # e
      BY <1>6, <1>7, <1>8, <2>4
  <2> QED
      BY <2>2, <2>3, <2>4
<1>9. Timetables(z)!BookedOnce'
    BY <1>8 DEF Timetables!BookedOnce, Timetables!Live, Timetables!None
<1> QED
    BY <1>2, <1>3, <1>9 DEF e, row

\* The loads of the teachers an entry handler touches are counted with its row, those of the
\* others stay what they are.
LEMMA TouchedTeachers ==
  ASSUME NEW z, TimetableSize(z), TimetableInv(z), NEW r \in z.requests,
         handler[r].at \in {"create", "update", "delete"}, NEW v \in z.versions, NEW t \in z.teachers,
         entry' = [entry EXCEPT ![handler[r].entry] = handler[r].row]
  PROVE  IF v = handler[r].timetable /\ t \in DOMAIN handler[r].loads
         THEN handler[r].overtaken
                \/ handler[r].loads[t].count = Timetables(z)!Taught(entry', v, t)
         ELSE Timetables(z)!Taught(entry', v, t) = Timetables(z)!Taught(entry, v, t)
<1> USE DEF TimetableInv, TimetableTypes
<1> DEFINE k == handler[r]
<1>1. k \in HandlerRows(z) /\ PlanHolds(z, entry, k)
    BY DEF PlansHold
<1>2. k.entry \in z.entries
    BY <1>1, HandlerFields
<1>3. CASE v = k.timetable /\ t \in DOMAIN k.loads
    BY <1>1, <1>3 DEF PlanHolds
<1>4. CASE ~(v = k.timetable /\ t \in DOMAIN k.loads)
  <2>1. ~(entry[k.entry].timetable = v /\ entry[k.entry].teacher = t)
      BY <1>1, <1>4 DEF PlanHolds, TimetableSize
  <2>2. ~(k.row.timetable = v /\ k.row.teacher = t)
      BY <1>1, <1>4 DEF PlanHolds, TimetableSize, NoRows
  <2> QED
    <3> DEFINE next == entry'
    <3>1. \A f \in z.entries :
            \/ next[f] = entry[f]
            \/ ~(entry[f].timetable = v /\ entry[f].teacher = t)
               /\ ~(next[f].timetable = v /\ next[f].teacher = t)
        BY <1>2, <2>1, <2>2
    <3> HIDE DEF next
    <3>2. Timetables(z)!Taught(next, v, t) = Timetables(z)!Taught(entry, v, t)
        BY <3>1, TaughtStays
    <3> QED
        BY <1>4, <3>2 DEF next
<1> QED
    BY <1>3, <1>4

\* The loads a handler writes are what the entries say, or its own.
LEMMA LoadsWritten ==
  ASSUME NEW z, TimetableSize(z), TimetableInv(z), NEW r \in z.requests,
         handler[r].at \in {"create", "update", "delete", "tally"},
         Timetables(z)!WriteLoads(r, handler[r].timetable, handler[r].loads),
         \A v \in z.versions, t \in z.teachers :
           IF v = handler[r].timetable /\ t \in DOMAIN handler[r].loads
           THEN handler[r].overtaken
                  \/ handler[r].loads[t].count = Timetables(z)!Taught(entry', v, t)
           ELSE Timetables(z)!Taught(entry', v, t) = Timetables(z)!Taught(entry, v, t)
  PROVE  /\ load' \in [z.versions -> [z.teachers -> Nat \cup {-1}]]
         /\ stale' \subseteq z.versions \X z.teachers
         /\ Timetables(z)!LoadsAreExplained'
<1> USE DEF TimetableInv, TimetableTypes
<1> DEFINE k == handler[r]
           v == k.timetable
<1>1. /\ v \in z.versions /\ k.overtaken \in BOOLEAN /\ DOMAIN k.loads \subseteq z.teachers
      /\ \A t \in DOMAIN k.loads : k.loads[t].count \in Nat
  <2>1. v \in z.versions /\ k.overtaken \in BOOLEAN /\ k.loads \in LoadRows(z)
      BY HandlerFields
  <2>2. PICK ts \in SUBSET z.teachers : k.loads \in [ts -> [count : Nat, insert : BOOLEAN]]
      BY <2>1 DEF LoadRows
  <2> QED
      BY <2>1, <2>2
<1>2. /\ load' = [load EXCEPT ![v] =
                    [t \in z.teachers |-> IF t \in DOMAIN k.loads THEN k.loads[t].count ELSE load[v][t]]]
      /\ stale' = IF k.overtaken THEN stale \cup ({v} \X DOMAIN k.loads)
                                 ELSE stale \ ({v} \X DOMAIN k.loads)
    BY DEF Timetables!WriteLoads
<1> HIDE DEF k, v
<1>3. load' \in [z.versions -> [z.teachers -> Nat \cup {-1}]]
  <2> DEFINE new == [t \in z.teachers |-> IF t \in DOMAIN k.loads THEN k.loads[t].count ELSE load[v][t]]
  <2>1. new \in [z.teachers -> Nat \cup {-1}]
      BY <1>1
  <2> HIDE DEF new
  <2>2. load' = [load EXCEPT ![v] = new]
      BY <1>2 DEF new
  <2> QED
      BY <1>1, <2>1, <2>2
<1>4. stale' \subseteq z.versions \X z.teachers
    BY <1>1, <1>2
<1>5. ASSUME NEW x \in z.versions, NEW t \in z.teachers
      PROVE  \/ load'[x][t] = Timetables(z)!Taught(entry', x, t)
             \/ load'[x][t] = -1 /\ Timetables(z)!Taught(entry', x, t) = 0
             \/ <<x, t>> \in stale'
  <2>1. CASE x = v /\ t \in DOMAIN k.loads
    <3>1. load'[x][t] = k.loads[t].count
        BY <1>1, <1>2, <2>1
    <3>2. k.overtaken => <<x, t>> \in stale'
        BY <1>2, <2>1
    <3>3. k.overtaken \/ k.loads[t].count = Timetables(z)!Taught(entry', x, t)
        BY <2>1 DEF k, v
    <3> QED
        BY <3>1, <3>2, <3>3
  <2>2. CASE ~(x = v /\ t \in DOMAIN k.loads)
    <3>1. load'[x][t] = load[x][t]
        BY <1>1, <1>2, <2>2
    <3>2. <<x, t>> \in stale => <<x, t>> \in stale'
        BY <1>2, <2>2
    <3>3. Timetables(z)!Taught(entry', x, t) = Timetables(z)!Taught(entry, x, t)
        BY <2>2 DEF k, v
    <3> QED
        BY <3>1, <3>2, <3>3 DEF Timetables!LoadsAreExplained, Timetables!NoRow
  <2> QED
      BY <2>1, <2>2
<1>6. \A x, t : Timetables(z)!Taught(entry, x, t)' = Timetables(z)!Taught(entry', x, t)
    BY DEF Timetables!Taught
<1>7. Timetables(z)!LoadsAreExplained'
    BY <1>5, <1>6 DEF Timetables!LoadsAreExplained, Timetables!NoRow
<1> QED
    BY <1>3, <1>4, <1>7

\* Loads that are computed count what each of the teachers has to do.
LEMMA LoadsComputed ==
  ASSUME NEW z, TimetableSize(z), NEW E, NEW v, NEW ts \in SUBSET z.teachers
  PROVE  LET loads == Timetables(z)!Recompute(E, v, ts)
         IN /\ loads \in LoadRows(z) /\ DOMAIN loads = ts
            /\ \A t \in ts : loads[t].count = Timetables(z)!Taught(E, v, t)
<1> DEFINE loads == Timetables(z)!Recompute(E, v, ts)
<1>1. loads = [t \in ts |-> [count |-> Timetables(z)!Taught(E, v, t), insert |-> load[v][t] = -1]]
    BY DEF Timetables!Recompute, Timetables!NoRow
<1>2. \A t \in ts : Timetables(z)!Taught(E, v, t) \in Nat /\ (load[v][t] = -1) \in BOOLEAN
    BY TaughtIsNumber
<1>3. loads \in [ts -> [count : Nat, insert : BOOLEAN]]
    BY <1>1, <1>2
<1>4. loads \in LoadRows(z)
    BY <1>3 DEF LoadRows
<1> QED
    BY <1>1, <1>4

\* One handler plans, and nothing else happens.
LEMMA OnePlans ==
  ASSUME NEW z, TimetableInv(z), UNCHANGED <<status, entry, load, squeezed, stale>>,
         NEW r \in z.requests, NEW k \in HandlerRows(z), handler' = [handler EXCEPT ![r] = k],
         k \in RestingRows \/ PlanHolds(z, entry, k),
         k.at \in {"create", "round"} => \A q \in z.requests :
           handler[q].at \in {"create", "round"} => handler[q].entry # k.entry
  PROVE  TimetableInv(z)'
<1>1. /\ handler'[r] = k /\ \A q \in z.requests \ {r} : handler'[q] = handler[q]
      /\ handler' \in [z.requests -> HandlerRows(z)]
    BY DEF TimetableInv, TimetableTypes
<1>2. FillsAreApart(z)'
    BY <1>1 DEF TimetableInv, FillsAreApart
<1>3. OneIsActive(z)' /\ status' \in [z.versions -> {"absent", "DRAFT", "ACTIVE", "ARCHIVED", "deleted"}]
    BY DEF TimetableInv, TimetableTypes, OneIsActive
<1>4. \A q \in z.requests :
        \/ handler'[q] = handler[q] \/ handler'[q] \in RestingRows
        \/ PlanHolds(z, entry, handler'[q])
    BY <1>1
<1> QED
    BY <1>1, <1>2, <1>3, <1>4, PlansOnly

\* An entry that is valid is planned.
LEMMA EntryPlanned ==
  ASSUME NEW z, TimetableSize(z), TimetableInv(z), NEW r \in z.requests, NEW e \in z.entries,
         NEW op \in {"create", "round", "update"}, NEW row \in LiveRows(z),
         Timetables(z)!Validate(row, e), NEW ts \in SUBSET z.teachers,
         Timetables(z)!Plan(r, op, e, row, row.timetable, ts), handler[r].tally \in SUBSET z.teachers,
         op # "round" => row.teacher \in ts,
         op = "update" => entry[e].timetable = row.timetable /\ entry[e].teacher \in ts,
         op # "update" => entry[e].timetable = 0 /\ \A q \in z.requests :
           handler[q].at \in {"create", "round"} => handler[q].entry # e
  PROVE  TimetableInv(z)'
<1> DEFINE v == row.timetable
           loads == Timetables(z)!Recompute([entry EXCEPT ![e] = row], v, ts)
           k == [at |-> op, entry |-> e, row |-> row, timetable |-> v, loads |-> loads,
                 tally |-> handler[r].tally, overtaken |-> FALSE]
<1>1. v \in z.versions
    BY DEF LiveRows
<1>2. /\ loads \in LoadRows(z) /\ DOMAIN loads = ts
      /\ \A t \in ts : loads[t].count = Timetables(z)!Taught([entry EXCEPT ![e] = row], v, t)
    BY LoadsComputed
<1>3. UNCHANGED <<status, entry, load, squeezed, stale>> /\ handler' = [handler EXCEPT ![r] = k]
    BY DEF Timetables!Plan
<1>4. \/ InPlace(entry[e], row)
      \/ \A f \in z.entries \ {e} :
           entry[f].timetable = v /\ entry[f].slot = row.slot => entry[f].teacher # row.teacher
    BY DEF Timetables!Validate, Timetables!MayPass, Timetables!InSlot, InPlace
<1> HIDE DEF loads, v
<1>5. k \in HandlerRows(z)
  <2>1. k \in [at : {"create", "round", "update", "delete"}, entry : z.entries,
               row : LiveRows(z) \cup {NoRows}, timetable : z.versions, loads : LoadRows(z),
               tally : SUBSET z.teachers, overtaken : BOOLEAN]
      BY <1>1, <1>2
  <2> QED
      BY <2>1 DEF HandlerRows
<1>6. PlanHolds(z, entry, k)
  <2>1. k.at = op /\ k.entry = e /\ k.row = row /\ k.timetable = v /\ k.loads = loads
      OBVIOUS
  <2> HIDE DEF k
  <2> QED
      BY <1>2, <1>4, <2>1 DEF PlanHolds, v
<1>7. k.at = op /\ k.entry = e
    OBVIOUS
<1> HIDE DEF k
<1> QED
    BY <1>3, <1>5, <1>6, <1>7, OnePlans

\* A handler that ends, and the versions that move, leave the entries.
LEMMA VersionsMove ==
  ASSUME NEW z, TimetableInv(z), UNCHANGED <<entry, load, squeezed, stale>>,
         status' \in [z.versions -> {"absent", "DRAFT", "ACTIVE", "ARCHIVED", "deleted"}],
         OneIsActive(z)', DOMAIN handler' = z.requests, handler' = [q \in z.requests |-> handler'[q]],
         \A q \in z.requests : handler'[q] = handler[q] \/ handler'[q] \in RestingRows
  PROVE  TimetableInv(z)'
<1>1. handler' \in [z.requests -> HandlerRows(z)]
    BY DEF TimetableInv, TimetableTypes, HandlerRows
<1>2. FillsAreApart(z)'
    BY DEF TimetableInv, FillsAreApart, RestingRows
<1> QED
    BY <1>1, <1>2, PlansOnly

\* A branch keeps its timetables.
LEMMA TimetableKeeps ==
  ASSUME NEW z, TimetableSize(z), TimetableInv(z), Timetables(z)!Next \/ UNCHANGED timetableVars
  PROVE  TimetableInv(z)'
<1> USE DEF TimetableInv, TimetableTypes
<1>1. CASE UNCHANGED timetableVars
  <2>1. OneIsActive(z)'
      BY <1>1 DEF timetableVars, OneIsActive
  <2> QED
      BY <1>1, <2>1, VersionsMove DEF timetableVars
<1>2. ASSUME NEW r \in z.requests, NEW e \in z.entries, NEW v \in z.versions, NEW c \in z.sections,
             NEW t \in z.teachers, NEW s \in z.slots,
             Timetables(z)!CreateEntry(r, e, v, c, t, s) \/ Timetables(z)!BulkRound(r, e, v, c, t, s)
      PROVE  TimetableInv(z)'
  <2> DEFINE row == [timetable |-> v, section |-> c, teacher |-> t, slot |-> s]
  <2>1. row \in LiveRows(z) /\ row.timetable = v /\ row.teacher = t
      BY DEF LiveRows
  <2>2. PICK op \in {"create", "round"}, ts \in {{t}, {}} :
          /\ op = "create" => ts = {t}
          /\ Timetables(z)!Validate(row, e) /\ Timetables(z)!Plan(r, op, e, row, v, ts)
    <3>1. CASE Timetables(z)!CreateEntry(r, e, v, c, t, s)
      <4>1. Timetables(z)!Validate(row, e) /\ Timetables(z)!Plan(r, "create", e, row, v, {t})
          BY <3>1 DEF Timetables!CreateEntry, Timetables!Draft
      <4> QED
          BY <4>1
    <3>2. CASE Timetables(z)!BulkRound(r, e, v, c, t, s)
      <4>1. Timetables(z)!Validate(row, e) /\ Timetables(z)!Plan(r, "round", e, row, v, {})
          BY <3>2 DEF Timetables!BulkRound, Timetables!Draft
      <4> QED
          BY <4>1
    <3> QED
        BY <1>2, <3>1, <3>2
  <2>3. /\ entry[e].timetable = 0
        /\ \A q \in z.requests : handler[q].at \in {"create", "round"} => handler[q].entry # e
        /\ handler[r].at \in {"idle", "bulk"}
      BY <1>2 DEF Timetables!CreateEntry, Timetables!BulkRound, Timetables!Unused, Timetables!Live,
         Timetables!None
  <2>4. handler[r].tally \in SUBSET z.teachers
      BY <2>3, HandlerFields
  <2>5. ts \in SUBSET z.teachers /\ (op # "round" => t \in ts) /\ op \in {"create", "round", "update"}
      BY <2>2
  <2> HIDE DEF row
  <2>6. Timetables(z)!Plan(r, op, e, row, row.timetable, ts) /\ (op # "round" => row.teacher \in ts)
      BY <2>1, <2>2, <2>5
  <2>7. /\ op = "update" => entry[e].timetable = row.timetable /\ entry[e].teacher \in ts
        /\ op # "update" => entry[e].timetable = 0 /\ \A q \in z.requests :
             handler[q].at \in {"create", "round"} => handler[q].entry # e
      BY <2>2, <2>3
  <2>8. /\ Timetables(z)!Validate(row, e) /\ row \in LiveRows(z)
        /\ op \in {"create", "round", "update"} /\ ts \in SUBSET z.teachers
      BY <2>1, <2>2, <2>5
  <2> HIDE DEF TimetableInv, TimetableTypes
  <2> QED
      BY <2>4, <2>6, <2>7, <2>8, EntryPlanned
<1>3. ASSUME NEW r \in z.requests, NEW e \in z.entries, NEW t \in z.teachers, NEW s \in z.slots,
             Timetables(z)!UpdateEntry(r, e, t, s)
      PROVE  TimetableInv(z)'
  <2> DEFINE was == entry[e]
             row == [was EXCEPT !.teacher = t, !.slot = s]
             ts == {was.teacher, t}
  <2>1. /\ handler[r].at = "idle" /\ was.timetable # 0
        /\ Timetables(z)!Validate(row, e) /\ Timetables(z)!Plan(r, "update", e, row, row.timetable, ts)
      BY <1>3 DEF Timetables!UpdateEntry, Timetables!Editable, Timetables!None
  <2>2. was \in LiveRows(z)
      BY <2>1 DEF NoRows
  <2>3. /\ row \in LiveRows(z) /\ row.timetable = was.timetable /\ row.teacher = t
        /\ was.teacher \in z.teachers
      BY <2>2 DEF LiveRows
  <2>4. handler[r].tally \in SUBSET z.teachers
      BY <2>1, HandlerFields
  <2>5. ts \in SUBSET z.teachers /\ was.teacher \in ts /\ row.teacher \in ts
      BY <2>3
  <2>6. entry[e].timetable = row.timetable /\ entry[e].teacher \in ts
      BY <2>3
  <2> HIDE DEF row, was, ts
  <2> QED
      BY <2>1, <2>3, <2>4, <2>5, <2>6, EntryPlanned
<1>4. ASSUME NEW r \in z.requests, NEW e \in z.entries, Timetables(z)!DeleteEntry(r, e)
      PROVE  TimetableInv(z)'
  <2> DEFINE was == entry[e]
             loads == Timetables(z)!Recompute([entry EXCEPT ![e] = NoRows], was.timetable, {was.teacher})
             k == [at |-> "delete", entry |-> e, row |-> NoRows, timetable |-> was.timetable,
                   loads |-> loads, tally |-> handler[r].tally, overtaken |-> FALSE]
  <2>1. /\ handler[r].at = "idle" /\ was.timetable # 0
        /\ UNCHANGED <<status, entry, load, squeezed, stale>> /\ handler' = [handler EXCEPT ![r] = k]
      BY <1>4 DEF Timetables!DeleteEntry, Timetables!Editable, Timetables!None, Timetables!Plan,
         Timetables!NoEntry, NoRows
  <2>2. was \in LiveRows(z)
      BY <2>1 DEF NoRows
  <2>3. was.timetable \in z.versions /\ {was.teacher} \in SUBSET z.teachers
      BY <2>2 DEF LiveRows
  <2>4. /\ loads \in LoadRows(z) /\ DOMAIN loads = {was.teacher}
        /\ \A t \in {was.teacher} :
             loads[t].count = Timetables(z)!Taught([entry EXCEPT ![e] = NoRows], was.timetable, t)
    <3> DEFINE E == [entry EXCEPT ![e] = NoRows]
               v == was.timetable
               ts == {was.teacher}
    <3>1. ts \in SUBSET z.teachers
        BY <2>3
    <3> HIDE DEF E, v, ts
    <3>2. /\ Timetables(z)!Recompute(E, v, ts) \in LoadRows(z)
          /\ DOMAIN Timetables(z)!Recompute(E, v, ts) = ts
          /\ \A t \in ts : Timetables(z)!Recompute(E, v, ts)[t].count = Timetables(z)!Taught(E, v, t)
        BY <3>1, LoadsComputed
    <3> QED
        BY <3>2 DEF E, v, ts
  <2>5. handler[r].tally \in SUBSET z.teachers
      BY <2>1, HandlerFields
  <2> HIDE DEF loads
  <2>6. k \in [at : {"create", "round", "update", "delete"}, entry : z.entries,
               row : LiveRows(z) \cup {NoRows}, timetable : z.versions, loads : LoadRows(z),
               tally : SUBSET z.teachers, overtaken : BOOLEAN]
      BY <2>3, <2>4, <2>5
  <2>7. /\ k.at = "delete" /\ k.entry = e /\ k.row = NoRows /\ k.timetable = was.timetable
        /\ k.loads = loads
      OBVIOUS
  <2> HIDE DEF k
  <2>8. k \in HandlerRows(z) /\ PlanHolds(z, entry, k)
      BY <2>4, <2>6, <2>7 DEF HandlerRows, PlanHolds
  <2> QED
      BY <2>1, <2>7, <2>8, OnePlans
<1>5. ASSUME NEW r \in z.requests, Timetables(z)!WriteEntry(r) PROVE TimetableInv(z)'
  <2> DEFINE k == [at |-> "idle", tally |-> {}, overtaken |-> FALSE]
  <2>1. /\ handler[r].at \in {"create", "update", "delete"} /\ Timetables(z)!WriteRow(r)
        /\ Timetables(z)!WriteLoads(r, handler[r].timetable, handler[r].loads)
        /\ Timetables(z)!Overtake(r, handler[r].entry, k)
      BY <1>5 DEF Timetables!WriteEntry, Timetables!Idle
  <2>2. k \in RestingRows /\ k \in HandlerRows(z)
      BY DEF RestingRows, HandlerRows
  <2> HIDE DEF k
  <2>3. /\ entry' = [entry EXCEPT ![handler[r].entry] = handler[r].row]
        /\ entry' \in [z.entries -> LiveRows(z) \cup {NoRows}]
        /\ squeezed' \subseteq z.entries /\ status' = status
        /\ Timetables(z)!BookedOnce'
      BY <2>1, RowWritten
  <2>4. handler' \in [z.requests -> HandlerRows(z)] /\ PlansHold(z)' /\ FillsAreApart(z)'
      BY <2>1, <2>2, <2>3, OthersAreOvertaken
  <2>5. \A v \in z.versions, t \in z.teachers :
          IF v = handler[r].timetable /\ t \in DOMAIN handler[r].loads
          THEN handler[r].overtaken
                 \/ handler[r].loads[t].count = Timetables(z)!Taught(entry', v, t)
          ELSE Timetables(z)!Taught(entry', v, t) = Timetables(z)!Taught(entry, v, t)
    <3> TAKE v \in z.versions, t \in z.teachers
    <3>1. /\ handler[r].at \in {"create", "update", "delete"}
          /\ entry' = [entry EXCEPT ![handler[r].entry] = handler[r].row]
        BY <2>1, <2>3
    <3> HIDE DEF TimetableInv, TimetableTypes
    <3> QED
        BY <3>1, TouchedTeachers
  <2>6. /\ load' \in [z.versions -> [z.teachers -> Nat \cup {-1}]]
        /\ stale' \subseteq z.versions \X z.teachers
        /\ Timetables(z)!LoadsAreExplained'
      BY <2>1, <2>5, LoadsWritten
  <2> QED
      BY <2>3, <2>4, <2>6 DEF OneIsActive
<1>6. ASSUME NEW r \in z.requests, Timetables(z)!WriteRound(r) PROVE TimetableInv(z)'
  <2> DEFINE v == handler[r].timetable
             t == handler[r].row.teacher
             k == [at |-> "bulk", timetable |-> v, tally |-> handler[r].tally \cup {t},
                   overtaken |-> FALSE]
  <2>1. /\ handler[r].at = "round" /\ Timetables(z)!WriteRow(r)
        /\ stale' = stale \cup {<<v, t>>} /\ load' = load
        /\ Timetables(z)!Overtake(r, handler[r].entry, k)
      BY <1>6 DEF Timetables!WriteRound, Timetables!Bulk
  <2>2. /\ PlanHolds(z, entry, handler[r]) /\ handler[r].entry \in z.entries /\ v \in z.versions
        /\ handler[r].tally \in SUBSET z.teachers
      BY <2>1, HandlerFields DEF PlansHold
  <2>3. /\ handler[r].row \in LiveRows(z) /\ handler[r].row.timetable = v
        /\ entry[handler[r].entry].timetable = 0
      BY <2>1, <2>2 DEF PlanHolds
  <2>4. t \in z.teachers
      BY <2>3 DEF LiveRows
  <2>5. k \in HandlerRows(z) /\ k.at = "bulk"
      BY <2>2, <2>4 DEF HandlerRows
  <2> HIDE DEF k
  <2>6. /\ entry' = [entry EXCEPT ![handler[r].entry] = handler[r].row]
        /\ entry' \in [z.entries -> LiveRows(z) \cup {NoRows}]
        /\ squeezed' \subseteq z.entries /\ status' = status
        /\ Timetables(z)!BookedOnce'
      BY <2>1, RowWritten
  <2>7. handler' \in [z.requests -> HandlerRows(z)] /\ PlansHold(z)' /\ FillsAreApart(z)'
      BY <2>1, <2>5, <2>6, OthersAreOvertaken
  <2>8. ASSUME NEW x \in z.versions, NEW y \in z.teachers, <<x, y>> # <<v, t>>
        PROVE  Timetables(z)!Taught(entry', x, y) = Timetables(z)!Taught(entry, x, y)
    <3> DEFINE next == entry'
    <3>1. \A f \in z.entries :
            \/ next[f] = entry[f]
            \/ ~(entry[f].timetable = x /\ entry[f].teacher = y)
               /\ ~(next[f].timetable = x /\ next[f].teacher = y)
        BY <2>2, <2>3, <2>6, <2>8 DEF TimetableSize
    <3> HIDE DEF next
    <3>2. Timetables(z)!Taught(next, x, y) = Timetables(z)!Taught(entry, x, y)
        BY <3>1, TaughtStays
    <3> QED
        BY <3>2 DEF next
  <2>9. \A x, y : Timetables(z)!Taught(entry, x, y)' = Timetables(z)!Taught(entry', x, y)
      BY DEF Timetables!Taught
  <2>10. Timetables(z)!LoadsAreExplained'
      BY <2>1, <2>8, <2>9 DEF Timetables!LoadsAreExplained
  <2> QED
      BY <2>1, <2>2, <2>4, <2>6, <2>7, <2>10 DEF OneIsActive
<1>7. ASSUME NEW r \in z.requests, Timetables(z)!RoundFails(r) PROVE TimetableInv(z)'
  <2> DEFINE k == [at |-> "bulk", timetable |-> handler[r].timetable, tally |-> handler[r].tally,
                   overtaken |-> FALSE]
  <2>1. /\ handler[r].at = "round" /\ handler' = [handler EXCEPT ![r] = k]
        /\ UNCHANGED <<status, entry, load, squeezed, stale>>
      BY <1>7 DEF Timetables!RoundFails, Timetables!Bulk
  <2>2. k \in HandlerRows(z) /\ k.at = "bulk"
      BY <2>1, HandlerFields DEF HandlerRows
  <2> HIDE DEF k
  <2>3. PlanHolds(z, entry, k)
      BY <2>2 DEF PlanHolds
  <2> QED
      BY <2>1, <2>2, <2>3, OnePlans
<1>8. ASSUME NEW r \in z.requests, Timetables(z)!ReadTally(r) PROVE TimetableInv(z)'
  <2> DEFINE v == handler[r].timetable
             loads == Timetables(z)!Recompute(entry, v, handler[r].tally)
             k == [at |-> "tally", timetable |-> v, tally |-> {}, overtaken |-> FALSE, loads |-> loads]
  <2>1. /\ handler[r].at = "bulk" /\ handler' = [handler EXCEPT ![r] = k]
        /\ UNCHANGED <<status, entry, load, squeezed, stale>>
      BY <1>8 DEF Timetables!ReadTally
  <2>2. v \in z.versions /\ handler[r].tally \in SUBSET z.teachers
      BY <2>1, HandlerFields
  <2>3. /\ loads \in LoadRows(z) /\ DOMAIN loads = handler[r].tally
        /\ \A t \in handler[r].tally : loads[t].count = Timetables(z)!Taught(entry, v, t)
      BY <2>2, LoadsComputed
  <2> HIDE DEF loads, v
  <2>4. k \in HandlerRows(z) /\ k.at = "tally" /\ k.timetable = v /\ k.loads = loads
      BY <2>2, <2>3 DEF HandlerRows, v
  <2> HIDE DEF k
  <2>5. PlanHolds(z, entry, k)
      BY <2>3, <2>4 DEF PlanHolds
  <2> QED
      BY <2>1, <2>4, <2>5, OnePlans
<1>9. ASSUME NEW r \in z.requests, Timetables(z)!WriteTally(r) PROVE TimetableInv(z)'
  <2> DEFINE k == [at |-> "idle", tally |-> {}, overtaken |-> FALSE]
  <2>1. /\ handler[r].at = "tally" /\ UNCHANGED <<status, entry, squeezed>>
        /\ Timetables(z)!WriteLoads(r, handler[r].timetable, handler[r].loads)
        /\ handler' = [handler EXCEPT ![r] = k]
      BY <1>9 DEF Timetables!WriteTally, Timetables!Idle
  <2>2. k \in HandlerRows(z) /\ PlanHolds(z, entry, k) /\ k.at = "idle"
      BY DEF RestingRows, HandlerRows, PlanHolds
  <2> HIDE DEF k
  <2>3. PlanHolds(z, entry, handler[r])
      BY DEF PlansHold
  <2>4. \A v \in z.versions, t \in z.teachers :
          IF v = handler[r].timetable /\ t \in DOMAIN handler[r].loads
          THEN handler[r].overtaken
                 \/ handler[r].loads[t].count = Timetables(z)!Taught(entry', v, t)
          ELSE Timetables(z)!Taught(entry', v, t) = Timetables(z)!Taught(entry, v, t)
      BY <2>1, <2>3 DEF PlanHolds
  <2>5. /\ load' \in [z.versions -> [z.teachers -> Nat \cup {-1}]]
        /\ stale' \subseteq z.versions \X z.teachers
        /\ Timetables(z)!LoadsAreExplained'
      BY <2>1, <2>4, LoadsWritten
  <2>6. PlansHold(z)' /\ FillsAreApart(z)' /\ handler' \in [z.requests -> HandlerRows(z)]
      BY <2>1, <2>2 DEF PlansHold, FillsAreApart
  <2>7. Timetables(z)!BookedOnce' /\ OneIsActive(z)'
      BY <2>1 DEF Timetables!BookedOnce, Timetables!Live, OneIsActive
  <2> QED
      BY <2>1, <2>5, <2>6, <2>7
<1>10. ASSUME NEW r \in z.requests, NEW v \in z.versions, Timetables(z)!Activate(r, v)
       PROVE  TimetableInv(z)'
  <2> DEFINE k == [at |-> "activate", tally |-> {}, overtaken |-> FALSE, target |-> v,
                   rows |-> {v} \cup {w \in z.versions : status[w] = "ACTIVE"}]
  <2>1. handler' = [handler EXCEPT ![r] = k] /\ UNCHANGED <<status, entry, load, squeezed, stale>>
      BY <1>10 DEF Timetables!Activate
  <2>2. k \in HandlerRows(z) /\ k.at = "activate"
      BY DEF HandlerRows
  <2> HIDE DEF k
  <2>3. PlanHolds(z, entry, k)
      BY <2>2 DEF PlanHolds
  <2> QED
      BY <2>1, <2>2, <2>3, OnePlans
<1>11. ASSUME NEW r, NEW vs, Timetables(z)!Write(vs, r)
       PROVE  /\ DOMAIN handler' = z.requests /\ handler' = [q \in z.requests |-> handler'[q]]
              /\ \A q \in z.requests : handler'[q] = handler[q] \/ handler'[q] \in RestingRows
    BY <1>11 DEF Timetables!Write, Timetables!Idle, Timetables!Doomed, RestingRows
<1>12. ASSUME NEW r \in z.requests, Timetables(z)!WriteActivation(r) PROVE TimetableInv(z)'
  <2>1. /\ handler[r].at = "activate" /\ UNCHANGED <<entry, load, squeezed, stale>>
        /\ \A w \in z.versions \ handler[r].rows : status[w] # "ACTIVE"
        /\ status' = [w \in z.versions |-> IF w = handler[r].target THEN "ACTIVE"
                                           ELSE IF w \in handler[r].rows THEN "ARCHIVED" ELSE status[w]]
        /\ Timetables(z)!Write(handler[r].rows, r)
      BY <1>12 DEF Timetables!WriteActivation
  <2>2. OneIsActive(z)'
      BY <2>1 DEF OneIsActive
  <2>3. status' \in [z.versions -> {"absent", "DRAFT", "ACTIVE", "ARCHIVED", "deleted"}]
      BY <2>1
  <2> QED
      BY <1>11, <2>1, <2>2, <2>3, VersionsMove
<1>13. ASSUME NEW v \in z.versions,
              \/ Timetables(z)!CreateVersion(v) \/ Timetables(z)!UpdateVersion(v)
              \/ Timetables(z)!Archive(v) \/ Timetables(z)!SoftDelete(v)
       PROVE  TimetableInv(z)'
  <2>1. PICK s \in {"DRAFT", "ARCHIVED", "deleted", status[v]} :
          status' = [status EXCEPT ![v] = s] /\ UNCHANGED <<entry, load, squeezed, stale>>
      BY <1>13 DEF Timetables!CreateVersion, Timetables!UpdateVersion, Timetables!Archive,
         Timetables!SoftDelete
  <2>2. OneIsActive(z)' /\ status' \in [z.versions -> {"absent", "DRAFT", "ACTIVE", "ARCHIVED", "deleted"}]
      BY <2>1 DEF OneIsActive
  <2>3. handler' = handler \/ \E r, vs : Timetables(z)!Write(vs, r)
      BY <1>13 DEF Timetables!CreateVersion, Timetables!UpdateVersion, Timetables!Archive,
         Timetables!SoftDelete
  <2>4. /\ DOMAIN handler' = z.requests /\ handler' = [q \in z.requests |-> handler'[q]]
        /\ \A q \in z.requests : handler'[q] = handler[q] \/ handler'[q] \in RestingRows
      BY <1>11, <2>3
  <2> QED
      BY <2>1, <2>2, <2>4, VersionsMove
<1>14. ASSUME NEW r \in z.requests, Timetables(z)!Rollback(r) PROVE TimetableInv(z)'
  <2> DEFINE k == [at |-> "idle", tally |-> {}, overtaken |-> FALSE]
  <2>1. handler' = [handler EXCEPT ![r] = k] /\ UNCHANGED <<status, entry, load, squeezed, stale>>
      BY <1>14 DEF Timetables!Rollback, Timetables!Idle
  <2>2. k \in HandlerRows(z) /\ k \in RestingRows /\ k.at = "idle"
      BY DEF HandlerRows, RestingRows
  <2> HIDE DEF k
  <2> QED
      BY <2>1, <2>2, OnePlans
<1> QED
    BY <1>1, <1>2, <1>3, <1>4, <1>5, <1>6, <1>7, <1>8, <1>9, <1>10, <1>12, <1>13, <1>14
    DEF Timetables!Next

\* What a branch shows of its timetables.
LEMMA TimetableShows ==
  ASSUME NEW z, TimetableSize(z), TimetableInv(z)
  PROVE  /\ Timetables(z)!TypeOK /\ Timetables(z)!OneActive /\ Timetables(z)!BookedOnce
         /\ Timetables(z)!LoadsAreExplained
<1> USE DEF TimetableInv
<1>1. Timetables(z)!TypeOK
  <2>1. \A e \in z.entries : entry[e] \in LiveRows(z) \cup {NoRows}
      BY DEF TimetableTypes
  <2>2. ASSUME NEW e \in z.entries
        PROVE  /\ entry[e].timetable \in z.versions \cup {0} /\ entry[e].section \in z.sections \cup {0}
               /\ entry[e].teacher \in z.teachers \cup {0} /\ entry[e].slot \in z.slots \cup {0}
      BY <2>1 DEF LiveRows, NoRows
  <2> QED
      BY <2>2 DEF TimetableTypes, Timetables!TypeOK, Timetables!None, Timetables!NoRow
<1>2. Cardinality({v \in z.versions : status[v] = "ACTIVE"}) <= 1
    BY OneAtMost DEF OneIsActive
<1>3. Timetables(z)!OneActive
    BY <1>2, TimetableCardinality DEF Timetables!OneActive
<1> QED
    BY <1>1, <1>3

-----------------------------------------------------------------------------
(* Events                                                                  *)

SeatRows(z) ==
  [user : z.users, seat : {"PENDING", "REGISTERED", "REJECTED", "CANCELLED"}, approved : BOOLEAN,
   gone : BOOLEAN, due : {"none", "PENDING", "INVOICED", "VOID"}]

EmptySeat == [user |-> "nobody", seat |-> "none", approved |-> FALSE, gone |-> FALSE, due |-> "none"]

VisitorRows(z) ==
  [at : {"idle", "doomed"}]
    \cup [at : {"register"}, user : z.users, overtaken : BOOLEAN]
    \cup [at : {"withdraw"}, row : z.rows, seat : {"PENDING", "REGISTERED", "REJECTED", "CANCELLED"}]
    \cup [at : {"bill", "mark"}, rows : SUBSET z.rows]

EventTypes(z) ==
  /\ kind \in {"OPEN", "APPROVAL_REQUIRED"}
  /\ fair \in [status : {"COMING", "COMPLETED", "CANCELLED"}, open : BOOLEAN, count : Int]
  /\ seat \in [z.rows -> SeatRows(z) \cup {EmptySeat}]
  /\ visitor \in [z.requests -> VisitorRows(z)]
  /\ billed \subseteq z.users /\ interrupted \subseteq z.users /\ late \subseteq z.rows

\* Where registration is open nothing waits for approval; where it needs approval a seat is
\* approved as long as the event is on.
ApprovalsAreSeats(z) ==
  \A p \in z.rows :
    /\ kind = "OPEN" => seat[p].seat # "PENDING"
    /\ kind # "OPEN" /\ fair.status # "CANCELLED" /\ seat[p].user # "nobody" /\ ~seat[p].gone =>
         (seat[p].approved <=> seat[p].seat = "REGISTERED")

\* A registration that was not overtaken finds the event as it saw it, a withdrawal its row, and
\* a generation assignments that exist.
VisitHolds(z, K, F, S, k) ==
  /\ k.at = "register" /\ ~k.overtaken =>
       F.status # "CANCELLED" /\ (K = "OPEN" => F.count < z.capacity)
  /\ k.at = "withdraw" => S[k.row].user # "nobody" /\ ~S[k.row].gone /\ S[k.row].seat = k.seat
  /\ k.at \in {"bill", "mark"} => \A p \in k.rows : S[p].due # "none"

VisitsHold(z) == \A q \in z.requests : VisitHolds(z, kind, fair, seat, visitor[q])

EventInv(z) ==
  /\ EventTypes(z) /\ ApprovalsAreSeats(z) /\ VisitsHold(z) /\ Events(z)!CancelledEventIsEmpty
  /\ Events(z)!SeatsAreCounted /\ Events(z)!BillsAreExplained

\* The size of a set is the same in the component and here.
LEMMA EventCardinality ==
  ASSUME NEW z PROVE \A S : Events(z)!Cardinality(S) = Cardinality(S)
    BY DEF Events!Cardinality, Cardinality

\* The seats that are taken, and the approved ones that were given back.
Taking(z, S) == {p \in z.rows : S[p].user # "nobody" /\ ~S[p].gone /\ S[p].seat = "REGISTERED"}
GivenBack(z, S) == {p \in z.rows : S[p].gone /\ S[p].approved}

SeatsCounted(z, K, F, S, L) ==
  F.status # "CANCELLED" =>
    IF K = "OPEN"
    THEN F.count = Cardinality(Taking(z, S)) /\ Cardinality(Taking(z, S) \ L) <= z.capacity
    ELSE F.count + Cardinality(GivenBack(z, S)) = 0

\* What the count of seats says of the state, and of the next one.
LEMMA SeatsAreCountedMeans ==
  ASSUME NEW z
  PROVE  /\ Events(z)!SeatsAreCounted <=> SeatsCounted(z, kind, fair, seat, late)
         /\ Events(z)!SeatsAreCounted' <=> SeatsCounted(z, kind', fair', seat', late')
<1>1. Events(z)!Seated = Taking(z, seat) /\ Events(z)!Seated' = Taking(z, seat')
    BY DEF Events!Seated, Events!Live, Events!NoUser, Taking
<1>2. \A S : Events(z)!Cardinality(S) = Cardinality(S)
    BY EventCardinality
<1>3. Events(z)!SeatsAreCounted <=> SeatsCounted(z, kind, fair, seat, late)
    BY <1>1, <1>2 DEF Events!SeatsAreCounted, SeatsCounted, GivenBack
<1>4. Events(z)!SeatsAreCounted' <=> SeatsCounted(z, kind', fair', seat', late')
    BY <1>1, <1>2 DEF Events!SeatsAreCounted, SeatsCounted, GivenBack
<1> QED
    BY <1>3, <1>4

\* An event begins without participants.
LEMMA EventBegins == ASSUME NEW z, EventSize(z), Events(z)!Init PROVE EventInv(z)
<1> USE DEF Events!Init, Events!NoRow, Events!NoUser, Events!Idle, EventSize
<1>1. EventTypes(z) /\ ApprovalsAreSeats(z) /\ VisitsHold(z)
    BY DEF EventTypes, EmptySeat, VisitorRows, ApprovalsAreSeats, VisitsHold, VisitHolds
<1>2. Events(z)!CancelledEventIsEmpty /\ Events(z)!BillsAreExplained
    BY DEF Events!CancelledEventIsEmpty, Events!BillsAreExplained
<1>3. Events(z)!SeatsAreCounted
  <2>1. Taking(z, seat) = {} /\ GivenBack(z, seat) = {} /\ fair.count = 0
      BY DEF Taking, GivenBack
  <2>2. SeatsCounted(z, kind, fair, seat, late)
    <3> HIDE DEF Events!Init
    <3>1. Cardinality({}) = 0 /\ {} \ late = {}
        BY FS_EmptySet
    <3> QED
        BY <2>1, <3>1 DEF SeatsCounted
  <2> QED
      BY <2>2, SeatsAreCountedMeans
<1> QED
    BY <1>1, <1>2, <1>3 DEF EventInv

\* The fields of a seat.
LEMMA SeatFields ==
  ASSUME NEW z, NEW w \in SeatRows(z)
  PROVE  /\ w.user \in z.users /\ w.approved \in BOOLEAN /\ w.gone \in BOOLEAN
         /\ w.seat \in {"PENDING", "REGISTERED", "REJECTED", "CANCELLED"}
         /\ w.due \in {"none", "PENDING", "INVOICED", "VOID"}
    BY DEF SeatRows

\* The fields of a handler of the event.
LEMMA VisitorFields ==
  ASSUME NEW z, NEW k \in VisitorRows(z)
  PROVE  /\ k.at \in {"idle", "doomed", "register", "withdraw", "bill", "mark"}
         /\ k.at = "register" => /\ k.user \in z.users /\ k.overtaken \in BOOLEAN
                                 /\ [k EXCEPT !.overtaken = TRUE] \in VisitorRows(z)
                                 /\ [k EXCEPT !.overtaken = TRUE].at = "register"
                                 /\ [k EXCEPT !.overtaken = TRUE].overtaken = TRUE
         /\ k.at = "withdraw" =>
              k.row \in z.rows /\ k.seat \in {"PENDING", "REGISTERED", "REJECTED", "CANCELLED"}
         /\ k.at \in {"bill", "mark"} => k.rows \in SUBSET z.rows
<1>1. CASE k \in [at : {"register"}, user : z.users, overtaken : BOOLEAN]
  <2>1. [k EXCEPT !.overtaken = TRUE] \in [at : {"register"}, user : z.users, overtaken : BOOLEAN]
      BY <1>1
  <2>2. [k EXCEPT !.overtaken = TRUE] \in VisitorRows(z)
      BY <2>1 DEF VisitorRows
  <2> QED
      BY <1>1, <2>2
<1>2. CASE k \notin [at : {"register"}, user : z.users, overtaken : BOOLEAN]
    BY <1>2 DEF VisitorRows
<1> QED
    BY <1>1, <1>2

\* A handler keeps what it saw as long as nobody takes a seat, cancels the event or judges its row.
LEMMA VisitsHoldOn ==
  ASSUME NEW z, EventSize(z), EventTypes(z), VisitsHold(z), kind' = kind, fair'.count \in Int,
         visitor' = [q \in z.requests |-> visitor'[q]],
         \A p \in z.rows : seat[p].due # "none" => seat'[p].due # "none",
         \A q \in z.requests :
           \/ visitor'[q] \in VisitorRows(z) /\ VisitHolds(z, kind, fair', seat', visitor'[q])
           \/ /\ visitor'[q] = visitor[q]
              /\ visitor[q].at = "register" /\ ~visitor[q].overtaken =>
                   /\ fair.status # "CANCELLED" => fair'.status # "CANCELLED"
                   /\ fair'.count <= fair.count
              /\ visitor[q].at = "withdraw" =>
                   LET p == visitor[q].row
                   IN /\ seat'[p].user = seat[p].user
                      /\ seat'[p].gone = seat[p].gone
                      /\ seat'[p].seat = seat[p].seat
  PROVE  visitor' \in [z.requests -> VisitorRows(z)] /\ VisitsHold(z)'
<1>1. ASSUME NEW q \in z.requests
      PROVE  visitor'[q] \in VisitorRows(z) /\ VisitHolds(z, kind, fair', seat', visitor'[q])
  <2>1. CASE visitor'[q] \in VisitorRows(z) /\ VisitHolds(z, kind, fair', seat', visitor'[q])
      BY <2>1
  <2>2. CASE /\ visitor'[q] = visitor[q]
             /\ visitor[q].at = "register" /\ ~visitor[q].overtaken =>
                  /\ fair.status # "CANCELLED" => fair'.status # "CANCELLED"
                  /\ fair'.count <= fair.count
             /\ visitor[q].at = "withdraw" =>
                  LET p == visitor[q].row
                  IN /\ seat'[p].user = seat[p].user
                     /\ seat'[p].gone = seat[p].gone
                     /\ seat'[p].seat = seat[p].seat
    <3> DEFINE k == visitor[q]
    <3>1. k \in VisitorRows(z) /\ VisitHolds(z, kind, fair, seat, k) /\ fair.count \in Int
        BY DEF EventTypes, VisitsHold
    <3>2. k.at = "register" /\ ~k.overtaken =>
            fair'.status # "CANCELLED" /\ (kind = "OPEN" => fair'.count < z.capacity)
        BY <2>2, <3>1 DEF VisitHolds, EventSize
    <3>3. k.at = "withdraw" =>
            seat'[k.row].user # "nobody" /\ ~seat'[k.row].gone /\ seat'[k.row].seat = k.seat
        BY <2>2, <3>1 DEF VisitHolds
    <3>4. k.at \in {"bill", "mark"} => \A p \in k.rows : seat'[p].due # "none"
        BY <3>1, VisitorFields DEF VisitHolds
    <3> QED
        BY <2>2, <3>1, <3>2, <3>3, <3>4 DEF VisitHolds
  <2> QED
      BY <2>1, <2>2
<1> QED
    BY <1>1 DEF VisitsHold

\* Bills stay explained as long as marks go on and assignments keep their end.
LEMMA BillsStay ==
  ASSUME NEW z, EventSize(z), EventTypes(z), Events(z)!BillsAreExplained, billed' = billed,
         interrupted' = interrupted,
         \A p \in z.rows : seat[p].user # "nobody" => seat'[p].user = seat[p].user,
         \A p \in z.rows : seat[p].due \in {"INVOICED", "VOID"} => seat'[p].due \in {"INVOICED", "VOID"},
         \A q \in z.requests : visitor[q].at = "mark" => visitor'[q] = visitor[q]
  PROVE  Events(z)!BillsAreExplained'
<1> SUFFICES ASSUME NEW u \in billed \ interrupted
             PROVE  \/ \E p \in z.rows : seat'[p].user = u /\ seat'[p].due \in {"INVOICED", "VOID"}
                    \/ \E r \in z.requests : /\ visitor'[r].at = "mark"
                                             /\ \E p \in visitor'[r].rows : seat'[p].user = u
    BY DEF Events!BillsAreExplained
<1>1. u # "nobody"
    BY DEF EventTypes, EventSize
<1>2. CASE \E p \in z.rows : seat[p].user = u /\ seat[p].due \in {"INVOICED", "VOID"}
    BY <1>1, <1>2
<1>3. CASE \E r \in z.requests : visitor[r].at = "mark" /\ \E p \in visitor[r].rows : seat[p].user = u
  <2>1. PICK r \in z.requests : visitor[r].at = "mark" /\ \E p \in visitor[r].rows : seat[p].user = u
      BY <1>3
  <2>2. visitor[r].rows \subseteq z.rows
      BY <2>1, VisitorFields DEF EventTypes
  <2> QED
      BY <1>1, <2>1, <2>2
<1> QED
    BY <1>2, <1>3 DEF Events!BillsAreExplained

\* Steps that take and give back no seat.
LEMMA SeatsStay ==
  ASSUME NEW z, EventSize(z), EventInv(z), kind' = kind, late' = late,
         fair' \in [status : {"COMING", "COMPLETED", "CANCELLED"}, open : BOOLEAN, count : Int],
         fair'.count = fair.count, fair'.status = "CANCELLED" <=> fair.status = "CANCELLED",
         seat' \in [z.rows -> SeatRows(z) \cup {EmptySeat}],
         \A p \in z.rows :
           /\ seat'[p].user = seat[p].user /\ seat'[p].seat = seat[p].seat
           /\ seat'[p].approved = seat[p].approved /\ seat'[p].gone = seat[p].gone
           /\ \/ seat'[p].due = seat[p].due
              \/ seat'[p].due \in {"INVOICED", "VOID"} /\ seat[p].due # "none",
         visitor' = [q \in z.requests |-> visitor'[q]],
         \A q \in z.requests :
           \/ visitor'[q] = visitor[q]
           \/ visitor'[q] \in VisitorRows(z) /\ VisitHolds(z, kind, fair', seat', visitor'[q]),
         billed' \subseteq z.users, interrupted' \subseteq z.users, Events(z)!BillsAreExplained'
  PROVE  EventInv(z)'
<1> USE DEF EventInv
<1>1. visitor' \in [z.requests -> VisitorRows(z)] /\ VisitsHold(z)'
  <2>1. \A q \in z.requests :
          \/ visitor'[q] \in VisitorRows(z) /\ VisitHolds(z, kind, fair', seat', visitor'[q])
          \/ /\ visitor'[q] = visitor[q]
             /\ visitor[q].at = "register" /\ ~visitor[q].overtaken =>
                  /\ fair.status # "CANCELLED" => fair'.status # "CANCELLED"
                  /\ fair'.count <= fair.count
             /\ visitor[q].at = "withdraw" =>
                  LET p == visitor[q].row
                  IN /\ seat'[p].user = seat[p].user
                     /\ seat'[p].gone = seat[p].gone
                     /\ seat'[p].seat = seat[p].seat
    <3> TAKE q \in z.requests
    <3>1. visitor[q] \in VisitorRows(z) /\ fair.count \in Int
        BY DEF EventTypes
    <3>2. visitor[q].at = "withdraw" => visitor[q].row \in z.rows
        BY <3>1, VisitorFields
    <3> QED
        BY <3>1, <3>2
  <2>2. \A p \in z.rows : seat[p].due # "none" => seat'[p].due # "none"
      OBVIOUS
  <2>3. fair'.count \in Int
      OBVIOUS
  <2> HIDE DEF EventInv
  <2> QED
      BY <2>1, <2>2, <2>3, VisitsHoldOn DEF EventInv
<1>2. EventTypes(z)'
    BY <1>1 DEF EventTypes
<1>3. ApprovalsAreSeats(z)'
    BY DEF ApprovalsAreSeats
<1>4. Events(z)!CancelledEventIsEmpty'
    BY DEF Events!CancelledEventIsEmpty, Events!Live, Events!NoUser
<1>5. Events(z)!SeatsAreCounted'
  <2>1. Taking(z, seat') = Taking(z, seat) /\ GivenBack(z, seat') = GivenBack(z, seat)
      BY DEF Taking, GivenBack
  <2>2. SeatsCounted(z, kind, fair, seat, late)
      BY SeatsAreCountedMeans
  <2>3. SeatsCounted(z, kind', fair', seat', late')
      BY <2>1, <2>2 DEF SeatsCounted
  <2> QED
      BY <2>3, SeatsAreCountedMeans
<1> QED
    BY <1>1, <1>2, <1>3, <1>4, <1>5

\* A row with another due.
LEMMA DueWritten ==
  ASSUME NEW z, EventTypes(z), NEW p \in z.rows, seat[p].due # "none",
         NEW x \in {seat[p].due, "INVOICED", "VOID"}, seat' = [seat EXCEPT ![p].due = x]
  PROVE  /\ seat' \in [z.rows -> SeatRows(z) \cup {EmptySeat}] /\ seat'[p].due = x
         /\ \A q \in z.rows :
              /\ seat'[q].user = seat[q].user /\ seat'[q].seat = seat[q].seat
              /\ seat'[q].approved = seat[q].approved /\ seat'[q].gone = seat[q].gone
              /\ \/ seat'[q].due = seat[q].due
                 \/ seat'[q].due \in {"INVOICED", "VOID"} /\ seat[q].due # "none"
<1> DEFINE w == seat[p]
           v == [w EXCEPT !.due = x]
<1>1. w \in SeatRows(z)
    BY DEF EventTypes, EmptySeat
<1>2. seat' = [seat EXCEPT ![p] = v]
    OBVIOUS
<1>3. w.due \in {"none", "PENDING", "INVOICED", "VOID"}
    BY <1>1, SeatFields
<1> HIDE DEF w
<1>4. x \in {"none", "PENDING", "INVOICED", "VOID"}
    BY <1>3 DEF w
<1>5. /\ v \in SeatRows(z) /\ v.user = w.user /\ v.seat = w.seat /\ v.approved = w.approved
      /\ v.gone = w.gone /\ v.due = x
    BY <1>1, <1>4 DEF SeatRows
<1> HIDE DEF v
<1>6. seat \in [z.rows -> SeatRows(z) \cup {EmptySeat}]
    BY DEF EventTypes
<1> QED
    BY <1>2, <1>5, <1>6 DEF w

\* One handler moves, and takes or gives back no seat.
LEMMA VisitorMoves ==
  ASSUME NEW z, EventSize(z), EventInv(z), NEW r \in z.requests, NEW k \in VisitorRows(z),
         visitor' = [visitor EXCEPT ![r] = k], UNCHANGED <<kind, fair, late>>,
         seat' \in [z.rows -> SeatRows(z) \cup {EmptySeat}],
         \A p \in z.rows :
           /\ seat'[p].user = seat[p].user /\ seat'[p].seat = seat[p].seat
           /\ seat'[p].approved = seat[p].approved /\ seat'[p].gone = seat[p].gone
           /\ \/ seat'[p].due = seat[p].due
              \/ seat'[p].due \in {"INVOICED", "VOID"} /\ seat[p].due # "none",
         VisitHolds(z, kind, fair, seat', k),
         billed' \subseteq z.users, interrupted' \subseteq z.users, Events(z)!BillsAreExplained'
  PROVE  EventInv(z)'
<1>1. /\ fair' \in [status : {"COMING", "COMPLETED", "CANCELLED"}, open : BOOLEAN, count : Int]
      /\ fair'.count = fair.count /\ (fair'.status = "CANCELLED" <=> fair.status = "CANCELLED")
      /\ kind' = kind /\ late' = late
    BY DEF EventInv, EventTypes
<1>2. visitor' = [q \in z.requests |-> visitor'[q]]
    BY DEF EventInv, EventTypes
<1>3. \A q \in z.requests :
        \/ visitor'[q] = visitor[q]
        \/ visitor'[q] \in VisitorRows(z) /\ VisitHolds(z, kind, fair', seat', visitor'[q])
    BY DEF EventInv, EventTypes
<1> QED
    BY <1>1, <1>2, <1>3, SeatsStay

\* The event opens, closes and ends without cancellation.
LEMMA FairMoves ==
  ASSUME NEW z, EventSize(z), EventInv(z),
         \/ UNCHANGED fairVars \/ Events(z)!Complete
         \/ Events(z)!OpenRegistration \/ Events(z)!CloseRegistration
  PROVE  EventInv(z)'
<1> USE DEF EventInv, EventTypes
<1>1. UNCHANGED <<kind, seat, visitor, billed, late, interrupted>>
    BY DEF fairVars, Events!Complete, Events!OpenRegistration, Events!CloseRegistration
<1>2. /\ fair' \in [status : {"COMING", "COMPLETED", "CANCELLED"}, open : BOOLEAN, count : Int]
      /\ fair'.count = fair.count /\ (fair'.status = "CANCELLED" <=> fair.status = "CANCELLED")
    BY DEF fairVars, Events!Complete, Events!OpenRegistration, Events!CloseRegistration
<1>3. Events(z)!BillsAreExplained'
    BY <1>1 DEF Events!BillsAreExplained
<1>4. \A p \in z.rows :
        /\ seat'[p].user = seat[p].user /\ seat'[p].seat = seat[p].seat
        /\ seat'[p].approved = seat[p].approved /\ seat'[p].gone = seat[p].gone
        /\ \/ seat'[p].due = seat[p].due
           \/ seat'[p].due \in {"INVOICED", "VOID"} /\ seat[p].due # "none"
    BY <1>1
<1>5. /\ visitor' = [q \in z.requests |-> visitor'[q]]
      /\ \A q \in z.requests :
           \/ visitor'[q] = visitor[q]
           \/ visitor'[q] \in VisitorRows(z) /\ VisitHolds(z, kind, fair', seat', visitor'[q])
      /\ billed' \subseteq z.users /\ interrupted' \subseteq z.users
      /\ seat' \in [z.rows -> SeatRows(z) \cup {EmptySeat}]
      /\ kind' = kind /\ late' = late
    BY <1>1
<1> HIDE DEF EventInv, EventTypes
<1> QED
    BY <1>2, <1>3, <1>4, <1>5, SeatsStay

\* A handler begins with what it sees.
LEMMA VisitBegins ==
  ASSUME NEW z, EventSize(z), EventInv(z), NEW r \in z.requests,
         \/ \E u \in z.users : Events(z)!Register(r, u)
         \/ \E p \in z.rows : Events(z)!Withdraw(r, p)
         \/ Events(z)!ListPending(r)
  PROVE  EventInv(z)'
<1> USE DEF EventInv, EventTypes
<1>1. PICK k :
        /\ visitor[r].at = "idle" /\ visitor' = [visitor EXCEPT ![r] = k]
        /\ k \in VisitorRows(z) /\ VisitHolds(z, kind, fair, seat, k)
  <2>1. ASSUME NEW u \in z.users, Events(z)!Register(r, u)
        PROVE  \E k : /\ visitor[r].at = "idle" /\ visitor' = [visitor EXCEPT ![r] = k]
                      /\ k \in VisitorRows(z) /\ VisitHolds(z, kind, fair, seat, k)
    <3> DEFINE k == [at |-> "register", user |-> u, overtaken |-> FALSE]
    <3>1. /\ visitor[r].at = "idle" /\ visitor' = [visitor EXCEPT ![r] = k]
          /\ fair.status # "CANCELLED" /\ fair.count < z.capacity
        BY <2>1 DEF Events!Register, Events!Begin, Events!Terminal
    <3>2. k \in VisitorRows(z) /\ VisitHolds(z, kind, fair, seat, k)
        BY <3>1 DEF VisitorRows, VisitHolds
    <3> HIDE DEF k
    <3> QED
        BY <3>1, <3>2
  <2>2. ASSUME NEW p \in z.rows, Events(z)!Withdraw(r, p)
        PROVE  \E k : /\ visitor[r].at = "idle" /\ visitor' = [visitor EXCEPT ![r] = k]
                      /\ k \in VisitorRows(z) /\ VisitHolds(z, kind, fair, seat, k)
    <3> DEFINE k == [at |-> "withdraw", row |-> p, seat |-> seat[p].seat]
    <3>1. /\ visitor[r].at = "idle" /\ visitor' = [visitor EXCEPT ![r] = k]
          /\ seat[p].user # "nobody" /\ ~seat[p].gone
        BY <2>2 DEF Events!Withdraw, Events!Begin, Events!Live, Events!NoUser
    <3>2. seat[p].seat \in {"PENDING", "REGISTERED", "REJECTED", "CANCELLED"}
        BY <3>1, SeatFields DEF EmptySeat
    <3>3. k \in VisitorRows(z) /\ VisitHolds(z, kind, fair, seat, k)
        BY <3>1, <3>2 DEF VisitorRows, VisitHolds
    <3> HIDE DEF k
    <3> QED
        BY <3>1, <3>3
  <2>3. ASSUME Events(z)!ListPending(r)
        PROVE  \E k : /\ visitor[r].at = "idle" /\ visitor' = [visitor EXCEPT ![r] = k]
                      /\ k \in VisitorRows(z) /\ VisitHolds(z, kind, fair, seat, k)
    <3> DEFINE k == [at |-> "bill", rows |-> {p \in z.rows : seat[p].due = "PENDING"}]
    <3>1. visitor[r].at = "idle" /\ visitor' = [visitor EXCEPT ![r] = k]
        BY <2>3 DEF Events!ListPending, Events!Begin
    <3>2. k \in VisitorRows(z) /\ VisitHolds(z, kind, fair, seat, k)
        BY DEF VisitorRows, VisitHolds
    <3> HIDE DEF k
    <3> QED
        BY <3>1, <3>2
  <2> QED
      BY <2>1, <2>2, <2>3
<1>2. UNCHANGED <<kind, fair, seat, billed, late, interrupted>>
    BY DEF Events!Register, Events!Withdraw, Events!ListPending
<1>3. \A q \in z.requests : visitor[q].at = "mark" => visitor'[q] = visitor[q]
    BY <1>1
<1>4. Events(z)!BillsAreExplained'
    BY <1>2, <1>3, BillsStay
<1> HIDE DEF EventInv, EventTypes
<1>5. /\ seat' \in [z.rows -> SeatRows(z) \cup {EmptySeat}]
      /\ billed' \subseteq z.users /\ interrupted' \subseteq z.users
      /\ VisitHolds(z, kind, fair, seat', k)
    BY <1>1, <1>2 DEF EventInv, EventTypes
<1> QED
    BY <1>1, <1>2, <1>4, <1>5, VisitorMoves

\* An assignment is voided.
LEMMA VoidStep ==
  ASSUME NEW z, EventSize(z), EventInv(z), NEW p \in z.rows, Events(z)!VoidAssignment(p)
  PROVE  EventInv(z)'
<1>1. /\ seat[p].due = "PENDING" /\ seat' = [seat EXCEPT ![p].due = "VOID"]
      /\ UNCHANGED <<kind, fair, visitor, billed, late, interrupted>>
    BY DEF Events!VoidAssignment
<1>2. EventTypes(z) /\ Events(z)!BillsAreExplained
    BY DEF EventInv
<1>3. /\ seat' \in [z.rows -> SeatRows(z) \cup {EmptySeat}] /\ seat'[p].due = "VOID"
      /\ \A q \in z.rows :
           /\ seat'[q].user = seat[q].user /\ seat'[q].seat = seat[q].seat
           /\ seat'[q].approved = seat[q].approved /\ seat'[q].gone = seat[q].gone
           /\ \/ seat'[q].due = seat[q].due
              \/ seat'[q].due \in {"INVOICED", "VOID"} /\ seat[q].due # "none"
    BY <1>1, <1>2, DueWritten
<1>4. Events(z)!BillsAreExplained'
    BY <1>1, <1>2, <1>3, BillsStay
<1>5. /\ fair' \in [status : {"COMING", "COMPLETED", "CANCELLED"}, open : BOOLEAN, count : Int]
      /\ fair'.count = fair.count /\ (fair'.status = "CANCELLED" <=> fair.status = "CANCELLED")
      /\ kind' = kind /\ late' = late /\ billed' \subseteq z.users /\ interrupted' \subseteq z.users
      /\ visitor' = [q \in z.requests |-> visitor'[q]] /\ \A q \in z.requests : visitor'[q] = visitor[q]
    BY <1>1, <1>2 DEF EventTypes
<1> QED
    BY <1>3, <1>4, <1>5, SeatsStay

\* A generation bills: whom it bills is in its list, and who is new in what it marks.
LEMMA BillStep ==
  ASSUME NEW z, EventSize(z), EventInv(z), NEW r \in z.requests, Events(z)!Bill(r)
  PROVE  EventInv(z)'
<1> USE DEF EventInv, EventTypes
<1> DEFINE rows == visitor[r].rows
           marks == {p \in rows : seat[p].user \notin billed}
           k == IF marks = {} THEN [at |-> "idle"] ELSE [at |-> "mark", rows |-> marks]
<1>1. /\ visitor[r].at = "bill" /\ billed' = billed \cup {seat[p].user : p \in rows}
      /\ visitor' = [visitor EXCEPT ![r] = k]
      /\ UNCHANGED <<kind, fair, seat, late, interrupted>>
    BY DEF Events!Bill, Events!Marking, Events!Idle
<1>2. rows \in SUBSET z.rows
    BY <1>1, VisitorFields
<1>3. \A p \in rows : seat[p].due # "none"
    BY <1>1 DEF VisitsHold, VisitHolds
<1>4. \A p \in rows : seat[p].user \in z.users
    BY <1>2, <1>3, SeatFields DEF EmptySeat
<1>5. k \in VisitorRows(z)
    BY <1>2 DEF VisitorRows
<1>6. VisitHolds(z, kind, fair, seat', k)
    BY <1>1, <1>3 DEF VisitHolds
<1>7. ASSUME NEW u \in billed' \ interrupted
      PROVE  \/ \E p \in z.rows : seat[p].user = u /\ seat[p].due \in {"INVOICED", "VOID"}
             \/ \E q \in z.requests : /\ visitor'[q].at = "mark"
                                      /\ \E p \in visitor'[q].rows : seat[p].user = u
  <2>1. CASE u \in billed
    <3>1. CASE \E p \in z.rows : seat[p].user = u /\ seat[p].due \in {"INVOICED", "VOID"}
        BY <3>1
    <3>2. CASE \E q \in z.requests : visitor[q].at = "mark" /\ \E p \in visitor[q].rows : seat[p].user = u
      <4>1. PICK q \in z.requests : visitor[q].at = "mark" /\ \E p \in visitor[q].rows : seat[p].user = u
          BY <3>2
      <4>2. visitor'[q] = visitor[q]
          BY <1>1, <4>1
      <4> QED
          BY <4>1, <4>2
    <3> QED
        BY <1>7, <2>1, <3>1, <3>2 DEF Events!BillsAreExplained
  <2>2. CASE u \notin billed
    <3>1. PICK p \in rows : seat[p].user = u
        BY <1>1, <1>7, <2>2
    <3>2. p \in marks
        BY <2>2, <3>1
    <3>3. visitor'[r].at = "mark" /\ visitor'[r].rows = marks
        BY <1>1, <3>2
    <3> QED
        BY <3>1, <3>2, <3>3
  <2> QED
      BY <2>1, <2>2
<1>8. Events(z)!BillsAreExplained'
    BY <1>1, <1>7 DEF Events!BillsAreExplained
<1>9. billed' \subseteq z.users /\ interrupted' \subseteq z.users
    BY <1>1, <1>4
<1>10. /\ seat' \in [z.rows -> SeatRows(z) \cup {EmptySeat}]
       /\ \A p \in z.rows : /\ seat'[p].user = seat[p].user /\ seat'[p].seat = seat[p].seat
                            /\ seat'[p].approved = seat[p].approved /\ seat'[p].gone = seat[p].gone
                            /\ seat'[p].due = seat[p].due
    BY <1>1
<1> HIDE DEF k, EventInv, EventTypes
<1> QED
    BY <1>1, <1>5, <1>6, <1>8, <1>9, <1>10, VisitorMoves

\* An assignment is marked, or was voided meanwhile.
LEMMA MarkStep ==
  ASSUME NEW z, EventSize(z), EventInv(z), NEW r \in z.requests, NEW p \in z.rows,
         Events(z)!MarkInvoiced(r, p)
  PROVE  EventInv(z)'
<1> DEFINE rest == visitor[r].rows \ {p}
           k == IF rest = {} THEN [at |-> "idle"] ELSE [at |-> "mark", rows |-> rest]
           x == IF seat[p].due = "PENDING" THEN "INVOICED" ELSE seat[p].due
<1>1. /\ visitor[r].at = "mark" /\ p \in visitor[r].rows /\ visitor' = [visitor EXCEPT ![r] = k]
      /\ seat' = [seat EXCEPT ![p].due = x] /\ UNCHANGED <<kind, fair, billed, late, interrupted>>
    BY DEF Events!MarkInvoiced, Events!Marking, Events!Idle
<1>2. EventTypes(z) /\ Events(z)!BillsAreExplained /\ VisitsHold(z)
    BY DEF EventInv
<1>3. /\ visitor[r] \in VisitorRows(z) /\ visitor[r].rows \in SUBSET z.rows
      /\ \A q \in visitor[r].rows : seat[q].due # "none"
    BY <1>1, <1>2, VisitorFields DEF VisitsHold, VisitHolds, EventTypes
<1>4. seat[p].due \in {"PENDING", "INVOICED", "VOID"}
    BY <1>1, <1>2, <1>3, SeatFields DEF EventTypes, EmptySeat
<1>5. x \in {seat[p].due, "INVOICED", "VOID"} /\ x \in {"INVOICED", "VOID"}
    BY <1>4
<1> HIDE DEF x
<1>6. /\ seat' \in [z.rows -> SeatRows(z) \cup {EmptySeat}] /\ seat'[p].due = x
      /\ \A q \in z.rows :
           /\ seat'[q].user = seat[q].user /\ seat'[q].seat = seat[q].seat
           /\ seat'[q].approved = seat[q].approved /\ seat'[q].gone = seat[q].gone
           /\ \/ seat'[q].due = seat[q].due
              \/ seat'[q].due \in {"INVOICED", "VOID"} /\ seat[q].due # "none"
  <2>1. seat[p].due # "none"
      BY <1>4
  <2> QED
      BY <1>1, <1>2, <1>5, <2>1, DueWritten
<1>7. k \in VisitorRows(z)
    BY <1>3 DEF VisitorRows
<1>8. VisitHolds(z, kind, fair, seat', k)
    BY <1>3, <1>6 DEF VisitHolds
<1>9. ASSUME NEW u \in billed \ interrupted
      PROVE  \/ \E q \in z.rows : seat'[q].user = u /\ seat'[q].due \in {"INVOICED", "VOID"}
             \/ \E q \in z.requests : /\ visitor'[q].at = "mark"
                                      /\ \E v \in visitor'[q].rows : seat'[v].user = u
  <2>1. CASE \E q \in z.rows : seat[q].user = u /\ seat[q].due \in {"INVOICED", "VOID"}
      BY <1>6, <2>1
  <2>2. CASE \E q \in z.requests : visitor[q].at = "mark" /\ \E v \in visitor[q].rows : seat[v].user = u
    <3>1. PICK q \in z.requests : visitor[q].at = "mark" /\ \E v \in visitor[q].rows : seat[v].user = u
        BY <2>2
    <3>2. PICK v \in visitor[q].rows : seat[v].user = u
        BY <3>1
    <3>3. v \in z.rows
        BY <1>2, <3>1, VisitorFields DEF EventTypes
    <3>4. CASE v = p
        BY <1>5, <1>6, <3>2, <3>4
    <3>5. CASE q # r
      <4>1. visitor'[q] = visitor[q]
          BY <1>1, <1>2, <3>5 DEF EventTypes
      <4> QED
          BY <1>6, <3>1, <3>2, <3>3, <4>1
    <3>6. CASE q = r /\ v # p
      <4>1. v \in rest
          BY <3>6
      <4>2. visitor'[r].at = "mark" /\ visitor'[r].rows = rest
          BY <1>1, <1>2, <4>1 DEF EventTypes
      <4> QED
          BY <1>6, <3>2, <3>3, <4>1, <4>2
    <3> QED
        BY <3>4, <3>5, <3>6
  <2> QED
      BY <1>2, <1>9, <2>1, <2>2 DEF Events!BillsAreExplained
<1>10. Events(z)!BillsAreExplained'
    BY <1>1, <1>9 DEF Events!BillsAreExplained
<1>11. /\ visitor' = [visitor EXCEPT ![r] = k] /\ UNCHANGED <<kind, fair, late>>
       /\ billed' \subseteq z.users /\ interrupted' \subseteq z.users
    BY <1>1, <1>2 DEF EventTypes
<1> HIDE DEF k
<1> QED
    BY <1>6, <1>7, <1>8, <1>10, <1>11, VisitorMoves

\* A handler dies, and who it billed and has not marked is known.
LEMMA AbortStep ==
  ASSUME NEW z, EventSize(z), EventInv(z), NEW r \in z.requests, Events(z)!Abort(r)
  PROVE  EventInv(z)'
<1> USE DEF EventInv, EventTypes
<1> DEFINE k == [at |-> "idle"]
<1>1. /\ visitor' = [visitor EXCEPT ![r] = k] /\ UNCHANGED <<kind, fair, seat, billed, late>>
      /\ interrupted' = IF visitor[r].at = "mark"
                        THEN interrupted \cup {seat[p].user : p \in visitor[r].rows} ELSE interrupted
    BY DEF Events!Abort, Events!Idle
<1>2. k \in VisitorRows(z) /\ VisitHolds(z, kind, fair, seat', k)
    BY DEF VisitorRows, VisitHolds
<1>3. interrupted' \subseteq z.users
  <2>1. CASE visitor[r].at = "mark"
    <3>1. visitor[r].rows \in SUBSET z.rows /\ \A p \in visitor[r].rows : seat[p].due # "none"
        BY <2>1, VisitorFields DEF VisitsHold, VisitHolds
    <3>2. \A p \in visitor[r].rows : seat[p].user \in z.users
        BY <3>1, SeatFields DEF EmptySeat
    <3> QED
        BY <1>1, <3>2
  <2> QED
      BY <1>1, <2>1
<1>4. ASSUME NEW u \in billed \ interrupted'
      PROVE  \/ \E p \in z.rows : seat[p].user = u /\ seat[p].due \in {"INVOICED", "VOID"}
             \/ \E q \in z.requests : /\ visitor'[q].at = "mark"
                                      /\ \E p \in visitor'[q].rows : seat[p].user = u
  <2>1. u \in billed \ interrupted
      BY <1>1, <1>4
  <2>2. CASE \E p \in z.rows : seat[p].user = u /\ seat[p].due \in {"INVOICED", "VOID"}
      BY <2>2
  <2>3. CASE \E q \in z.requests : visitor[q].at = "mark" /\ \E p \in visitor[q].rows : seat[p].user = u
    <3>1. PICK q \in z.requests : visitor[q].at = "mark" /\ \E p \in visitor[q].rows : seat[p].user = u
        BY <2>3
    <3>2. q # r
        BY <1>1, <1>4, <3>1
    <3>3. visitor'[q] = visitor[q]
        BY <1>1, <3>2
    <3> QED
        BY <3>1, <3>3
  <2> QED
      BY <2>1, <2>2, <2>3 DEF Events!BillsAreExplained
<1>5. Events(z)!BillsAreExplained'
    BY <1>1, <1>4 DEF Events!BillsAreExplained
<1>6. /\ seat' \in [z.rows -> SeatRows(z) \cup {EmptySeat}] /\ billed' \subseteq z.users
      /\ \A p \in z.rows : /\ seat'[p].user = seat[p].user /\ seat'[p].seat = seat[p].seat
                           /\ seat'[p].approved = seat[p].approved /\ seat'[p].gone = seat[p].gone
                           /\ seat'[p].due = seat[p].due
    BY <1>1
<1> HIDE DEF k, EventInv, EventTypes
<1> QED
    BY <1>1, <1>2, <1>3, <1>5, <1>6, VisitorMoves

\* One seat is added to those that count, or taken from them.
LEMMA SeatCounts ==
  ASSUME NEW z, EventSize(z), NEW S, NEW p \in z.rows, NEW T,
         \A q \in z.rows \ {p} : T[q].user = S[q].user /\ T[q].gone = S[q].gone
                                 /\ T[q].seat = S[q].seat /\ T[q].approved = S[q].approved
  PROVE  /\ Cardinality(Taking(z, S)) \in Nat /\ Cardinality(GivenBack(z, S)) \in Nat
         /\ \A L : Cardinality(Taking(z, S) \ L) \in Nat
         /\ p \notin Taking(z, S) /\ p \in Taking(z, T) =>
              /\ Cardinality(Taking(z, T)) = Cardinality(Taking(z, S)) + 1
              /\ \A L : Cardinality(Taking(z, T) \ (L \cup {p})) <= Cardinality(Taking(z, S) \ L)
         /\ p \in Taking(z, S) /\ p \notin Taking(z, T) =>
              Cardinality(Taking(z, T)) = Cardinality(Taking(z, S)) - 1
         /\ (p \in Taking(z, S) <=> p \in Taking(z, T)) => Taking(z, T) = Taking(z, S)
         /\ p \notin Taking(z, T) => \A L : Cardinality(Taking(z, T) \ L) <= Cardinality(Taking(z, S) \ L)
         /\ p \notin GivenBack(z, S) /\ p \in GivenBack(z, T) =>
              Cardinality(GivenBack(z, T)) = Cardinality(GivenBack(z, S)) + 1
         /\ (p \in GivenBack(z, S) <=> p \in GivenBack(z, T)) => GivenBack(z, T) = GivenBack(z, S)
<1> DEFINE A == Taking(z, S)
           B == Taking(z, T)
           G == GivenBack(z, S)
           H == GivenBack(z, T)
<1>1. \A q \in z.rows \ {p} : (q \in A <=> q \in B) /\ (q \in G <=> q \in H)
    BY DEF Taking, GivenBack
<1>2. A \subseteq z.rows /\ B \subseteq z.rows /\ G \subseteq z.rows /\ H \subseteq z.rows
    BY DEF Taking, GivenBack
<1> HIDE DEF A, B, G, H
<1>3. \A X : X \subseteq z.rows => IsFiniteSet(X) /\ Cardinality(X) \in Nat
    BY FS_Subset, FS_CardinalityType DEF EventSize
<1>4. ASSUME p \notin A, p \in B
      PROVE  /\ Cardinality(B) = Cardinality(A) + 1
             /\ \A L : Cardinality(B \ (L \cup {p})) <= Cardinality(A \ L)
  <2>1. B = A \cup {p}
      BY <1>1, <1>2, <1>4
  <2>2. Cardinality(B) = Cardinality(A) + 1
      BY <1>2, <1>3, <1>4, <2>1, FS_AddElement
  <2>3. ASSUME NEW L PROVE Cardinality(B \ (L \cup {p})) <= Cardinality(A \ L)
    <3>1. B \ (L \cup {p}) \subseteq A \ L /\ A \ L \subseteq z.rows
        BY <1>2, <2>1
    <3>2. IsFiniteSet(A \ L)
        BY <1>3, <3>1
    <3> QED
        BY <3>1, <3>2, FS_Subset
  <2> QED
      BY <2>2, <2>3
<1>5. ASSUME p \in A, p \notin B PROVE Cardinality(B) = Cardinality(A) - 1
  <2>1. B = A \ {p}
      BY <1>1, <1>2, <1>5
  <2> QED
      BY <1>2, <1>3, <1>5, <2>1, FS_RemoveElement
<1>6. ASSUME p \notin B, NEW L PROVE Cardinality(B \ L) <= Cardinality(A \ L)
  <2>1. B \ L \subseteq A \ L /\ A \ L \subseteq z.rows
      BY <1>1, <1>2, <1>6
  <2>2. IsFiniteSet(A \ L)
      BY <1>3, <2>1
  <2> QED
      BY <2>1, <2>2, FS_Subset
<1>7. ASSUME p \notin G, p \in H PROVE Cardinality(H) = Cardinality(G) + 1
  <2>1. H = G \cup {p}
      BY <1>1, <1>2, <1>7
  <2> QED
      BY <1>2, <1>3, <1>7, <2>1, FS_AddElement
<1>8. /\ (p \in A <=> p \in B) => B = A
      /\ (p \in G <=> p \in H) => H = G
  <2>1. ASSUME p \in A <=> p \in B PROVE B = A
    <3>1. \A q : q \in A <=> q \in B
        BY <1>1, <1>2, <2>1
    <3> QED
        BY <3>1
  <2>2. ASSUME p \in G <=> p \in H PROVE H = G
    <3>1. \A q : q \in G <=> q \in H
        BY <1>1, <1>2, <2>2
    <3> QED
        BY <3>1
  <2> QED
      BY <2>1, <2>2
<1>9. Cardinality(A) \in Nat /\ Cardinality(G) \in Nat /\ \A L : Cardinality(A \ L) \in Nat
  <2>1. \A L : A \ L \subseteq z.rows
      BY <1>2
  <2> QED
      BY <1>2, <1>3, <2>1
<1> QED
    BY <1>4, <1>5, <1>6, <1>7, <1>8, <1>9 DEF A, B, G, H

\* A request for a seat is decided.
LEMMA DecideStep ==
  ASSUME NEW z, EventSize(z), EventInv(z), NEW p \in z.rows, NEW s \in {"REGISTERED", "REJECTED"},
         Events(z)!Decide(p, s)
  PROVE  EventInv(z)'
<1> USE DEF EventInv
<1> DEFINE w == seat[p]
           v == [w EXCEPT !.seat = s, !.approved = (s = "REGISTERED")]
<1>1. /\ w.user # "nobody" /\ ~w.gone /\ w.seat = "PENDING" /\ seat' = [seat EXCEPT ![p] = v]
      /\ visitor' = [q \in z.requests |->
                       IF visitor[q].at = "withdraw" /\ visitor[q].row \in {p}
                       THEN [at |-> "doomed"] ELSE visitor[q]]
      /\ UNCHANGED <<kind, fair, billed, late, interrupted>>
  <2>1. /\ w.user # "nobody" /\ ~w.gone /\ w.seat = "PENDING"
        /\ visitor' = [q \in z.requests |->
                         IF visitor[q].at = "withdraw" /\ visitor[q].row \in {p}
                         THEN [at |-> "doomed"] ELSE visitor[q]]
        /\ UNCHANGED <<kind, fair, billed, late, interrupted>>
      BY DEF Events!Decide, Events!Doom, Events!Live, Events!NoUser
  <2>2. seat' = [seat EXCEPT ![p] = v]
      BY DEF Events!Decide
  <2> QED
      BY <2>1, <2>2
<1>2. w \in SeatRows(z)
    BY <1>1 DEF EventTypes, EmptySeat
<1> HIDE DEF w
<1>3. /\ v \in SeatRows(z) /\ v.user = w.user /\ v.gone = w.gone /\ v.due = w.due /\ v.seat = s
      /\ v.approved <=> s = "REGISTERED"
    BY <1>2 DEF SeatRows
<1> HIDE DEF v
<1>4. /\ seat' \in [z.rows -> SeatRows(z) \cup {EmptySeat}] /\ seat'[p] = v
      /\ \A q \in z.rows \ {p} : seat'[q] = seat[q]
    BY <1>1, <1>3 DEF EventTypes
<1>5. visitor' \in [z.requests -> VisitorRows(z)] /\ VisitsHold(z)'
  <2>1. \A q \in z.requests :
          \/ visitor'[q] \in VisitorRows(z) /\ VisitHolds(z, kind, fair', seat', visitor'[q])
          \/ /\ visitor'[q] = visitor[q]
             /\ visitor[q].at = "register" /\ ~visitor[q].overtaken =>
                  /\ fair.status # "CANCELLED" => fair'.status # "CANCELLED"
                  /\ fair'.count <= fair.count
             /\ visitor[q].at = "withdraw" =>
                  LET x == visitor[q].row
                  IN /\ seat'[x].user = seat[x].user
                     /\ seat'[x].gone = seat[x].gone
                     /\ seat'[x].seat = seat[x].seat
    <3> TAKE q \in z.requests
    <3>1. visitor[q] \in VisitorRows(z) /\ fair.count \in Int
        BY DEF EventTypes
    <3>2. visitor[q].at = "withdraw" => visitor[q].row \in z.rows
        BY <3>1, VisitorFields
    <3>3. CASE visitor[q].at = "withdraw" /\ visitor[q].row = p
      <4>1. visitor'[q] = [at |-> "doomed"]
          BY <1>1, <3>3
      <4> QED
          BY <4>1 DEF VisitorRows, VisitHolds
    <3>4. CASE ~(visitor[q].at = "withdraw" /\ visitor[q].row = p)
      <4>1. visitor'[q] = visitor[q]
          BY <1>1, <3>4
      <4> QED
          BY <1>1, <1>4, <3>1, <3>2, <3>4, <4>1
    <3> QED
        BY <3>3, <3>4
  <2>2. \A q \in z.rows : seat[q].due # "none" => seat'[q].due # "none"
      BY <1>3, <1>4 DEF w
  <2>3. kind' = kind /\ fair'.count \in Int /\ visitor' = [q \in z.requests |-> visitor'[q]]
      BY <1>1 DEF EventTypes
  <2> HIDE DEF EventInv
  <2> QED
      BY <2>1, <2>2, <2>3, VisitsHoldOn DEF EventInv
<1>6. EventTypes(z)'
    BY <1>1, <1>4, <1>5 DEF EventTypes
<1>7. ApprovalsAreSeats(z)'
    BY <1>1, <1>3, <1>4 DEF ApprovalsAreSeats
<1>8. Events(z)!CancelledEventIsEmpty'
  <2>1. fair.status = "CANCELLED" => p \in late
      BY <1>1 DEF Events!CancelledEventIsEmpty, Events!Live, Events!NoUser, w
  <2>2. \A q \in z.rows \ late :
          fair.status = "CANCELLED" => /\ seat[q].due # "PENDING"
                                       /\ seat[q].user # "nobody" /\ ~seat[q].gone
                                            => seat[q].seat \notin {"PENDING", "REGISTERED"}
      BY DEF Events!CancelledEventIsEmpty, Events!Live, Events!NoUser
  <2>3. \A q \in z.rows \ late :
          fair.status = "CANCELLED" => /\ seat'[q].due # "PENDING"
                                       /\ seat'[q].user # "nobody" /\ ~seat'[q].gone
                                            => seat'[q].seat \notin {"PENDING", "REGISTERED"}
      BY <1>4, <2>1, <2>2
  <2> QED
      BY <1>1, <2>3 DEF Events!CancelledEventIsEmpty, Events!Live, Events!NoUser
<1>9. Events(z)!SeatsAreCounted'
  <2>1. kind # "OPEN"
      BY <1>1 DEF ApprovalsAreSeats, w
  <2>2. GivenBack(z, seat') = GivenBack(z, seat)
      BY <1>1, <1>3, <1>4 DEF GivenBack, w
  <2>3. SeatsCounted(z, kind, fair, seat, late)
      BY SeatsAreCountedMeans
  <2>4. SeatsCounted(z, kind', fair', seat', late')
      BY <1>1, <2>1, <2>2, <2>3 DEF SeatsCounted
  <2> QED
      BY <2>4, SeatsAreCountedMeans
<1>10. Events(z)!BillsAreExplained'
  <2>1. \A q \in z.requests : visitor[q].at = "mark" => visitor'[q] = visitor[q]
      BY <1>1
  <2>2. \A q \in z.rows : /\ seat[q].user # "nobody" => seat'[q].user = seat[q].user
                          /\ seat[q].due \in {"INVOICED", "VOID"} => seat'[q].due \in {"INVOICED", "VOID"}
      BY <1>3, <1>4 DEF w
  <2> QED
      BY <1>1, <2>1, <2>2, BillsStay
<1> QED
    BY <1>5, <1>6, <1>7, <1>8, <1>9, <1>10

\* A registration, or a cancellation, overtakes the registrations under way.
LEMMA VisitsOvertaken ==
  ASSUME NEW z, EventSize(z), EventTypes(z), VisitsHold(z), NEW V, kind' = kind, fair'.count \in Int,
         visitor' = Events(z)!Overtake(V),
         \A q \in z.requests :
           V[q] = visitor[q] \/ (V[q] \in VisitorRows(z) /\ V[q].at \in {"idle", "doomed"}),
         \A p \in z.rows : seat[p].due # "none" => seat'[p].due # "none",
         \A q \in z.requests : V[q].at = "withdraw" =>
           LET p == V[q].row
           IN seat'[p].user = seat[p].user /\ seat'[p].gone = seat[p].gone /\ seat'[p].seat = seat[p].seat
  PROVE  /\ visitor' \in [z.requests -> VisitorRows(z)] /\ VisitsHold(z)'
         /\ \A q \in z.requests : V[q].at = "mark" => visitor'[q] = V[q]
<1>1. visitor' = [q \in z.requests |->
                    IF V[q].at = "register" THEN [V[q] EXCEPT !.overtaken = TRUE] ELSE V[q]]
    BY DEF Events!Overtake
<1>2. ASSUME NEW q \in z.requests
      PROVE  \/ visitor'[q] \in VisitorRows(z) /\ VisitHolds(z, kind, fair', seat', visitor'[q])
             \/ /\ visitor'[q] = visitor[q]
                /\ visitor[q].at = "register" /\ ~visitor[q].overtaken =>
                     /\ fair.status # "CANCELLED" => fair'.status # "CANCELLED"
                     /\ fair'.count <= fair.count
                /\ visitor[q].at = "withdraw" =>
                     LET p == visitor[q].row
                     IN /\ seat'[p].user = seat[p].user
                        /\ seat'[p].gone = seat[p].gone
                        /\ seat'[p].seat = seat[p].seat
  <2>1. visitor[q] \in VisitorRows(z)
      BY DEF EventTypes
  <2>2. CASE V[q].at = "register"
    <3> DEFINE k == visitor[q]
               m == [k EXCEPT !.overtaken = TRUE]
    <3>1. V[q] = k /\ k \in VisitorRows(z) /\ k.at = "register" /\ visitor'[q] = m
        BY <1>1, <2>1, <2>2
    <3> HIDE DEF k
    <3>2. m \in VisitorRows(z) /\ m.at = "register" /\ m.overtaken = TRUE
      <4>1. k \in [at : {"register"}, user : z.users, overtaken : BOOLEAN]
          BY <3>1 DEF VisitorRows
      <4>2. m \in [at : {"register"}, user : z.users, overtaken : BOOLEAN] /\ m.overtaken = TRUE
          BY <4>1
      <4> QED
          BY <4>2 DEF VisitorRows
    <3> HIDE DEF m
    <3>3. VisitHolds(z, kind, fair', seat', m)
        BY <3>2 DEF VisitHolds
    <3> QED
        BY <3>1, <3>2, <3>3
  <2>3. CASE V[q] # visitor[q]
    <3>1. visitor'[q] = V[q] /\ V[q] \in VisitorRows(z) /\ V[q].at \in {"idle", "doomed"}
        BY <1>1, <2>3
    <3> QED
        BY <3>1 DEF VisitHolds
  <2>4. CASE V[q] = visitor[q] /\ V[q].at # "register"
    <3>1. visitor'[q] = visitor[q]
        BY <1>1, <2>4
    <3> QED
        BY <2>4, <3>1
  <2> QED
      BY <2>2, <2>3, <2>4
<1>3. visitor' = [q \in z.requests |-> visitor'[q]]
    BY <1>1
<1>4. visitor' \in [z.requests -> VisitorRows(z)] /\ VisitsHold(z)'
    BY <1>2, <1>3, VisitsHoldOn
<1> QED
    BY <1>1, <1>4

\* A registration takes its seat.
LEMMA InsertStep ==
  ASSUME NEW z, EventSize(z), EventInv(z), NEW r \in z.requests, NEW p \in z.rows,
         Events(z)!InsertSeat(r, p)
  PROVE  EventInv(z)'
<1> USE DEF EventInv
<1> DEFINE u == visitor[r].user
           w == [user |-> u, seat |-> IF kind = "OPEN" THEN "REGISTERED" ELSE "PENDING",
                 approved |-> FALSE, gone |-> FALSE, due |-> IF z.paid THEN "PENDING" ELSE "none"]
           V == [visitor EXCEPT ![r] = [at |-> "idle"]]
<1>1. /\ visitor[r].at = "register" /\ seat[p] = EmptySeat /\ seat' = [seat EXCEPT ![p] = w]
      /\ fair' = [fair EXCEPT !.count = IF kind = "OPEN" THEN fair.count + 1 ELSE fair.count]
      /\ late' = IF visitor[r].overtaken THEN late \cup {p} ELSE late
      /\ visitor' = Events(z)!Overtake(V)
      /\ UNCHANGED <<kind, billed, interrupted>>
    BY DEF Events!InsertSeat, Events!NoRow, Events!NoUser, Events!Idle, EmptySeat
<1>2. visitor[r] \in VisitorRows(z) /\ u \in z.users /\ visitor[r].overtaken \in BOOLEAN
    BY <1>1, VisitorFields DEF EventTypes
<1>3. /\ w \in SeatRows(z) /\ w.user = u /\ ~w.approved /\ ~w.gone
      /\ w.seat = IF kind = "OPEN" THEN "REGISTERED" ELSE "PENDING"
    BY <1>2 DEF SeatRows
<1> HIDE DEF w
<1>4. /\ seat' \in [z.rows -> SeatRows(z) \cup {EmptySeat}] /\ seat'[p] = w
      /\ \A q \in z.rows \ {p} : seat'[q] = seat[q]
    BY <1>1, <1>3 DEF EventTypes
<1>5. /\ fair' \in [status : {"COMING", "COMPLETED", "CANCELLED"}, open : BOOLEAN, count : Int]
      /\ fair'.status = fair.status /\ fair.count \in Int
      /\ fair'.count = IF kind = "OPEN" THEN fair.count + 1 ELSE fair.count
    BY <1>1 DEF EventTypes
<1>6. /\ visitor' \in [z.requests -> VisitorRows(z)] /\ VisitsHold(z)'
      /\ \A q \in z.requests : V[q].at = "mark" => visitor'[q] = V[q]
  <2>1. \A q \in z.requests :
          V[q] = visitor[q] \/ (V[q] \in VisitorRows(z) /\ V[q].at \in {"idle", "doomed"})
      BY DEF EventTypes, VisitorRows
  <2>2. ASSUME NEW q \in z.requests, V[q].at = "withdraw"
        PROVE  LET x == V[q].row
               IN /\ seat'[x].user = seat[x].user
                  /\ seat'[x].gone = seat[x].gone
                  /\ seat'[x].seat = seat[x].seat
    <3>1. V[q] = visitor[q] /\ visitor[q] \in VisitorRows(z) /\ visitor[q].at = "withdraw"
        BY <2>1, <2>2 DEF EventTypes
    <3>4. VisitHolds(z, kind, fair, seat, visitor[q])
        BY DEF VisitsHold
    <3>2. visitor[q].row \in z.rows /\ seat[visitor[q].row].user # "nobody"
        BY <3>1, <3>4, VisitorFields DEF VisitHolds
    <3>3. visitor[q].row # p
        BY <1>1, <3>2 DEF EmptySeat
    <3> QED
        BY <1>4, <3>1, <3>2, <3>3
  <2>3. \A q \in z.rows : seat[q].due # "none" => seat'[q].due # "none"
      BY <1>1, <1>4 DEF EmptySeat
  <2>4. kind' = kind /\ fair'.count \in Int /\ EventTypes(z) /\ VisitsHold(z)
      BY <1>1, <1>5
  <2>5. visitor' = Events(z)!Overtake(V)
      BY <1>1
  <2> HIDE DEF EventInv, V
  <2> QED
      BY <2>1, <2>2, <2>3, <2>4, <2>5, VisitsOvertaken
<1>7. EventTypes(z)'
    BY <1>1, <1>4, <1>5, <1>6 DEF EventTypes
<1>8. ApprovalsAreSeats(z)'
    BY <1>1, <1>3, <1>4, <1>5 DEF ApprovalsAreSeats
<1>9. VisitHolds(z, kind, fair, seat, visitor[r])
    BY DEF VisitsHold
<1>10. Events(z)!CancelledEventIsEmpty'
  <2>1. fair.status = "CANCELLED" => p \in late'
      BY <1>1, <1>2, <1>9 DEF VisitHolds
  <2>2. \A q \in z.rows \ late :
          fair.status = "CANCELLED" => /\ seat[q].due # "PENDING"
                                       /\ seat[q].user # "nobody" /\ ~seat[q].gone
                                            => seat[q].seat \notin {"PENDING", "REGISTERED"}
      BY DEF Events!CancelledEventIsEmpty, Events!Live, Events!NoUser
  <2>3. late \subseteq late'
      BY <1>1
  <2>4. \A q \in z.rows \ late' :
          fair'.status = "CANCELLED" => /\ seat'[q].due # "PENDING"
                                        /\ seat'[q].user # "nobody" /\ ~seat'[q].gone
                                             => seat'[q].seat \notin {"PENDING", "REGISTERED"}
      BY <1>4, <1>5, <2>1, <2>2, <2>3
  <2> QED
      BY <2>4 DEF Events!CancelledEventIsEmpty, Events!Live, Events!NoUser
<1>11. Events(z)!SeatsAreCounted'
  <2>1. SeatsCounted(z, kind, fair, seat, late)
      BY SeatsAreCountedMeans
  <2>2. p \notin Taking(z, seat) /\ p \notin GivenBack(z, seat) /\ p \notin GivenBack(z, seat')
      BY <1>1, <1>3, <1>4 DEF Taking, GivenBack, EmptySeat
  <2>3. p \in Taking(z, seat') <=> kind = "OPEN"
      BY <1>2, <1>3, <1>4 DEF Taking, EventSize
  <2>4. /\ Cardinality(Taking(z, seat)) \in Nat /\ Cardinality(GivenBack(z, seat)) \in Nat
        /\ \A L : Cardinality(Taking(z, seat) \ L) \in Nat
        /\ p \notin Taking(z, seat) /\ p \in Taking(z, seat') =>
             /\ Cardinality(Taking(z, seat')) = Cardinality(Taking(z, seat)) + 1
             /\ \A L : Cardinality(Taking(z, seat') \ (L \cup {p})) <= Cardinality(Taking(z, seat) \ L)
        /\ (p \in GivenBack(z, seat) <=> p \in GivenBack(z, seat'))
             => GivenBack(z, seat') = GivenBack(z, seat)
    <3>1. \A q \in z.rows \ {p} : seat'[q].user = seat[q].user /\ seat'[q].gone = seat[q].gone
                                  /\ seat'[q].seat = seat[q].seat /\ seat'[q].approved = seat[q].approved
        BY <1>4
    <3> DEFINE T == seat'
    <3>2. \A q \in z.rows \ {p} : T[q].user = seat[q].user /\ T[q].gone = seat[q].gone
                                  /\ T[q].seat = seat[q].seat /\ T[q].approved = seat[q].approved
        BY <3>1
    <3> HIDE DEF T, EventInv
    <3>3. /\ Cardinality(Taking(z, seat)) \in Nat /\ Cardinality(GivenBack(z, seat)) \in Nat
          /\ \A L : Cardinality(Taking(z, seat) \ L) \in Nat
          /\ p \notin Taking(z, seat) /\ p \in Taking(z, T) =>
               /\ Cardinality(Taking(z, T)) = Cardinality(Taking(z, seat)) + 1
               /\ \A L : Cardinality(Taking(z, T) \ (L \cup {p})) <= Cardinality(Taking(z, seat) \ L)
          /\ (p \in GivenBack(z, seat) <=> p \in GivenBack(z, T)) => GivenBack(z, T) = GivenBack(z, seat)
        BY <3>2, SeatCounts
    <3> QED
        BY <3>3 DEF T
  <2>5. ASSUME kind = "OPEN", fair.status # "CANCELLED"
        PROVE  SeatsCounted(z, kind', fair', seat', late')
    <3>1. fair.count = Cardinality(Taking(z, seat)) /\ Cardinality(Taking(z, seat) \ late) <= z.capacity
        BY <2>1, <2>5 DEF SeatsCounted
    <3>2. Cardinality(Taking(z, seat')) = fair'.count
        BY <1>5, <2>2, <2>3, <2>4, <2>5, <3>1
    <3>3. Cardinality(Taking(z, seat') \ late') <= z.capacity
      <4>1. CASE visitor[r].overtaken
        <5>1. Cardinality(Taking(z, seat') \ (late \cup {p})) <= Cardinality(Taking(z, seat) \ late)
            BY <2>2, <2>3, <2>4, <2>5
        <5>2. late' = late \cup {p}
            BY <1>1, <4>1
        <5>3. /\ Cardinality(Taking(z, seat) \ late) \in Nat /\ z.capacity \in Nat
              /\ Taking(z, seat') \subseteq z.rows
            BY <2>4 DEF EventSize, Taking
        <5>4. Cardinality(Taking(z, seat') \ (late \cup {p})) \in Nat
          <6>1. Taking(z, seat') \ (late \cup {p}) \subseteq z.rows
              BY <5>3
          <6> QED
              BY <6>1, FS_Subset, FS_CardinalityType DEF EventSize
        <5> QED
            BY <3>1, <5>1, <5>2, <5>3, <5>4
      <4>2. CASE ~visitor[r].overtaken
        <5>1. fair.count < z.capacity
            BY <1>1, <1>9, <2>5, <4>2 DEF VisitHolds
        <5>2. Cardinality(Taking(z, seat')) <= z.capacity
            BY <1>5, <2>5, <3>2, <5>1 DEF EventSize
        <5>3. Taking(z, seat') \subseteq z.rows
            BY DEF Taking
        <5>4. IsFiniteSet(Taking(z, seat'))
            BY <5>3, FS_Subset DEF EventSize
        <5>5. /\ Cardinality(Taking(z, seat') \ late') <= Cardinality(Taking(z, seat'))
              /\ Cardinality(Taking(z, seat')) \in Nat /\ Cardinality(Taking(z, seat') \ late') \in Nat
            BY <5>4, FS_Subset, FS_CardinalityType
        <5> QED
            BY <5>2, <5>5 DEF EventSize
      <4> QED
          BY <4>1, <4>2
    <3> QED
        BY <1>1, <1>5, <2>5, <3>2, <3>3 DEF SeatsCounted
  <2>6. ASSUME kind # "OPEN", fair.status # "CANCELLED"
        PROVE  SeatsCounted(z, kind', fair', seat', late')
      BY <1>1, <1>5, <2>1, <2>2, <2>4, <2>6 DEF SeatsCounted
  <2>7. SeatsCounted(z, kind', fair', seat', late')
    <3>1. CASE fair.status = "CANCELLED"
        BY <1>5, <3>1 DEF SeatsCounted
    <3>2. CASE fair.status # "CANCELLED"
        BY <2>5, <2>6, <3>2
    <3> QED
        BY <3>1, <3>2
  <2> QED
      BY <2>7, SeatsAreCountedMeans
<1>12. Events(z)!BillsAreExplained'
  <2>1. \A q \in z.requests : visitor[q].at = "mark" => visitor'[q] = visitor[q]
      BY <1>1, <1>6 DEF EventTypes
  <2>2. \A q \in z.rows : /\ seat[q].user # "nobody" => seat'[q].user = seat[q].user
                          /\ seat[q].due \in {"INVOICED", "VOID"} => seat'[q].due \in {"INVOICED", "VOID"}
      BY <1>1, <1>4 DEF EmptySeat
  <2> QED
      BY <1>1, <2>1, <2>2, BillsStay
<1> QED
    BY <1>6, <1>7, <1>8, <1>10, <1>11, <1>12

\* A participant withdraws, and gives back the seat.
LEMMA WithdrawStep ==
  ASSUME NEW z, EventSize(z), EventInv(z), NEW r \in z.requests, Events(z)!WriteWithdrawal(r)
  PROVE  EventInv(z)'
<1> USE DEF EventInv
<1> DEFINE p == visitor[r].row
           w == seat[p]
           v == [w EXCEPT !.seat = "CANCELLED", !.gone = TRUE]
           V == [[q \in z.requests |-> IF visitor[q].at = "withdraw" /\ visitor[q].row \in {p}
                                       THEN [at |-> "doomed"] ELSE visitor[q]]
                   EXCEPT ![r] = [at |-> "idle"]]
<1>1. /\ visitor[r].at = "withdraw"
      /\ fair' = [fair EXCEPT !.count =
                       IF visitor[r].seat = "REGISTERED" THEN fair.count - 1 ELSE fair.count]
      /\ visitor' = V
      /\ UNCHANGED <<kind, billed, interrupted, late>>
    BY DEF Events!WriteWithdrawal, Events!Doom, Events!Idle
<1>2. seat' = [seat EXCEPT ![p] = v]
    BY DEF Events!WriteWithdrawal
<1>3. /\ visitor[r] \in VisitorRows(z) /\ p \in z.rows
      /\ w.user # "nobody" /\ ~w.gone /\ w.seat = visitor[r].seat
    BY <1>1, VisitorFields DEF EventTypes, VisitsHold, VisitHolds
<1>4. w \in SeatRows(z)
    BY <1>3 DEF EventTypes, EmptySeat
<1> HIDE DEF w
<1>5. /\ v \in SeatRows(z) /\ v.user = w.user /\ v.gone = TRUE /\ v.due = w.due /\ v.seat = "CANCELLED"
      /\ v.approved = w.approved
    BY <1>4 DEF SeatRows
<1> HIDE DEF v, p, V
<1>6. /\ seat' \in [z.rows -> SeatRows(z) \cup {EmptySeat}] /\ seat'[p] = v
      /\ \A q \in z.rows \ {p} : seat'[q] = seat[q]
    BY <1>2, <1>3, <1>5 DEF EventTypes
<1>7. /\ fair' \in [status : {"COMING", "COMPLETED", "CANCELLED"}, open : BOOLEAN, count : Int]
      /\ fair'.status = fair.status /\ fair.count \in Int
      /\ fair'.count = IF visitor[r].seat = "REGISTERED" THEN fair.count - 1 ELSE fair.count
    BY <1>1 DEF EventTypes
<1>8. ASSUME NEW q \in z.requests
      PROVE  /\ visitor'[q] \in VisitorRows(z)
             /\ \/ visitor'[q].at \in {"idle", "doomed"}
                \/ /\ visitor'[q] = visitor[q]
                   /\ visitor[q].at = "withdraw" => visitor[q].row # p
             /\ visitor[q].at = "mark" => visitor'[q] = visitor[q]
    BY <1>1 DEF V, VisitorRows, EventTypes
<1>9. visitor' \in [z.requests -> VisitorRows(z)] /\ VisitsHold(z)'
  <2>1. \A q \in z.requests :
          \/ visitor'[q] \in VisitorRows(z) /\ VisitHolds(z, kind, fair', seat', visitor'[q])
          \/ /\ visitor'[q] = visitor[q]
             /\ visitor[q].at = "register" /\ ~visitor[q].overtaken =>
                  /\ fair.status # "CANCELLED" => fair'.status # "CANCELLED"
                  /\ fair'.count <= fair.count
             /\ visitor[q].at = "withdraw" =>
                  LET x == visitor[q].row
                  IN /\ seat'[x].user = seat[x].user
                     /\ seat'[x].gone = seat[x].gone
                     /\ seat'[x].seat = seat[x].seat
    <3> TAKE q \in z.requests
    <3>1. visitor[q] \in VisitorRows(z)
        BY DEF EventTypes
    <3>2. CASE visitor'[q].at \in {"idle", "doomed"}
        BY <1>8, <3>2 DEF VisitHolds
    <3>3. CASE visitor'[q] = visitor[q] /\ (visitor[q].at = "withdraw" => visitor[q].row # p)
      <4>1. visitor[q].at = "withdraw" => visitor[q].row \in z.rows \ {p}
          BY <3>1, <3>3, VisitorFields
      <4> QED
          BY <1>6, <1>7, <3>3, <4>1
    <3> QED
        BY <1>8, <3>2, <3>3
  <2>2. \A q \in z.rows : seat[q].due # "none" => seat'[q].due # "none"
      BY <1>5, <1>6 DEF w
  <2>3. kind' = kind /\ fair'.count \in Int /\ visitor' = [q \in z.requests |-> visitor'[q]]
      BY <1>1, <1>7 DEF V
  <2> HIDE DEF EventInv
  <2> QED
      BY <2>1, <2>2, <2>3, VisitsHoldOn DEF EventInv
<1>10. EventTypes(z)'
    BY <1>1, <1>6, <1>7, <1>9 DEF EventTypes
<1>11. ApprovalsAreSeats(z)'
    BY <1>1, <1>3, <1>5, <1>6, <1>7 DEF ApprovalsAreSeats
<1>12. Events(z)!CancelledEventIsEmpty'
  <2>1. \A q \in z.rows \ late :
          fair.status = "CANCELLED" => /\ seat[q].due # "PENDING"
                                       /\ seat[q].user # "nobody" /\ ~seat[q].gone
                                            => seat[q].seat \notin {"PENDING", "REGISTERED"}
      BY DEF Events!CancelledEventIsEmpty, Events!Live, Events!NoUser
  <2>2. \A q \in z.rows \ late' :
          fair'.status = "CANCELLED" => /\ seat'[q].due # "PENDING"
                                        /\ seat'[q].user # "nobody" /\ ~seat'[q].gone
                                             => seat'[q].seat \notin {"PENDING", "REGISTERED"}
      BY <1>1, <1>5, <1>6, <1>7, <2>1 DEF w
  <2> QED
      BY <2>2 DEF Events!CancelledEventIsEmpty, Events!Live, Events!NoUser
<1>13. Events(z)!SeatsAreCounted'
  <2> DEFINE T == seat'
  <2>1. SeatsCounted(z, kind, fair, seat, late)
      BY SeatsAreCountedMeans
  <2>2. /\ p \in Taking(z, seat) <=> visitor[r].seat = "REGISTERED"
        /\ p \notin Taking(z, T) /\ p \notin GivenBack(z, seat)
        /\ p \in GivenBack(z, T) <=> w.approved
    <3>1. w.approved \in BOOLEAN
        BY <1>4, SeatFields
    <3> QED
        BY <1>3, <1>5, <1>6, <3>1 DEF Taking, GivenBack, w
  <2>3. \A q \in z.rows \ {p} : T[q].user = seat[q].user /\ T[q].gone = seat[q].gone
                                /\ T[q].seat = seat[q].seat /\ T[q].approved = seat[q].approved
      BY <1>6
  <2>4. kind # "OPEN" /\ fair.status # "CANCELLED" => (w.approved <=> visitor[r].seat = "REGISTERED")
      BY <1>3 DEF ApprovalsAreSeats, w
  <2> HIDE DEF T, EventInv
  <2>5. /\ Cardinality(Taking(z, seat)) \in Nat /\ Cardinality(GivenBack(z, seat)) \in Nat
        /\ \A L : Cardinality(Taking(z, seat) \ L) \in Nat
        /\ p \in Taking(z, seat) /\ p \notin Taking(z, T) =>
             Cardinality(Taking(z, T)) = Cardinality(Taking(z, seat)) - 1
        /\ (p \in Taking(z, seat) <=> p \in Taking(z, T)) => Taking(z, T) = Taking(z, seat)
        /\ p \notin Taking(z, T) => \A L : Cardinality(Taking(z, T) \ L) <= Cardinality(Taking(z, seat) \ L)
        /\ p \notin GivenBack(z, seat) /\ p \in GivenBack(z, T) =>
             Cardinality(GivenBack(z, T)) = Cardinality(GivenBack(z, seat)) + 1
        /\ (p \in GivenBack(z, seat) <=> p \in GivenBack(z, T)) => GivenBack(z, T) = GivenBack(z, seat)
    <3>1. p \in z.rows
        BY <1>3
    <3>2. /\ Cardinality(Taking(z, seat)) \in Nat /\ Cardinality(GivenBack(z, seat)) \in Nat
          /\ \A L : Cardinality(Taking(z, seat) \ L) \in Nat
        BY <2>3, <3>1, SeatCounts
    <3>3. /\ p \in Taking(z, seat) /\ p \notin Taking(z, T) =>
               Cardinality(Taking(z, T)) = Cardinality(Taking(z, seat)) - 1
          /\ (p \in Taking(z, seat) <=> p \in Taking(z, T)) => Taking(z, T) = Taking(z, seat)
        BY <2>3, <3>1, SeatCounts
    <3>4. p \notin Taking(z, T) =>
            \A L : Cardinality(Taking(z, T) \ L) <= Cardinality(Taking(z, seat) \ L)
        BY <2>3, <3>1, SeatCounts
    <3>5. /\ p \notin GivenBack(z, seat) /\ p \in GivenBack(z, T) =>
               Cardinality(GivenBack(z, T)) = Cardinality(GivenBack(z, seat)) + 1
          /\ (p \in GivenBack(z, seat) <=> p \in GivenBack(z, T)) =>
               GivenBack(z, T) = GivenBack(z, seat)
        BY <2>3, <3>1, SeatCounts
    <3> QED
        BY <3>2, <3>3, <3>4, <3>5
  <2>6. ASSUME kind = "OPEN", fair.status # "CANCELLED" PROVE SeatsCounted(z, kind', fair', T, late')
    <3>1. fair.count = Cardinality(Taking(z, seat)) /\ Cardinality(Taking(z, seat) \ late) <= z.capacity
        BY <2>1, <2>6 DEF SeatsCounted
    <3>2. Cardinality(Taking(z, T)) = fair'.count
      <4>1. CASE visitor[r].seat = "REGISTERED"
          BY <1>7, <2>2, <2>5, <3>1, <4>1
      <4>2. CASE visitor[r].seat # "REGISTERED"
        <5>1. Taking(z, T) = Taking(z, seat)
            BY <2>2, <2>5, <4>2
        <5> QED
            BY <1>7, <3>1, <4>2, <5>1
      <4> QED
          BY <4>1, <4>2
    <3>3. Cardinality(Taking(z, T) \ late) <= Cardinality(Taking(z, seat) \ late)
        BY <2>2, <2>5
    <3>4. Cardinality(Taking(z, T) \ late) \in Nat
      <4>1. Taking(z, T) \ late \subseteq z.rows
          BY DEF Taking
      <4> QED
          BY <4>1, FS_Subset, FS_CardinalityType DEF EventSize
    <3>5. Cardinality(Taking(z, T) \ late) <= z.capacity
      <4>1. Cardinality(Taking(z, seat) \ late) \in Nat
          BY <2>5
      <4> QED
          BY <3>1, <3>3, <3>4, <4>1 DEF EventSize
    <3> QED
        BY <1>1, <1>7, <2>6, <3>2, <3>5 DEF SeatsCounted
  <2>7. ASSUME kind # "OPEN", fair.status # "CANCELLED" PROVE SeatsCounted(z, kind', fair', T, late')
    <3>1. fair.count + Cardinality(GivenBack(z, seat)) = 0
        BY <2>1, <2>7 DEF SeatsCounted
    <3>2. fair'.count + Cardinality(GivenBack(z, T)) = 0
      <4>1. CASE visitor[r].seat = "REGISTERED"
        <5>1. Cardinality(GivenBack(z, T)) = Cardinality(GivenBack(z, seat)) + 1
            BY <2>2, <2>4, <2>5, <2>7, <4>1
        <5> QED
            BY <1>7, <2>5, <3>1, <4>1, <5>1
      <4>2. CASE visitor[r].seat # "REGISTERED"
        <5>1. GivenBack(z, T) = GivenBack(z, seat)
            BY <2>2, <2>4, <2>5, <2>7, <4>2
        <5> QED
            BY <1>7, <3>1, <4>2, <5>1
      <4> QED
          BY <4>1, <4>2
    <3> QED
        BY <1>1, <1>7, <2>7, <3>2 DEF SeatsCounted
  <2>8. ASSUME fair.status = "CANCELLED" PROVE SeatsCounted(z, kind', fair', T, late')
      BY <1>7, <2>8 DEF SeatsCounted
  <2>9. SeatsCounted(z, kind', fair', T, late')
      BY <2>6, <2>7, <2>8
  <2> QED
      BY <2>9, SeatsAreCountedMeans DEF T
<1>14. Events(z)!BillsAreExplained'
  <2>1. \A q \in z.requests : visitor[q].at = "mark" => visitor'[q] = visitor[q]
      BY <1>8
  <2>2. \A q \in z.rows : /\ seat[q].user # "nobody" => seat'[q].user = seat[q].user
                          /\ seat[q].due \in {"INVOICED", "VOID"} => seat'[q].due \in {"INVOICED", "VOID"}
      BY <1>5, <1>6 DEF w
  <2> QED
      BY <1>1, <2>1, <2>2, BillsStay
<1> QED
    BY <1>9, <1>10, <1>11, <1>12, <1>13, <1>14

\* The event is cancelled: nothing in it is open, or left to bill.
LEMMA CancelStep ==
  ASSUME NEW z, EventSize(z), EventInv(z), Events(z)!CancelEvent
  PROVE  EventInv(z)'
<1> USE DEF EventInv
<1> DEFINE open == {p \in z.rows : /\ seat[p].user # "nobody" /\ ~seat[p].gone
                                   /\ seat[p].seat \in {"PENDING", "REGISTERED"}}
           w(p) == [seat[p] EXCEPT !.seat = IF p \in open THEN "CANCELLED" ELSE @,
                                   !.due = IF @ = "PENDING" THEN "VOID" ELSE @]
           V == [q \in z.requests |-> IF visitor[q].at = "withdraw" /\ visitor[q].row \in open
                                      THEN [at |-> "doomed"] ELSE visitor[q]]
<1>1. /\ fair' = [fair EXCEPT !.status = "CANCELLED", !.open = FALSE]
      /\ visitor' = Events(z)!Overtake(V)
      /\ UNCHANGED <<kind, billed, late, interrupted>>
    BY DEF Events!CancelEvent, Events!Doom, Events!Live, Events!NoUser
<1>2. seat' = [p \in z.rows |-> w(p)]
    BY DEF Events!CancelEvent, Events!Live, Events!NoUser
<1>3. ASSUME NEW p \in z.rows
      PROVE  /\ w(p) \in SeatRows(z) \cup {EmptySeat} /\ w(p).user = seat[p].user
             /\ w(p).gone = seat[p].gone
             /\ w(p).seat = IF p \in open THEN "CANCELLED" ELSE seat[p].seat
             /\ w(p).due = IF seat[p].due = "PENDING" THEN "VOID" ELSE seat[p].due
  <2> DEFINE x == seat[p]
             s == IF p \in open THEN "CANCELLED" ELSE x.seat
             d == IF x.due = "PENDING" THEN "VOID" ELSE x.due
  <2>1. w(p) = [x EXCEPT !.seat = s, !.due = d]
      OBVIOUS
  <2>2. CASE x \in SeatRows(z)
    <3>1. /\ s \in {"PENDING", "REGISTERED", "REJECTED", "CANCELLED"}
          /\ d \in {"none", "PENDING", "INVOICED", "VOID"}
        BY <2>2, SeatFields
    <3> HIDE DEF s, d, x, w
    <3>2. /\ [x EXCEPT !.seat = s, !.due = d] \in SeatRows(z)
          /\ [x EXCEPT !.seat = s, !.due = d].user = x.user
          /\ [x EXCEPT !.seat = s, !.due = d].gone = x.gone
          /\ [x EXCEPT !.seat = s, !.due = d].seat = s
          /\ [x EXCEPT !.seat = s, !.due = d].due = d
        BY <2>2, <3>1 DEF SeatRows
    <3>3. /\ w(p) \in SeatRows(z) /\ w(p).user = x.user /\ w(p).gone = x.gone /\ w(p).seat = s
          /\ w(p).due = d
        BY <2>1, <3>2
    <3> QED
        BY <3>3 DEF s, d, x
  <2>3. CASE x = EmptySeat
    <3>1. p \notin open /\ s = "none" /\ d = "none" /\ x.due = "none"
      <4>1. x.user = "nobody" /\ x.seat = "none" /\ x.due = "none"
          BY <2>3 DEF EmptySeat
      <4>2. p \notin open
          BY <4>1
      <4> QED
          BY <4>1, <4>2
    <3>2. [x EXCEPT !.seat = "none", !.due = "none"] = x
      <4> DEFINE R == [user : {"nobody"}, seat : {"none"}, approved : {FALSE}, gone : {FALSE},
                       due : {"none"}]
      <4>1. x \in R
          BY <2>3 DEF EmptySeat
      <4> HIDE DEF x
      <4>2. [x EXCEPT !.seat = "none", !.due = "none"] \in R
          BY <4>1
      <4>3. \A a \in R : a = EmptySeat
        <5>1. \A a \in R : a = [user |-> a.user, seat |-> a.seat, approved |-> a.approved,
                                gone |-> a.gone, due |-> a.due]
            OBVIOUS
        <5> QED
            BY <5>1 DEF EmptySeat
      <4> QED
          BY <4>1, <4>2, <4>3
    <3>3. w(p) = x
        BY <2>1, <3>1, <3>2
    <3> HIDE DEF w, open
    <3> QED
        BY <2>3, <3>1, <3>3
  <2> QED
      BY <2>2, <2>3 DEF EventTypes
<1> HIDE DEF w
<1>4. /\ seat' \in [z.rows -> SeatRows(z) \cup {EmptySeat}]
      /\ \A p \in z.rows :
           /\ seat'[p].user = seat[p].user /\ seat'[p].gone = seat[p].gone
           /\ seat'[p].seat = IF p \in open THEN "CANCELLED" ELSE seat[p].seat
           /\ seat'[p].due = IF seat[p].due = "PENDING" THEN "VOID" ELSE seat[p].due
    BY <1>2, <1>3
<1>5. /\ fair' \in [status : {"COMING", "COMPLETED", "CANCELLED"}, open : BOOLEAN, count : Int]
      /\ fair'.status = "CANCELLED"
    BY <1>1 DEF EventTypes
<1>6. /\ visitor' \in [z.requests -> VisitorRows(z)] /\ VisitsHold(z)'
      /\ \A q \in z.requests : V[q].at = "mark" => visitor'[q] = V[q]
  <2>1. \A q \in z.requests :
          V[q] = visitor[q] \/ (V[q] \in VisitorRows(z) /\ V[q].at \in {"idle", "doomed"})
      BY DEF VisitorRows
  <2>2. ASSUME NEW q \in z.requests, V[q].at = "withdraw"
        PROVE  LET x == V[q].row
               IN /\ seat'[x].user = seat[x].user
                  /\ seat'[x].gone = seat[x].gone
                  /\ seat'[x].seat = seat[x].seat
    <3>1. /\ V[q] = visitor[q] /\ visitor[q] \in VisitorRows(z) /\ visitor[q].at = "withdraw"
          /\ visitor[q].row \notin open
        BY <2>2 DEF EventTypes
    <3>2. visitor[q].row \in z.rows
        BY <3>1, VisitorFields
    <3> HIDE DEF V, open
    <3> QED
        BY <1>4, <3>1, <3>2
  <2>3. \A q \in z.rows : seat[q].due # "none" => seat'[q].due # "none"
      BY <1>4
  <2>4. kind' = kind /\ fair'.count \in Int /\ EventTypes(z) /\ VisitsHold(z)
      BY <1>1, <1>5
  <2>5. visitor' = Events(z)!Overtake(V)
      BY <1>1
  <2> HIDE DEF EventInv, V
  <2> QED
      BY <2>1, <2>2, <2>3, <2>4, <2>5, VisitsOvertaken
<1>7. EventTypes(z)'
    BY <1>1, <1>4, <1>5, <1>6 DEF EventTypes
<1>8. ApprovalsAreSeats(z)'
    BY <1>1, <1>4, <1>5 DEF ApprovalsAreSeats
<1>9. Events(z)!CancelledEventIsEmpty'
    BY <1>4 DEF Events!CancelledEventIsEmpty, Events!Live, Events!NoUser
<1>10. Events(z)!SeatsAreCounted'
  <2>1. SeatsCounted(z, kind', fair', seat', late')
      BY <1>5 DEF SeatsCounted
  <2> QED
      BY <2>1, SeatsAreCountedMeans
<1>11. Events(z)!BillsAreExplained'
  <2>1. \A q \in z.requests : visitor[q].at = "mark" => visitor'[q] = visitor[q]
      BY <1>6 DEF EventTypes
  <2>2. \A q \in z.rows : /\ seat[q].user # "nobody" => seat'[q].user = seat[q].user
                          /\ seat[q].due \in {"INVOICED", "VOID"} => seat'[q].due \in {"INVOICED", "VOID"}
      BY <1>4
  <2> QED
      BY <1>1, <2>1, <2>2, BillsStay
<1> QED
    BY <1>6, <1>7, <1>8, <1>9, <1>10, <1>11

\* An event keeps its seats and bills.
LEMMA EventKeeps ==
  ASSUME NEW z, EventSize(z), EventInv(z), Events(z)!Next \/ UNCHANGED fairVars
  PROVE  EventInv(z)'
<1>1. CASE \/ UNCHANGED fairVars \/ Events(z)!Complete
           \/ Events(z)!OpenRegistration \/ Events(z)!CloseRegistration
    BY <1>1, FairMoves
<1>2. CASE Events(z)!CancelEvent
    BY <1>2, CancelStep
<1>3. ASSUME NEW p \in z.rows, Events(z)!Approve(p) \/ Events(z)!Reject(p) PROVE EventInv(z)'
  <2>1. \E s \in {"REGISTERED", "REJECTED"} : Events(z)!Decide(p, s)
      BY <1>3 DEF Events!Approve, Events!Reject
  <2> QED
      BY <2>1, DecideStep
<1>4. ASSUME NEW p \in z.rows, Events(z)!VoidAssignment(p) PROVE EventInv(z)'
    BY <1>4, VoidStep
<1>5. ASSUME NEW r \in z.requests,
             \/ \E u \in z.users : Events(z)!Register(r, u)
             \/ \E p \in z.rows : Events(z)!Withdraw(r, p)
             \/ Events(z)!ListPending(r)
      PROVE  EventInv(z)'
    BY <1>5, VisitBegins
<1>6. ASSUME NEW r \in z.requests, NEW p \in z.rows, Events(z)!InsertSeat(r, p) PROVE EventInv(z)'
    BY <1>6, InsertStep
<1>7. ASSUME NEW r \in z.requests, NEW p \in z.rows, Events(z)!MarkInvoiced(r, p) PROVE EventInv(z)'
    BY <1>7, MarkStep
<1>8. ASSUME NEW r \in z.requests, Events(z)!WriteWithdrawal(r) PROVE EventInv(z)'
    BY <1>8, WithdrawStep
<1>9. ASSUME NEW r \in z.requests, Events(z)!Bill(r) PROVE EventInv(z)'
    BY <1>9, BillStep
<1>10. ASSUME NEW r \in z.requests, Events(z)!Abort(r) PROVE EventInv(z)'
    BY <1>10, AbortStep
<1> QED
    BY <1>1, <1>2, <1>3, <1>4, <1>5, <1>6, <1>7, <1>8, <1>9, <1>10 DEF Events!Next

\* What a school shows of an event.
LEMMA EventShows ==
  ASSUME NEW z, EventSize(z), EventInv(z)
  PROVE  /\ Events(z)!TypeOK /\ Events(z)!CancelledEventIsEmpty /\ Events(z)!SeatsAreCounted
         /\ Events(z)!BillsAreExplained
<1> USE DEF EventInv
<1>1. seat \in [z.rows -> [user : z.users \cup {"nobody"},
                           seat : {"none", "PENDING", "REGISTERED", "REJECTED", "CANCELLED"},
                           approved : BOOLEAN, gone : BOOLEAN,
                           due : {"none", "PENDING", "INVOICED", "VOID"}]]
  <2>1. \A w \in SeatRows(z) \cup {EmptySeat} :
          w \in [user : z.users \cup {"nobody"},
                 seat : {"none", "PENDING", "REGISTERED", "REJECTED", "CANCELLED"},
                 approved : BOOLEAN, gone : BOOLEAN, due : {"none", "PENDING", "INVOICED", "VOID"}]
    <3> DEFINE Any == [user : z.users \cup {"nobody"},
                       seat : {"none", "PENDING", "REGISTERED", "REJECTED", "CANCELLED"},
                       approved : BOOLEAN, gone : BOOLEAN,
                       due : {"none", "PENDING", "INVOICED", "VOID"}]
    <3>1. EmptySeat \in Any
        BY DEF EmptySeat
    <3>2. \A w \in SeatRows(z) : w \in Any
        BY DEF SeatRows
    <3> QED
        BY <3>1, <3>2
  <2> QED
      BY <2>1 DEF EventTypes
<1>2. \A r \in z.requests :
        visitor[r].at \in {"idle", "register", "withdraw", "doomed", "bill", "mark"}
  <2> TAKE r \in z.requests
  <2>1. visitor[r] \in VisitorRows(z)
      BY DEF EventTypes
  <2> QED
      BY <2>1, VisitorFields
<1>3. Events(z)!TypeOK
    BY <1>1, <1>2 DEF Events!TypeOK, EventTypes, Events!Terminal, Events!NoUser
<1> QED
    BY <1>3

-----------------------------------------------------------------------------
(* Marks                                                                   *)

Given(z) == z.marks \cup {0}

MarkEdits(z) == [from : Given(z), to : Given(z)]

ResultRows(z) == [student : z.students, value : z.marks]

EnterRows(z) ==
  UNION {[at : {"enter"}, entry : [some -> Given(z)], seen : [some -> Given(z)]] :
           some \in SUBSET z.students}

ComputeRows(z) ==
  [at : {"compute"}, old : SUBSET ResultRows(z), overtaken : BOOLEAN, new : SUBSET ResultRows(z)]

\* What a teacher saw is still there, and the results a computation read if it was not overtaken.
TeacherHolds(z, M, R, k) ==
  \/ k.at \in {"idle", "doomed", "sheet"}
  \/ k \in EnterRows(z) /\ \A s \in DOMAIN k.entry : k.seen[s] # 0 => M[s].value = k.seen[s]
  \/ k \in ComputeRows(z) /\ (~k.overtaken => k.old = R)

TracedOf(t, value) ==
  /\ \A i \in 1 .. Len(t) : t[i].from = IF i = 1 THEN 0 ELSE t[i - 1].to
  /\ value = IF Len(t) = 0 THEN 0 ELSE t[Len(t)].to

TrailOf(z, m, t) ==
  /\ m \in [value : Given(z), version : Nat] /\ t \in Seq(MarkEdits(z))
  /\ Len(t) <= z.maxChanges /\ m.version <= Len(t) /\ TracedOf(t, m.value)

MarkInv(z) ==
  /\ DOMAIN mark = z.students /\ mark = [s \in z.students |-> mark[s]]
  /\ \A s \in z.students : TrailOf(z, mark[s], trail[s])
  /\ teacher = [q \in z.requests |-> teacher[q]]
  /\ \A q \in z.requests : TeacherHolds(z, mark, results, teacher[q])
  /\ results \subseteq ResultRows(z) /\ sheet \subseteq ResultRows(z) /\ crossed \in BOOLEAN
  /\ Exams(z)!ResultsAreOneSheet

\* An exam begins without marks.
LEMMA MarkBegins == ASSUME NEW z, MarkSize(z), Exams(z)!Init PROVE MarkInv(z)
<1> USE DEF Exams!Init, Exams!NoMark, Exams!None, Exams!Idle
<1>1. \A s \in z.students : TrailOf(z, mark[s], trail[s])
    BY DEF TrailOf, TracedOf, Given, MarkSize
<1>2. \A q \in z.requests : TeacherHolds(z, mark, results, teacher[q])
    BY DEF TeacherHolds
<1> QED
    BY <1>1, <1>2 DEF MarkInv, Exams!ResultsAreOneSheet

\* A history grows by what its mark was and what it is.
LEMMA TrailGrows ==
  ASSUME NEW z, NEW m, NEW t, TrailOf(z, m, t), Len(t) < z.maxChanges, z.maxChanges \in Nat,
         NEW to \in Given(z), NEW n \in {0, m.version + 1}
  PROVE  TrailOf(z, [value |-> to, version |-> n], Append(t, [from |-> m.value, to |-> to]))
<1> DEFINE x == [from |-> m.value, to |-> to]
           u == Append(t, x)
<1>1. t \in Seq(MarkEdits(z)) /\ m.value \in Given(z) /\ m.version \in Nat /\ Len(t) \in Nat
    BY DEF TrailOf
<1>2. x \in MarkEdits(z)
    BY <1>1 DEF MarkEdits
<1>3. x.from = m.value /\ x.to = to
    OBVIOUS
<1> HIDE DEF x
<1>4. /\ u \in Seq(MarkEdits(z)) /\ Len(u) = Len(t) + 1 /\ u[Len(t) + 1] = x
      /\ \A i \in 1 .. Len(t) : u[i] = t[i]
    BY <1>1, <1>2
<1> HIDE DEF u
<1>5. TracedOf(u, to)
  <2>1. ASSUME NEW i \in 1 .. Len(u) PROVE u[i].from = IF i = 1 THEN 0 ELSE u[i - 1].to
    <3>1. CASE i = Len(t) + 1
        BY <1>1, <1>3, <1>4, <3>1 DEF TrailOf, TracedOf
    <3>2. CASE i # Len(t) + 1
      <4>1. i \in 1 .. Len(t)
          BY <1>1, <1>4, <3>2
      <4>2. t[i].from = IF i = 1 THEN 0 ELSE t[i - 1].to
          BY <4>1 DEF TrailOf, TracedOf
      <4>3. i # 1 => i - 1 \in 1 .. Len(t)
          BY <1>1, <4>1
      <4>4. u[i] = t[i] /\ (i # 1 => u[i - 1] = t[i - 1])
          BY <1>4, <4>1, <4>3
      <4> QED
          BY <4>2, <4>4
    <3> QED
        BY <3>1, <3>2
  <2> QED
      BY <1>1, <1>3, <1>4, <2>1 DEF TracedOf
<1>6. n <= Len(u) /\ n \in Nat /\ Len(u) <= z.maxChanges
    BY <1>1, <1>4 DEF TrailOf
<1> QED
    BY <1>4, <1>5, <1>6 DEF TrailOf, u, x

\* A handler takes its next step, and the rows stay.
LEMMA TeacherTurns ==
  ASSUME NEW z, MarkInv(z), NEW r \in z.requests, NEW k, TeacherHolds(z, mark, results, k),
         teacher' = [teacher EXCEPT ![r] = k], UNCHANGED <<mark, trail, results, sheet, crossed>>
  PROVE  MarkInv(z)'
<1>1. teacher' = [q \in z.requests |-> IF q = r THEN k ELSE teacher[q]]
    BY DEF MarkInv
<1> DEFINE T == teacher'
<1>2. T = [q \in z.requests |-> T[q]]
    BY <1>1
<1>3. \A q \in z.requests : TeacherHolds(z, mark, results, T[q])
    BY <1>1 DEF MarkInv
<1>4. Exams(z)!ResultsAreOneSheet'
    BY DEF MarkInv, Exams!ResultsAreOneSheet
<1> QED
    BY <1>2, <1>3, <1>4 DEF MarkInv

\* What a handler reads is there when it reads it.
LEMMA EnteringHolds ==
  ASSUME NEW z, MarkSize(z), MarkInv(z), NEW some \in SUBSET z.students, NEW e \in [some -> Given(z)]
  PROVE  TeacherHolds(z, mark, results, Exams(z)!Entering(e))
<1> DEFINE k == [at |-> "enter", entry |-> e, seen |-> [s \in some |-> mark[s].value]]
<1>1. Exams(z)!Entering(e) = k
    BY DEF Exams!Entering, Exams!MarkOf
<1>2. \A s \in some : mark[s].value \in Given(z)
    BY DEF MarkInv, TrailOf
<1>3. k \in [at : {"enter"}, entry : [some -> Given(z)], seen : [some -> Given(z)]]
    BY <1>2
<1>4. k \in EnterRows(z)
    BY <1>3 DEF EnterRows
<1>5. DOMAIN k.entry = some /\ \A s \in some : k.seen[s] = mark[s].value
    OBVIOUS
<1> HIDE DEF k
<1> QED
    BY <1>1, <1>4, <1>5 DEF TeacherHolds

\* What a computation reads is there when it reads it.
LEMMA ComputingHolds ==
  ASSUME NEW z, MarkSize(z), MarkInv(z)
  PROVE  TeacherHolds(z, mark, results,
           [at |-> "compute", old |-> results, overtaken |-> FALSE,
            new |-> {[student |-> s, value |-> mark[s].value]
                   : s \in {t \in z.students : mark[t].value # 0}}])
<1> DEFINE new == {[student |-> s, value |-> mark[s].value] : s \in {t \in z.students : mark[t].value # 0}}
           k == [at |-> "compute", old |-> results, overtaken |-> FALSE, new |-> new]
<1>1. new \subseteq ResultRows(z)
    BY DEF MarkInv, TrailOf, Given, ResultRows
<1> HIDE DEF new
<1>2. k \in ComputeRows(z) /\ k.old = results
    BY <1>1 DEF ComputeRows, MarkInv
<1> HIDE DEF k
<1>3. TeacherHolds(z, mark, results, k)
    BY <1>2 DEF TeacherHolds
<1> QED
    BY <1>3 DEF k, new

\* Marks are written next to their history, and no handler keeps a mark that is not there.
LEMMA MarksWritten ==
  ASSUME NEW z, MarkSize(z), MarkInv(z), NEW r \in z.requests, Exams(z)!WriteMarks(r)
  PROVE  MarkInv(z)'
<1> DEFINE entry1 == teacher[r].entry
           seen1 == teacher[r].seen
           M == mark'
           U == trail'
           T == teacher'
<1>1. /\ teacher[r].at = "enter"
      /\ \A s \in DOMAIN entry1 : seen1[s] = 0 => mark[s].value = 0
      /\ \A s \in DOMAIN entry1 : Len(trail[s]) < z.maxChanges
      /\ M = [s \in z.students |->
               IF s \notin DOMAIN entry1 THEN mark[s]
               ELSE IF entry1[s] = 0 THEN [value |-> 0, version |-> 0]
               ELSE [value |-> entry1[s], version |-> mark[s].version + 1]]
      /\ U = [s \in z.students |->
               IF s \notin DOMAIN entry1 THEN trail[s]
               ELSE Append(trail[s], [from |-> seen1[s], to |-> entry1[s]])]
      /\ T = [q \in z.requests |->
               IF q = r THEN [at |-> "idle"]
               ELSE IF teacher[q].at = "enter" /\ Exams(z)!Judged(q) \cap DOMAIN entry1 # {}
               THEN [at |-> "doomed"]
               ELSE teacher[q]]
      /\ UNCHANGED <<results, sheet, crossed>>
    BY DEF Exams!WriteMarks, Exams!None, Exams!NoMark, Exams!MarkOf, Exams!Idle, Exams!Doomed
<1>2. teacher[r] \in EnterRows(z) /\ \A s \in DOMAIN entry1 : seen1[s] # 0 => mark[s].value = seen1[s]
    BY <1>1 DEF MarkInv, TeacherHolds, ComputeRows
<1>3. PICK some \in SUBSET z.students : entry1 \in [some -> Given(z)] /\ seen1 \in [some -> Given(z)]
    BY <1>2 DEF EnterRows
<1>4. \A s \in some : seen1[s] = mark[s].value /\ entry1[s] \in Given(z)
    BY <1>1, <1>2, <1>3
<1>5. ASSUME NEW q \in z.requests, teacher[q].at = "enter"
      PROVE  /\ teacher[q] \in EnterRows(z)
             /\ \A s \in DOMAIN teacher[q].entry :
                  teacher[q].seen[s] # 0 => mark[s].value = teacher[q].seen[s]
             /\ DOMAIN teacher[q].entry \subseteq z.students
  <2>1. /\ teacher[q] \in EnterRows(z)
        /\ \A s \in DOMAIN teacher[q].entry :
             teacher[q].seen[s] # 0 => mark[s].value = teacher[q].seen[s]
      BY <1>5 DEF MarkInv, TeacherHolds, ComputeRows
  <2>2. DOMAIN teacher[q].entry \subseteq z.students
      BY <2>1 DEF EnterRows
  <2> QED
      BY <2>1, <2>2
<1> HIDE DEF entry1, seen1, M, U, T
<1>6. ASSUME NEW s \in z.students PROVE TrailOf(z, M[s], U[s])
  <2>1. TrailOf(z, mark[s], trail[s])
      BY DEF MarkInv
  <2>2. CASE s \notin some
      BY <1>1, <1>3, <2>1, <2>2
  <2>3. CASE s \in some
    <3> DEFINE to == entry1[s]
               n == IF to = 0 THEN 0 ELSE mark[s].version + 1
    <3>1. /\ M[s] = [value |-> to, version |-> n]
          /\ U[s] = Append(trail[s], [from |-> mark[s].value, to |-> to])
        BY <1>1, <1>3, <1>4, <2>3
    <3>2. to \in Given(z) /\ n \in {0, mark[s].version + 1}
        BY <1>4, <2>3
    <3>3. Len(trail[s]) < z.maxChanges /\ z.maxChanges \in Nat
        BY <1>1, <1>3, <2>3 DEF MarkSize
    <3> HIDE DEF to, n
    <3> QED
        BY <2>1, <3>1, <3>2, <3>3, TrailGrows
  <2> QED
      BY <2>2, <2>3
<1>7. ASSUME NEW q \in z.requests PROVE TeacherHolds(z, M, results, T[q])
  <2>1. CASE T[q] \in {[at |-> "idle"], [at |-> "doomed"]}
      BY <2>1 DEF TeacherHolds
  <2>2. CASE T[q] \notin {[at |-> "idle"], [at |-> "doomed"]}
    <3>1. T[q] = teacher[q] /\ (teacher[q].at = "enter" => Exams(z)!Judged(q) \cap some = {})
        BY <1>1, <1>3, <2>2
    <3>2. CASE teacher[q].at = "enter"
      <4>1. \A s \in DOMAIN teacher[q].entry : teacher[q].seen[s] # 0 => s \in z.students \ some
          BY <1>5, <3>1, <3>2 DEF Exams!Judged, Exams!None
      <4>2. \A s \in z.students \ some : M[s] = mark[s]
          BY <1>1, <1>3
      <4> QED
          BY <1>5, <3>1, <3>2, <4>1, <4>2 DEF TeacherHolds
    <3>3. CASE teacher[q].at # "enter"
      <4>1. TeacherHolds(z, mark, results, teacher[q]) /\ teacher[q] \notin EnterRows(z)
          BY <3>3 DEF MarkInv, EnterRows
      <4> QED
          BY <3>1, <4>1 DEF TeacherHolds
    <3> QED
        BY <3>2, <3>3
  <2> QED
      BY <2>1, <2>2
<1>8. /\ DOMAIN M = z.students /\ M = [s \in z.students |-> M[s]]
      /\ T = [q \in z.requests |-> T[q]]
    BY <1>1
<1>9. Exams(z)!ResultsAreOneSheet'
    BY <1>1 DEF MarkInv, Exams!ResultsAreOneSheet
<1> QED
    BY <1>1, <1>6, <1>7, <1>8, <1>9 DEF MarkInv, M, U, T

\* A computation replaces the results it read, and those who read them know.
LEMMA SheetWritten ==
  ASSUME NEW z, MarkSize(z), MarkInv(z), NEW r \in z.requests, Exams(z)!WriteResults(r)
  PROVE  MarkInv(z)'
<1> DEFINE k == teacher[r]
           left == results \ k.old
           T == teacher'
           R == results'
<1>1. /\ k.at = "compute" /\ R = left \cup k.new /\ sheet' = k.new /\ crossed' = k.overtaken
      /\ T = [q \in z.requests |->
               IF q = r THEN [at |-> "idle"]
               ELSE IF teacher[q].at = "compute"
               THEN [teacher[q] EXCEPT !.overtaken = TRUE, !.old = @ \cap left]
               ELSE teacher[q]]
      /\ UNCHANGED <<mark, trail>>
    BY DEF Exams!WriteResults, Exams!Remaining, Exams!Idle
<1>2. \A q \in z.requests : teacher[q].at = "compute" =>
        teacher[q] \in ComputeRows(z) /\ (~teacher[q].overtaken => teacher[q].old = results)
    BY DEF MarkInv, TeacherHolds, EnterRows
<1>3. k.new \subseteq ResultRows(z) /\ k.overtaken \in BOOLEAN /\ (~k.overtaken => left = {})
    BY <1>1, <1>2 DEF ComputeRows
<1>4. R \subseteq ResultRows(z)
    BY <1>1, <1>3 DEF MarkInv
<1> HIDE DEF left, T, R
<1>5. ASSUME NEW q \in z.requests PROVE TeacherHolds(z, mark, R, T[q])
  <2>1. CASE q = r
      BY <1>1, <2>1 DEF TeacherHolds
  <2>2. CASE q # r /\ teacher[q].at = "compute"
    <3> DEFINE w == teacher[q]
               v == [w EXCEPT !.overtaken = TRUE, !.old = w.old \cap left]
    <3>1. w \in ComputeRows(z) /\ T[q] = v
        BY <1>1, <1>2, <2>2
    <3> HIDE DEF w
    <3>2. v \in ComputeRows(z) /\ v.overtaken = TRUE
        BY <3>1 DEF ComputeRows
    <3> HIDE DEF v
    <3> QED
        BY <3>1, <3>2 DEF TeacherHolds
  <2>3. CASE q # r /\ teacher[q].at # "compute"
      BY <1>1, <2>3 DEF MarkInv, TeacherHolds, ComputeRows
  <2> QED
      BY <2>1, <2>2, <2>3
<1>6. T = [q \in z.requests |-> T[q]]
    BY <1>1
<1>7. Exams(z)!ResultsAreOneSheet'
    BY <1>1, <1>3 DEF Exams!ResultsAreOneSheet, R
<1> QED
    BY <1>1, <1>3, <1>4, <1>5, <1>6, <1>7 DEF MarkInv, T, R

\* An exam keeps its histories and its results.
LEMMA MarkKeeps ==
  ASSUME NEW z, MarkSize(z), MarkInv(z), Exams(z)!Next \/ UNCHANGED markVars
  PROVE  MarkInv(z)'
<1>1. CASE UNCHANGED markVars
    BY <1>1 DEF markVars, MarkInv, Exams!ResultsAreOneSheet
<1>2. ASSUME NEW r \in z.requests, NEW some \in SUBSET z.students, NEW e \in [some -> Given(z)],
             Exams(z)!Begin(r, Exams(z)!Entering(e))
      PROVE  MarkInv(z)'
  <2> DEFINE k == Exams(z)!Entering(e)
  <2>1. TeacherHolds(z, mark, results, k)
      BY EnteringHolds
  <2>2. teacher' = [teacher EXCEPT ![r] = k] /\ UNCHANGED <<mark, trail, results, sheet, crossed>>
      BY <1>2 DEF Exams!Begin
  <2> HIDE DEF k
  <2> QED
      BY <2>1, <2>2, TeacherTurns
<1>3. ASSUME NEW r \in z.requests, NEW s \in z.students,
             Exams(z)!SoftDelete(r, s) \/ \E m \in z.marks : Exams(z)!Upsert(r, s, m)
      PROVE  MarkInv(z)'
  <2>1. PICK m \in Given(z) : Exams(z)!Begin(r, Exams(z)!Entering([t \in {s} |-> m]))
      BY <1>3 DEF Exams!SoftDelete, Exams!Upsert, Exams!None, Given
  <2> DEFINE e == [t \in {s} |-> m]
             some == {s}
  <2>2. some \in SUBSET z.students /\ e \in [some -> Given(z)]
      OBVIOUS
  <2>3. Exams(z)!Begin(r, Exams(z)!Entering(e))
      BY <2>1
  <2> HIDE DEF e, some
  <2> QED
      BY <1>2, <2>2, <2>3
<1>4. ASSUME NEW r \in z.requests, NEW some \in SUBSET z.students, NEW e \in [some -> z.marks],
             Exams(z)!BulkUpsert(r, e)
      PROVE  MarkInv(z)'
  <2>1. e \in [some -> Given(z)]
      BY DEF Given
  <2> QED
      BY <1>2, <1>4, <2>1 DEF Exams!BulkUpsert
<1>5. ASSUME NEW r \in z.requests, Exams(z)!OpenSheet(r) \/ Exams(z)!Rollback(r) PROVE MarkInv(z)'
  <2>1. PICK k : k.at \in {"sheet", "idle"} /\ Exams(z)!Begin(r, k)
      BY <1>5 DEF Exams!OpenSheet, Exams!Rollback, Exams!Idle
  <2>2. TeacherHolds(z, mark, results, k)
      BY <2>1 DEF TeacherHolds
  <2>3. teacher' = [teacher EXCEPT ![r] = k] /\ UNCHANGED <<mark, trail, results, sheet, crossed>>
      BY <2>1 DEF Exams!Begin
  <2> QED
      BY <2>2, <2>3, TeacherTurns
<1>6. ASSUME NEW r \in z.requests, Exams(z)!Compute(r) PROVE MarkInv(z)'
  <2> DEFINE k == [at |-> "compute", old |-> results, overtaken |-> FALSE,
                   new |-> {[student |-> s, value |-> mark[s].value] :
                              s \in {t \in z.students : mark[t].value # 0}}]
  <2>1. TeacherHolds(z, mark, results, k)
      BY ComputingHolds
  <2>2. teacher' = [teacher EXCEPT ![r] = k] /\ UNCHANGED <<mark, trail, results, sheet, crossed>>
      BY <1>6 DEF Exams!Compute, Exams!Begin, Exams!MarkOf, Exams!None
  <2> HIDE DEF k
  <2> QED
      BY <2>1, <2>2, TeacherTurns
<1>7. ASSUME NEW r \in z.requests, Exams(z)!WriteMarks(r) \/ Exams(z)!WriteResults(r)
      PROVE  MarkInv(z)'
    BY <1>7, MarksWritten, SheetWritten
<1>8. ASSUME Exams(z)!Next PROVE MarkInv(z)'
  <2>1. PICK r \in z.requests :
          \/ \E s \in z.students : Exams(z)!SoftDelete(r, s) \/ \E m \in z.marks : Exams(z)!Upsert(r, s, m)
          \/ \E some \in SUBSET z.students \ {{}} : \E e \in [some -> z.marks] : Exams(z)!BulkUpsert(r, e)
          \/ Exams(z)!OpenSheet(r) \/ Exams(z)!WriteMarks(r) \/ Exams(z)!Compute(r)
          \/ Exams(z)!WriteResults(r) \/ Exams(z)!Rollback(r)
      BY <1>8 DEF Exams!Next
  <2> QED
      BY <1>3, <1>4, <1>5, <1>6, <1>7, <2>1
<1> QED
    BY <1>1, <1>8

\* What an exam shows.
LEMMA MarkShows ==
  ASSUME NEW z, MarkSize(z), MarkInv(z)
  PROVE  Exams(z)!TypeOK /\ Exams(z)!EditsAreTraced /\ Exams(z)!ResultsAreOneSheet
<1>1. \A s \in z.students : TrailOf(z, mark[s], trail[s])
    BY DEF MarkInv
<1>2. Exams(z)!EditsAreTraced
    BY <1>1 DEF Exams!EditsAreTraced, Exams!MarkOf, Exams!None, TrailOf, TracedOf
<1>3. ASSUME NEW s \in z.students
      PROVE  /\ mark[s] \in [value : z.marks \cup {0}, version : 0 .. z.maxChanges]
             /\ Len(trail[s]) <= z.maxChanges
             /\ \A i \in 1 .. Len(trail[s]) : trail[s][i] \in MarkEdits(z)
  <2>1. /\ mark[s] \in [value : Given(z), version : Nat] /\ trail[s] \in Seq(MarkEdits(z))
        /\ Len(trail[s]) <= z.maxChanges /\ mark[s].version <= Len(trail[s]) /\ Len(trail[s]) \in Nat
      BY <1>1 DEF TrailOf
  <2>2. mark[s].version \in 0 .. z.maxChanges
      BY <2>1 DEF MarkSize
  <2> QED
      BY <2>1, <2>2 DEF Given
<1>4. /\ mark = [s \in z.students |-> mark[s]]
      /\ \A q \in z.requests : teacher[q].at \in {"idle", "doomed", "sheet", "enter", "compute"}
      /\ results \cup sheet \subseteq ResultRows(z) /\ crossed \in BOOLEAN
    BY DEF MarkInv, TeacherHolds, EnterRows, ComputeRows
<1>5. Exams(z)!TypeOK
    BY <1>3, <1>4 DEF Exams!TypeOK, Exams!None, MarkEdits, Given, ResultRows
<1> QED
    BY <1>2, <1>5 DEF MarkInv

-----------------------------------------------------------------------------
(* Attendance                                                              *)

LogRows(z) ==
  [from : z.statuses \cup {"none"}, to : z.statuses, by : z.corrections \cup {"nobody"}, open : BOOLEAN]

\* A correction that waits asks for a status.
CorrectionRows(z) ==
  {x \in [of : z.students \cup {"nobody"}, to : z.statuses \cup {"none"},
          status : {"none", "PENDING", "APPROVED", "REJECTED"}] :
     x.status = "PENDING" => x.to \in z.statuses}

Approved(z, C, s) == {c \in z.corrections : C[c].of = s /\ C[c].status = "APPROVED"}

\* The history t of a row of status x, which the corrections K have changed.
LogOf(z, x, t, K) ==
  /\ t \in Seq(LogRows(z)) /\ Len(t) <= z.maxTrail
  /\ \A i \in 1 .. Len(t) : t[i].from = IF i = 1 THEN "none" ELSE t[i - 1].to
  /\ x = IF Len(t) = 0 THEN "none" ELSE t[Len(t)].to
  /\ \A i, j \in 1 .. Len(t) : t[i].by # "nobody" /\ t[i].by = t[j].by => i = j
  /\ \A c \in z.corrections : c \in K <=> \E i \in 1 .. Len(t) : t[i].by = c
  /\ \A i \in 1 .. Len(t) : t[i].open \/ t[i].by # "nobody"

\* What a handler knows: a mark of rows that were missing, on a day that was open; or a row
\* that is still as it was read, and the correction that asks for the change.
RegistrarHolds(z, R, C, k) ==
  \/ k.at \in {"idle", "doomed"}
  \/ /\ k.at \in {"mark", "bulk"} /\ k.by = "nobody" /\ k.open = TRUE
     /\ \E some \in SUBSET z.students : k.to \in [some -> z.statuses] /\ k.seen \in [some -> {"none"}]
  \/ /\ k.at \in {"update", "delete", "approve"} /\ k.open \in BOOLEAN
     /\ \E s \in z.students :
          /\ DOMAIN k.to = {s} /\ k.seen[s] = R[s]
          /\ k.at = "update" => k.to[s] \in z.statuses /\ k.by = "nobody" /\ k.open = TRUE
          /\ k.at = "approve" => k.to[s] \in z.statuses /\ k.by \in z.corrections /\ C[k.by].of = s

RollInv(z) ==
  /\ roll = [s \in z.students |-> roll[s]] /\ log = [s \in z.students |-> log[s]]
  /\ \A s \in z.students : LogOf(z, roll[s], log[s], Approved(z, correction, s))
  /\ old \subseteq {s \in z.students : roll[s] # "none"} /\ locks \subseteq z.windows
  /\ correction \in [z.corrections -> CorrectionRows(z)]
  /\ holiday \in BOOLEAN /\ cache \in [z.processes -> {"unknown", "holiday", "workday"}]
  /\ registrar = [q \in z.requests |-> registrar[q]]
  /\ \A q \in z.requests : RegistrarHolds(z, roll, correction, registrar[q])

\* A row without a history was never marked.
LEMMA LogBegins == ASSUME NEW z, RollSize(z) PROVE LogOf(z, "none", <<>>, {})
    BY DEF LogOf, RollSize

\* A day begins without rows.
LEMMA RollBegins == ASSUME NEW z, RollSize(z), Attendances(z)!Init PROVE RollInv(z)
<1> USE DEF Attendances!Init, Attendances!NoStatus, Attendances!Nobody, Attendances!NoCorrection,
    Attendances!Idle
<1>1. ASSUME NEW s \in z.students PROVE LogOf(z, roll[s], log[s], Approved(z, correction, s))
  <2>1. Approved(z, correction, s) = {} /\ roll[s] = "none" /\ log[s] = <<>>
      BY DEF Approved
  <2> QED
      BY <2>1, LogBegins
<1>2. correction \in [z.corrections -> CorrectionRows(z)]
    BY DEF CorrectionRows
<1>3. \A q \in z.requests : RegistrarHolds(z, roll, correction, registrar[q])
    BY DEF RegistrarHolds
<1> QED
    BY <1>1, <1>2, <1>3 DEF RollInv

\* A history grows by what its row was and what it is.
LEMMA LogGrows ==
  ASSUME NEW z, RollSize(z), NEW x, NEW t, NEW K, LogOf(z, x, t, K), Len(t) < z.maxTrail,
         NEW to \in z.statuses, NEW by \in z.corrections \cup {"nobody"}, by \notin K,
         NEW open \in BOOLEAN, open \/ by # "nobody",
         NEW G, \A c \in z.corrections : c \in G <=> c \in K \/ c = by
  PROVE  LogOf(z, to, Append(t, [from |-> x, to |-> to, by |-> by, open |-> open]), G)
<1> DEFINE w == [from |-> x, to |-> to, by |-> by, open |-> open]
           u == Append(t, w)
           n == Len(t)
<1>1. t \in Seq(LogRows(z)) /\ n \in Nat /\ z.maxTrail \in Nat
    BY DEF LogOf, RollSize
<1>2. x \in z.statuses \cup {"none"}
  <2>1. n # 0 => t[n] \in LogRows(z)
      BY <1>1
  <2> QED
      BY <2>1 DEF LogOf, LogRows
<1>3. w \in LogRows(z) /\ w.from = x /\ w.to = to /\ w.by = by /\ w.open = open
    BY <1>2 DEF LogRows
<1> HIDE DEF w
<1>4. /\ u \in Seq(LogRows(z)) /\ Len(u) = n + 1 /\ u[n + 1] = w
      /\ \A i \in 1 .. n : u[i] = t[i]
    BY <1>1, <1>3
<1> HIDE DEF u
<1>5. ASSUME NEW i \in 1 .. Len(u)
      PROVE  /\ u[i].from = IF i = 1 THEN "none" ELSE u[i - 1].to
             /\ u[i].open \/ u[i].by # "nobody"
  <2>1. CASE i = n + 1
    <3>1. n # 0 => u[n] = t[n]
        BY <1>1, <1>4
    <3>2. u[i].from = IF i = 1 THEN "none" ELSE u[i - 1].to
        BY <1>1, <1>3, <1>4, <2>1, <3>1 DEF LogOf
    <3> QED
        BY <1>3, <1>4, <2>1, <3>2
  <2>2. CASE i # n + 1
    <3>1. i \in 1 .. n
        BY <1>1, <1>4, <2>2
    <3>2. /\ t[i].from = IF i = 1 THEN "none" ELSE t[i - 1].to
          /\ t[i].open \/ t[i].by # "nobody"
        BY <3>1 DEF LogOf
    <3>3. i # 1 => i - 1 \in 1 .. n
        BY <1>1, <3>1
    <3>4. u[i] = t[i] /\ (i # 1 => u[i - 1] = t[i - 1])
        BY <1>4, <3>1, <3>3
    <3> QED
        BY <3>2, <3>4
  <2> QED
      BY <2>1, <2>2
<1>6. ASSUME NEW i \in 1 .. n PROVE u[i].by \in z.corrections => u[i].by \in K
    BY <1>4 DEF LogOf
<1>7. ASSUME NEW i \in 1 .. Len(u), NEW j \in 1 .. Len(u), u[i].by # "nobody", u[i].by = u[j].by
      PROVE  i = j
  <2>1. (i \in 1 .. n \/ i = n + 1) /\ (j \in 1 .. n \/ j = n + 1)
      BY <1>1, <1>4
  <2>2. CASE i \in 1 .. n /\ j \in 1 .. n
      BY <1>4, <1>7, <2>2 DEF LogOf
  <2>3. ASSUME NEW p \in 1 .. n PROVE u[p].by # by \/ by = "nobody"
      BY <1>6
  <2> QED
      BY <1>3, <1>4, <1>7, <2>1, <2>2, <2>3
<1>8. ASSUME NEW c \in z.corrections PROVE c \in G <=> \E i \in 1 .. Len(u) : u[i].by = c
  <2>1. c \in K <=> \E i \in 1 .. n : t[i].by = c
      BY DEF LogOf
  <2>2. \A i \in 1 .. n : i \in 1 .. Len(u) /\ u[i].by = t[i].by
      BY <1>1, <1>4
  <2>3. n + 1 \in 1 .. Len(u) /\ u[n + 1].by = by /\ \A i \in 1 .. Len(u) : i \in 1 .. n \/ i = n + 1
      BY <1>1, <1>3, <1>4
  <2> QED
      BY <2>1, <2>2, <2>3
<1>9. Len(u) <= z.maxTrail /\ Len(u) # 0 /\ u[Len(u)].to = to
    BY <1>1, <1>3, <1>4
<1> QED
    BY <1>4, <1>5, <1>7, <1>8, <1>9 DEF LogOf, u, w

\* A handler knows what it knew, if its row and its correction are as they were.
LEMMA RegistrarStays ==
  ASSUME NEW z, NEW R, NEW C, NEW k, RegistrarHolds(z, R, C, k), NEW S, NEW D,
         k.at \in {"update", "delete", "approve"} =>
           \A s \in z.students : s \in DOMAIN k.to =>
             /\ S[s] = R[s]
             /\ \A c \in z.corrections : C[c].of = s => D[c].of = s
  PROVE  RegistrarHolds(z, S, D, k)
<1>1. CASE k.at \notin {"update", "delete", "approve"}
    BY <1>1 DEF RegistrarHolds
<1>2. CASE k.at \in {"update", "delete", "approve"}
  <2>1. PICK s \in z.students :
          /\ k.open \in BOOLEAN /\ DOMAIN k.to = {s} /\ k.seen[s] = R[s]
          /\ k.at = "update" => k.to[s] \in z.statuses /\ k.by = "nobody" /\ k.open = TRUE
          /\ k.at = "approve" => k.to[s] \in z.statuses /\ k.by \in z.corrections /\ C[k.by].of = s
      BY <1>2 DEF RegistrarHolds
  <2>2. S[s] = R[s] /\ \A c \in z.corrections : C[c].of = s => D[c].of = s
      BY <1>2, <2>1
  <2> QED
      BY <1>2, <2>1, <2>2 DEF RegistrarHolds
<1> QED
    BY <1>1, <1>2

\* A handler takes its next step, and the rows stay.
LEMMA RegistrarTurns ==
  ASSUME NEW z, RollSize(z), RollInv(z), NEW r \in z.requests, NEW k,
         RegistrarHolds(z, roll, correction, k), Attendances(z)!Begin(r, k),
         cache' \in [z.processes -> {"unknown", "holiday", "workday"}]
  PROVE  RollInv(z)'
<1> DEFINE T == registrar'
<1>1. /\ T = [q \in z.requests |-> IF q = r THEN k ELSE registrar[q]]
      /\ UNCHANGED <<roll, log, old, locks, correction, holiday>>
    BY DEF RollInv, Attendances!Begin
<1>2. /\ T = [q \in z.requests |-> T[q]]
      /\ \A q \in z.requests : RegistrarHolds(z, roll, correction, T[q])
    BY <1>1 DEF RollInv
<1> HIDE DEF T
<1> QED
    BY <1>1, <1>2 DEF RollInv, T

\* A map that is filled is a map.
LEMMA CacheFilled ==
  ASSUME NEW z, RollInv(z), NEW p \in z.processes, Attendances(z)!FillCache(p) \/ UNCHANGED cache
  PROVE  cache' \in [z.processes -> {"unknown", "holiday", "workday"}]
    BY DEF RollInv, Attendances!FillCache

\* The rows that a handler writes get their history with them.
LEMMA DayWritten ==
  ASSUME NEW z, RollSize(z), RollInv(z), NEW r \in z.requests,
         NEW written \in SUBSET z.students, NEW logged \in SUBSET written,
         Attendances(z)!Write(r, written, logged), UNCHANGED old,
         registrar[r].by \in z.corrections \cup {"nobody"}, registrar[r].open \in BOOLEAN,
         \A s \in written : registrar[r].to[s] \in z.statuses,
         \A s \in written \ logged : registrar[r].to[s] = roll[s],
         \A s \in logged : registrar[r].seen[s] = roll[s],
         registrar[r].by = "nobody" => registrar[r].open = TRUE /\ UNCHANGED correction,
         registrar[r].by # "nobody" =>
           /\ logged = {correction[registrar[r].by].of} /\ correction[registrar[r].by].status = "PENDING"
           /\ correction' = [correction EXCEPT ![registrar[r].by].status = "APPROVED"]
  PROVE  RollInv(z)'
<1> DEFINE k == registrar[r]
           c == k.by
           R == roll'
           L == log'
           C == correction'
           T == registrar'
<1>1. /\ \A s \in logged : Len(log[s]) < z.maxTrail
      /\ R = [s \in z.students |-> IF s \in written THEN k.to[s] ELSE roll[s]]
      /\ L = [s \in z.students |->
               IF s \in logged
               THEN Append(log[s], [from |-> k.seen[s], to |-> k.to[s], by |-> k.by, open |-> k.open])
               ELSE log[s]]
      /\ T = [q \in z.requests |-> IF q = r THEN [at |-> "idle"]
                                   ELSE IF Attendances(z)!Overtaken(q, written) THEN [at |-> "doomed"]
                                   ELSE registrar[q]]
      /\ UNCHANGED <<locks, holiday, cache, old>>
    BY DEF Attendances!Write, Attendances!HistoryRow, Attendances!Idle, Attendances!Doomed
<1>2. correction \in [z.corrections -> CorrectionRows(z)] /\ c \in z.corrections \cup {"nobody"}
    BY DEF RollInv
<1>3. C \in [z.corrections -> CorrectionRows(z)] /\ \A d \in z.corrections : C[d].of = correction[d].of
  <2>1. CASE c = "nobody"
      BY <1>2, <2>1
  <2>2. CASE c # "nobody"
    <3> DEFINE x == correction[c]
    <3>1. c \in z.corrections /\ x \in CorrectionRows(z)
          /\ C = [correction EXCEPT ![c] = [x EXCEPT !.status = "APPROVED"]]
        BY <1>2, <2>2
    <3> HIDE DEF x
    <3>2. [x EXCEPT !.status = "APPROVED"] \in CorrectionRows(z)
          /\ [x EXCEPT !.status = "APPROVED"].of = x.of
        BY <3>1 DEF CorrectionRows
    <3> QED
        BY <1>2, <3>1, <3>2 DEF x
  <2> QED
      BY <2>1, <2>2
<1>4. ASSUME NEW s \in z.students \ logged PROVE Approved(z, C, s) = Approved(z, correction, s)
  <2>1. CASE c = "nobody"
      BY <2>1
  <2>2. CASE c # "nobody"
    <3>1. c \in z.corrections /\ C[c].of # s /\ correction[c].of # s
          /\ \A d \in z.corrections \ {c} : C[d] = correction[d]
        BY <1>2, <1>3, <2>2
    <3> QED
        BY <3>1 DEF Approved
  <2> QED
      BY <2>1, <2>2
<1>5. ASSUME NEW s \in logged
      PROVE  /\ c \notin Approved(z, correction, s)
             /\ \A d \in z.corrections : d \in Approved(z, C, s)
                      <=> d \in Approved(z, correction, s) \/ d = c
  <2>1. CASE c = "nobody"
      BY <2>1 DEF Approved, RollSize
  <2>2. CASE c # "nobody"
    <3>1. /\ c \in z.corrections /\ C[c].of = s /\ C[c].status = "APPROVED"
          /\ correction[c].status = "PENDING"
          /\ \A d \in z.corrections \ {c} : C[d] = correction[d]
        BY <1>2, <1>3, <2>2 DEF CorrectionRows
    <3> QED
        BY <3>1 DEF Approved
  <2> QED
      BY <2>1, <2>2
<1> HIDE DEF R, L, C, T, k
<1>6. ASSUME NEW s \in z.students PROVE LogOf(z, R[s], L[s], Approved(z, C, s))
  <2>1. LogOf(z, roll[s], log[s], Approved(z, correction, s))
      BY DEF RollInv
  <2>2. CASE s \in logged
    <3> DEFINE K == Approved(z, correction, s)
               G == Approved(z, C, s)
               to == k.to[s]
               open == k.open
               x == roll[s]
               t == log[s]
    <3>1. /\ R[s] = k.to[s] /\ k.to[s] \in z.statuses /\ k.open \in BOOLEAN
          /\ k.open \/ c # "nobody"
          /\ L[s] = Append(log[s], [from |-> roll[s], to |-> k.to[s], by |-> c, open |-> k.open])
          /\ Len(log[s]) < z.maxTrail
        BY <1>1, <2>2 DEF k
    <3>2. /\ c \notin K /\ \A d \in z.corrections : d \in G <=> d \in K \/ d = c
          /\ LogOf(z, x, t, K)
        BY <1>5, <2>1, <2>2
    <3>3. /\ to \in z.statuses /\ open \in BOOLEAN /\ (open \/ c # "nobody") /\ Len(t) < z.maxTrail
          /\ c \in z.corrections \cup {"nobody"}
        BY <1>2, <3>1
    <3>4. R[s] = to /\ L[s] = Append(t, [from |-> x, to |-> to, by |-> c, open |-> open])
        BY <3>1
    <3> HIDE DEF K, G, to, open, x, t, c
    <3>5. LogOf(z, to, Append(t, [from |-> x, to |-> to, by |-> c, open |-> open]), G)
        BY <3>2, <3>3, LogGrows
    <3> QED
        BY <3>4, <3>5 DEF G
  <2>3. CASE s \notin logged
    <3>1. R[s] = roll[s] /\ L[s] = log[s]
        BY <1>1, <2>3 DEF k
    <3> QED
        BY <1>4, <2>1, <2>3, <3>1
  <2> QED
      BY <2>2, <2>3
<1>7. ASSUME NEW q \in z.requests PROVE RegistrarHolds(z, R, C, T[q])
  <2>1. CASE q = r \/ Attendances(z)!Overtaken(q, written)
      BY <1>1, <2>1 DEF RegistrarHolds
  <2>2. CASE q # r /\ ~Attendances(z)!Overtaken(q, written)
    <3>1. T[q] = registrar[q] /\ RegistrarHolds(z, roll, correction, registrar[q])
        BY <1>1, <2>2 DEF RollInv
    <3>2. registrar[q].at \in {"update", "delete", "approve"} =>
            \A s \in z.students : s \in DOMAIN registrar[q].to =>
              /\ R[s] = roll[s]
              /\ \A d \in z.corrections : correction[d].of = s => C[d].of = s
        BY <1>1, <1>3, <2>2 DEF Attendances!Overtaken
    <3> QED
        BY <3>1, <3>2, RegistrarStays
  <2> QED
      BY <2>1, <2>2
<1>8. old \subseteq {s \in z.students : R[s] # "none"}
  <2>1. ASSUME NEW s \in old PROVE s \in z.students /\ R[s] # "none"
    <3>1. s \in z.students /\ roll[s] # "none"
        BY DEF RollInv
    <3>2. R[s] = IF s \in written THEN k.to[s] ELSE roll[s]
        BY <1>1, <3>1
    <3>3. s \in written => k.to[s] \in z.statuses
        BY DEF k
    <3> QED
        BY <3>1, <3>2, <3>3 DEF RollSize
  <2> QED
      BY <2>1
<1>9. /\ R = [s \in z.students |-> R[s]] /\ L = [s \in z.students |-> L[s]]
      /\ T = [q \in z.requests |-> T[q]]
    BY <1>1
<1> QED
    BY <1>1, <1>3, <1>6, <1>7, <1>8, <1>9 DEF RollInv, R, L, C, T

\* A handler that begins to write knows what it reads.
LEMMA WritingHolds ==
  ASSUME NEW z, RollSize(z), RollInv(z), NEW op, NEW some \in SUBSET z.students, NEW to, NEW c,
         DOMAIN to = some,
         \/ /\ op \in {"mark", "bulk"} /\ c = "nobody" /\ locks = {} /\ to \in [some -> z.statuses]
            /\ \A s \in some : roll[s] = "none"
         \/ /\ op \in {"update", "delete", "approve"}
            /\ \E s \in z.students :
                 /\ some = {s}
                 /\ op = "update" => /\ to[s] \in z.statuses /\ c = "nobody" /\ locks = {}
                                     /\ s \notin old
                 /\ op = "approve" => /\ to[s] \in z.statuses /\ c \in z.corrections
                                      /\ correction[c].of = s
  PROVE  RegistrarHolds(z, roll, correction, Attendances(z)!Writing(op, to, c))
<1> DEFINE k == [at |-> op, to |-> to, seen |-> [s \in some |-> roll[s]], by |-> c,
                 open |-> locks = {} /\ some \cap old = {}, festive |-> holiday]
<1>1. Attendances(z)!Writing(op, to, c) = k
    BY DEF Attendances!Writing
<1>2. /\ k.at = op /\ k.to = to /\ k.by = c /\ k.seen = [s \in some |-> roll[s]]
      /\ k.open = (locks = {} /\ some \cap old = {}) /\ k.open \in BOOLEAN
    OBVIOUS
<1> HIDE DEF k
<1>3. CASE op \in {"mark", "bulk"}
  <2>1. /\ c = "nobody" /\ locks = {} /\ to \in [some -> z.statuses]
        /\ \A s \in some : roll[s] = "none"
      BY <1>3
  <2>2. some \cap old = {}
      BY <2>1 DEF RollInv
  <2>4. k.open = TRUE
      BY <1>2, <2>1, <2>2
  <2>5. [s \in some |-> roll[s]] \in [some -> {"none"}]
      BY <2>1
  <2>3. k.open = TRUE /\ k.seen \in [some -> {"none"}]
      BY <1>2, <2>4, <2>5
  <2> QED
      BY <1>1, <1>2, <1>3, <2>1, <2>3 DEF RegistrarHolds
<1>4. CASE op \notin {"mark", "bulk"}
  <2>1. /\ op \in {"update", "delete", "approve"}
        /\ \E s \in z.students :
             /\ some = {s}
             /\ op = "update" => to[s] \in z.statuses /\ c = "nobody" /\ locks = {} /\ s \notin old
             /\ op = "approve" => to[s] \in z.statuses /\ c \in z.corrections /\ correction[c].of = s
      BY <1>4
  <2>2. PICK s \in z.students :
          /\ some = {s}
          /\ op = "update" => to[s] \in z.statuses /\ c = "nobody" /\ locks = {} /\ s \notin old
          /\ op = "approve" => to[s] \in z.statuses /\ c \in z.corrections /\ correction[c].of = s
      BY <2>1
  <2>3. DOMAIN k.to = {s} /\ k.seen[s] = roll[s] /\ (op = "update" => k.open = TRUE)
      BY <1>2, <2>2
  <2> QED
      BY <1>1, <1>2, <2>1, <2>2, <2>3 DEF RegistrarHolds
<1> QED
    BY <1>3, <1>4

\* Handlers that check what they are asked, or give up.
LEMMA RollChecked ==
  ASSUME NEW z, RollSize(z), RollInv(z), NEW r \in z.requests,
         \/ \E s \in z.students :
              \/ \E p \in z.processes, x \in z.statuses :
                   Attendances(z)!Mark(r, p, s, x) \/ Attendances(z)!Update(r, p, s, x)
              \/ Attendances(z)!SoftDelete(r, s)
         \/ \E p \in z.processes, some \in SUBSET z.students \ {{}} :
              \E entries \in [some -> z.statuses] : Attendances(z)!BulkMark(r, p, entries)
         \/ \E c \in z.corrections : Attendances(z)!Approve(r, c)
         \/ Attendances(z)!Rollback(r)
  PROVE  RollInv(z)'
<1> USE DEF Attendances!NotLocked, Attendances!Live, Attendances!NoStatus, Attendances!Nobody
<1>0. /\ RegistrarHolds(z, roll, correction, Attendances(z)!Idle)
      /\ cache \in [z.processes -> {"unknown", "holiday", "workday"}]
    BY DEF RegistrarHolds, Attendances!Idle, RollInv
<1>1. ASSUME NEW s \in z.students, NEW p \in z.processes, NEW x \in z.statuses,
             Attendances(z)!Mark(r, p, s, x) \/ Attendances(z)!Update(r, p, s, x)
      PROVE  RollInv(z)'
  <2> DEFINE to == [t \in {s} |-> x]
  <2>1. PICK op \in {"mark", "update"} :
          /\ locks = {} /\ (op = "mark" => Attendances(z)!FillCache(p))
          /\ op = "update" => s \notin old /\ (Attendances(z)!FillCache(p) \/ UNCHANGED cache)
          /\ \/ Attendances(z)!Begin(r, Attendances(z)!Idle)
             \/ /\ Attendances(z)!Begin(r, Attendances(z)!Writing(op, to, "nobody"))
                /\ op = "mark" => roll[s] = "none"
    <3>1. CASE Attendances(z)!Mark(r, p, s, x)
      <4>1. /\ locks = {} /\ Attendances(z)!FillCache(p)
            /\ \/ Attendances(z)!Begin(r, Attendances(z)!Idle)
               \/ /\ Attendances(z)!Begin(r, Attendances(z)!Writing("mark", to, "nobody"))
                  /\ roll[s] = "none"
          BY <3>1 DEF Attendances!Mark
      <4> QED
          BY <4>1
    <3>2. CASE Attendances(z)!Update(r, p, s, x)
      <4>1. /\ locks = {} /\ s \notin old /\ (Attendances(z)!FillCache(p) \/ UNCHANGED cache)
            /\ \/ Attendances(z)!Begin(r, Attendances(z)!Idle)
               \/ Attendances(z)!Begin(r, Attendances(z)!Writing("update", to, "nobody"))
          BY <3>2 DEF Attendances!Update
      <4> QED
          BY <4>1
    <3> QED
        BY <1>1, <3>1, <3>2
  <2>2. cache' \in [z.processes -> {"unknown", "holiday", "workday"}]
      BY <2>1, CacheFilled
  <2>3. CASE Attendances(z)!Begin(r, Attendances(z)!Idle)
      BY <1>0, <2>2, <2>3, RegistrarTurns
  <2>4. CASE /\ Attendances(z)!Begin(r, Attendances(z)!Writing(op, to, "nobody"))
             /\ op = "mark" => roll[s] = "none"
    <3>1. DOMAIN to = {s} /\ to[s] \in z.statuses /\ to \in [{s} -> z.statuses] /\ {s} \in SUBSET z.students
        OBVIOUS
    <3> HIDE DEF to
    <3>2. CASE op = "mark"
      <4>1. \A t \in {s} : roll[t] = "none"
          BY <2>4, <3>2
      <4>2. RegistrarHolds(z, roll, correction, Attendances(z)!Writing(op, to, "nobody"))
          BY <2>1, <3>1, <3>2, <4>1, WritingHolds
      <4> QED
          BY <2>2, <2>4, <4>2, RegistrarTurns
    <3>3. CASE op = "update"
      <4>1. RegistrarHolds(z, roll, correction, Attendances(z)!Writing(op, to, "nobody"))
          BY <2>1, <3>1, <3>3, WritingHolds
      <4> QED
          BY <2>2, <2>4, <4>1, RegistrarTurns
    <3> QED
        BY <3>2, <3>3
  <2> QED
      BY <2>1, <2>3, <2>4
<1>2. ASSUME NEW s \in z.students, Attendances(z)!SoftDelete(r, s) PROVE RollInv(z)'
  <2> DEFINE to == [t \in {s} |-> "none"]
  <2>1. Attendances(z)!Begin(r, Attendances(z)!Writing("delete", to, "nobody")) /\ UNCHANGED cache
      BY <1>2 DEF Attendances!SoftDelete
  <2>2. DOMAIN to = {s} /\ {s} \in SUBSET z.students
      OBVIOUS
  <2> HIDE DEF to
  <2>3. RegistrarHolds(z, roll, correction, Attendances(z)!Writing("delete", to, "nobody"))
      BY <2>2, WritingHolds
  <2> QED
      BY <1>0, <2>1, <2>3, RegistrarTurns
<1>3. ASSUME NEW p \in z.processes, NEW some \in SUBSET z.students, NEW entries \in [some -> z.statuses],
             Attendances(z)!BulkMark(r, p, entries)
      PROVE  RollInv(z)'
  <2> DEFINE missing == {t \in some : roll[t] = "none"}
             to == [s \in missing |-> IF Attendances(z)!TakenForHoliday(p) THEN "HOLIDAY" ELSE entries[s]]
  <2>1. /\ locks = {} /\ Attendances(z)!FillCache(p)
        /\ Attendances(z)!Begin(r, Attendances(z)!Writing("bulk", to, "nobody"))
      BY <1>3 DEF Attendances!BulkMark
  <2>2. /\ DOMAIN to = missing /\ missing \in SUBSET z.students /\ to \in [missing -> z.statuses]
        /\ \A s \in missing : roll[s] = "none"
      BY DEF RollSize
  <2> HIDE DEF to, missing
  <2>3. RegistrarHolds(z, roll, correction, Attendances(z)!Writing("bulk", to, "nobody"))
      BY <2>1, <2>2, WritingHolds
  <2>4. cache' \in [z.processes -> {"unknown", "holiday", "workday"}]
      BY <2>1, CacheFilled
  <2> QED
      BY <2>1, <2>3, <2>4, RegistrarTurns
<1>4. ASSUME NEW c \in z.corrections, Attendances(z)!Approve(r, c) PROVE RollInv(z)'
  <2> DEFINE s == correction[c].of
             to == [t \in {s} |-> correction[c].to]
  <2>1. /\ correction[c].status = "PENDING" /\ s # "nobody" /\ UNCHANGED cache
        /\ Attendances(z)!Begin(r, Attendances(z)!Writing("approve", to, c))
      BY <1>4 DEF Attendances!Approve
  <2>2. correction[c] \in CorrectionRows(z)
      BY DEF RollInv
  <2>3. s \in z.students /\ to[s] \in z.statuses /\ DOMAIN to = {s} /\ {s} \in SUBSET z.students
      BY <2>1, <2>2 DEF CorrectionRows
  <2>4. correction[c].of = s
      OBVIOUS
  <2> HIDE DEF to, s
  <2>5. RegistrarHolds(z, roll, correction, Attendances(z)!Writing("approve", to, c))
      BY <2>3, <2>4, WritingHolds
  <2> QED
      BY <1>0, <2>1, <2>5, RegistrarTurns
<1>5. ASSUME Attendances(z)!Rollback(r) PROVE RollInv(z)'
    BY <1>0, <1>5, RegistrarTurns DEF Attendances!Rollback
<1> QED
    BY <1>1, <1>2, <1>3, <1>4, <1>5

\* Handlers that write marks, edits and approvals.
LEMMA RollMarked ==
  ASSUME NEW z, RollSize(z), RollInv(z), NEW r \in z.requests,
         Attendances(z)!WriteMark(r) \/ Attendances(z)!WriteUpdate(r) \/ Attendances(z)!WriteApproval(r)
  PROVE  RollInv(z)'
<1> DEFINE k == registrar[r]
<1>0. RegistrarHolds(z, roll, correction, k)
    BY DEF RollInv
<1>1. ASSUME Attendances(z)!WriteMark(r) PROVE RollInv(z)'
  <2> DEFINE free == {s \in DOMAIN k.to : roll[s] = "none"}
  <2>1. /\ k.at \in {"mark", "bulk"} /\ Attendances(z)!Write(r, free, free)
        /\ UNCHANGED <<old, correction>>
      BY <1>1 DEF Attendances!WriteMark, Attendances!Live, Attendances!NoStatus
  <2>2. PICK some \in SUBSET z.students :
          /\ k.to \in [some -> z.statuses] /\ k.seen \in [some -> {"none"}]
          /\ k.by = "nobody" /\ k.open = TRUE
      BY <1>0, <2>1 DEF RegistrarHolds
  <2>3. /\ free \in SUBSET z.students /\ \A s \in free : k.to[s] \in z.statuses
        /\ \A s \in free : k.seen[s] = roll[s]
      BY <2>2
  <2> HIDE DEF free
  <2> QED
      BY <2>1, <2>2, <2>3, DayWritten
<1>2. ASSUME k.at \in {"update", "approve"}
      PROVE  /\ (CHOOSE t \in DOMAIN k.to : TRUE) \in z.students
             /\ \A s : s = (CHOOSE t \in DOMAIN k.to : TRUE) =>
                  /\ k.to[s] \in z.statuses /\ k.seen[s] = roll[s] /\ k.open \in BOOLEAN
                  /\ k.at = "update" => k.by = "nobody" /\ k.open = TRUE
                  /\ k.at = "approve" => k.by \in z.corrections /\ correction[k.by].of = s
  <2>1. PICK s \in z.students :
          /\ DOMAIN k.to = {s} /\ k.seen[s] = roll[s] /\ k.open \in BOOLEAN
          /\ k.at = "update" => k.to[s] \in z.statuses /\ k.by = "nobody" /\ k.open = TRUE
          /\ k.at = "approve" => k.to[s] \in z.statuses /\ k.by \in z.corrections /\ correction[k.by].of = s
      BY <1>0, <1>2 DEF RegistrarHolds
  <2>2. (CHOOSE t \in DOMAIN k.to : TRUE) = s
      BY <2>1
  <2> QED
      BY <1>2, <2>1, <2>2
<1>3. ASSUME Attendances(z)!WriteUpdate(r) PROVE RollInv(z)'
  <2> DEFINE s == CHOOSE t \in DOMAIN k.to : TRUE
             logged == IF k.to[s] = k.seen[s] THEN {} ELSE {s}
  <2>1. k.at = "update" /\ Attendances(z)!Write(r, {s}, logged) /\ UNCHANGED <<old, correction>>
      BY <1>3 DEF Attendances!WriteUpdate
  <2>2. /\ s \in z.students /\ k.to[s] \in z.statuses /\ k.seen[s] = roll[s]
        /\ k.by = "nobody" /\ k.open = TRUE
      BY <1>2, <2>1
  <2>3. logged \in SUBSET {s} /\ (s \notin logged => k.to[s] = roll[s])
      BY <2>2
  <2> HIDE DEF s, logged
  <2>4. /\ {s} \in SUBSET z.students /\ \A t \in {s} : k.to[t] \in z.statuses
        /\ \A t \in {s} \ logged : k.to[t] = roll[t]
        /\ \A t \in logged : k.seen[t] = roll[t]
      BY <2>2, <2>3
  <2>5. /\ k.by \in z.corrections \cup {"nobody"} /\ k.open \in BOOLEAN
        /\ k.by = "nobody" => k.open = TRUE /\ UNCHANGED correction
      BY <2>1, <2>2
  <2> QED
      BY <2>1, <2>2, <2>3, <2>4, <2>5, DayWritten
<1>4. ASSUME Attendances(z)!WriteApproval(r) PROVE RollInv(z)'
  <2> DEFINE s == CHOOSE t \in DOMAIN k.to : TRUE
  <2>1. /\ k.at = "approve" /\ Attendances(z)!Write(r, {s}, {s}) /\ UNCHANGED old
        /\ correction[k.by].status = "PENDING"
        /\ correction' = [correction EXCEPT ![k.by].status = "APPROVED"]
      BY <1>4 DEF Attendances!WriteApproval
  <2>2. /\ s \in z.students /\ k.to[s] \in z.statuses /\ k.seen[s] = roll[s] /\ k.open \in BOOLEAN
        /\ k.by \in z.corrections /\ correction[k.by].of = s
      BY <1>2, <2>1
  <2> HIDE DEF s
  <2>3. /\ {s} \in SUBSET z.students /\ {s} \in SUBSET {s} /\ \A t \in {s} : k.to[t] \in z.statuses
        /\ \A t \in {s} \ {s} : k.to[t] = roll[t]
        /\ \A t \in {s} : k.seen[t] = roll[t]
        /\ {s} = {correction[k.by].of} /\ k.by # "nobody"
      BY <2>2 DEF RollSize
  <2> QED
      BY <2>1, <2>2, <2>3, DayWritten
<1> QED
    BY <1>1, <1>3, <1>4

\* A row that is deleted takes its history with it, and nobody keeps what they read of it.
LEMMA RollDeleted ==
  ASSUME NEW z, RollSize(z), RollInv(z), NEW r \in z.requests, Attendances(z)!WriteDeletion(r)
  PROVE  RollInv(z)'
<1> DEFINE k == registrar[r]
           gone == CHOOSE t \in DOMAIN k.to : TRUE
           R == roll'
           L == log'
           C == correction'
           T == registrar'
<1>1. /\ k.at = "delete" /\ RegistrarHolds(z, roll, correction, k)
      /\ R = [roll EXCEPT ![gone] = "none"] /\ L = [log EXCEPT ![gone] = <<>>]
      /\ C = [c \in z.corrections |->
               IF correction[c].of = gone THEN [correction[c] EXCEPT !.of = "nobody"] ELSE correction[c]]
      /\ T = [q \in z.requests |->
               IF q = r THEN [at |-> "idle"]
               ELSE IF Attendances(z)!Overtaken(q, {gone}) THEN [at |-> "doomed"]
               ELSE registrar[q]]
      /\ old' = old \ {gone} /\ UNCHANGED <<locks, holiday, cache>>
    BY DEF RollInv, Attendances!WriteDeletion, Attendances!NoStatus, Attendances!Nobody,
       Attendances!Idle, Attendances!Doomed
<1>2. gone \in z.students
  <2>1. PICK s \in z.students : DOMAIN k.to = {s}
      BY <1>1 DEF RegistrarHolds
  <2> QED
      BY <2>1
<1> HIDE DEF gone, R, L, C, T
<1>3. /\ R = [s \in z.students |-> R[s]] /\ L = [s \in z.students |-> L[s]]
      /\ R[gone] = "none" /\ L[gone] = <<>>
      /\ \A s \in z.students \ {gone} : R[s] = roll[s] /\ L[s] = log[s]
      /\ T = [q \in z.requests |-> T[q]]
  <2>1. roll = [s \in z.students |-> roll[s]] /\ log = [s \in z.students |-> log[s]]
      BY DEF RollInv
  <2> QED
      BY <1>1, <1>2, <2>1
<1>4. ASSUME NEW c \in z.corrections
      PROVE  /\ C[c] \in CorrectionRows(z) /\ C[c].of # gone /\ C[c].status = correction[c].status
             /\ correction[c].of # gone => C[c].of = correction[c].of
             /\ correction[c].of = gone => C[c].of = "nobody"
  <2> DEFINE x == correction[c]
  <2>1. x \in CorrectionRows(z)
      BY DEF RollInv
  <2>2. C[c] = IF x.of = gone THEN [x EXCEPT !.of = "nobody"] ELSE x
      BY <1>1
  <2> HIDE DEF x
  <2>3. /\ [x EXCEPT !.of = "nobody"] \in CorrectionRows(z) /\ [x EXCEPT !.of = "nobody"].of = "nobody"
        /\ [x EXCEPT !.of = "nobody"].status = x.status
      BY <2>1 DEF CorrectionRows
  <2> QED
      BY <1>2, <2>1, <2>2, <2>3 DEF x, RollSize
<1>5. C \in [z.corrections -> CorrectionRows(z)]
    BY <1>1, <1>4
<1>6. ASSUME NEW s \in z.students PROVE LogOf(z, R[s], L[s], Approved(z, C, s))
  <2>1. CASE s = gone
    <3>1. Approved(z, C, s) = {}
        BY <1>4, <2>1 DEF Approved
    <3> QED
        BY <1>3, <2>1, <3>1, LogBegins
  <2>2. CASE s # gone
    <3>1. s # "nobody"
        BY DEF RollSize
    <3>2. Approved(z, C, s) = Approved(z, correction, s)
        BY <1>4, <2>2, <3>1 DEF Approved
    <3> QED
        BY <1>3, <2>2, <3>2 DEF RollInv
  <2> QED
      BY <2>1, <2>2
<1>7. ASSUME NEW q \in z.requests PROVE RegistrarHolds(z, R, C, T[q])
  <2>1. CASE q = r \/ Attendances(z)!Overtaken(q, {gone})
      BY <1>1, <2>1 DEF RegistrarHolds
  <2>2. CASE q # r /\ ~Attendances(z)!Overtaken(q, {gone})
    <3>1. T[q] = registrar[q] /\ RegistrarHolds(z, roll, correction, registrar[q])
        BY <1>1, <2>2 DEF RollInv
    <3>2. registrar[q].at \in {"update", "delete", "approve"} =>
            \A s \in z.students : s \in DOMAIN registrar[q].to => s # gone
        BY <2>2 DEF Attendances!Overtaken
    <3>3. registrar[q].at \in {"update", "delete", "approve"} =>
            \A s \in z.students : s \in DOMAIN registrar[q].to =>
              /\ R[s] = roll[s]
              /\ \A d \in z.corrections : correction[d].of = s => C[d].of = s
        BY <1>3, <1>4, <3>2
    <3> QED
        BY <3>1, <3>3, RegistrarStays
  <2> QED
      BY <2>1, <2>2
<1>8. old' \subseteq {s \in z.students : R[s] # "none"}
    BY <1>1, <1>3 DEF RollInv
<1> QED
    BY <1>1, <1>3, <1>5, <1>6, <1>7, <1>8 DEF RollInv, R, L, C, T

\* A correction is asked for or refused, and none is approved or taken away.
LEMMA CorrectionMoves ==
  ASSUME NEW z, RollSize(z), RollInv(z), NEW c \in z.corrections, NEW x \in CorrectionRows(z),
         correction' = [correction EXCEPT ![c] = x],
         UNCHANGED <<roll, log, old, locks, holiday, cache, registrar>>,
         x.status # "APPROVED", correction[c].status # "APPROVED",
         correction[c].of # "nobody" => x.of = correction[c].of
  PROVE  RollInv(z)'
<1> DEFINE C == correction'
<1>1. correction \in [z.corrections -> CorrectionRows(z)]
    BY DEF RollInv
<1>2. /\ C \in [z.corrections -> CorrectionRows(z)] /\ C[c] = x
      /\ \A d \in z.corrections \ {c} : C[d] = correction[d]
    BY <1>1
<1> HIDE DEF C
<1>3. ASSUME NEW s \in z.students PROVE Approved(z, C, s) = Approved(z, correction, s)
    BY <1>2 DEF Approved
<1>4. ASSUME NEW q \in z.requests PROVE RegistrarHolds(z, roll, C, registrar[q])
  <2>1. \A s \in z.students : \A d \in z.corrections : correction[d].of = s => C[d].of = s
      BY <1>2 DEF RollSize
  <2>2. RegistrarHolds(z, roll, correction, registrar[q])
      BY DEF RollInv
  <2> QED
      BY <2>1, <2>2, RegistrarStays
<1>5. \A s \in z.students : LogOf(z, roll[s], log[s], Approved(z, C, s))
    BY <1>3 DEF RollInv
<1> QED
    BY <1>2, <1>4, <1>5 DEF RollInv, C

\* A day keeps its rows and their histories.
LEMMA RollKeeps ==
  ASSUME NEW z, RollSize(z), RollInv(z), Attendances(z)!Next \/ UNCHANGED rollVars
  PROVE  RollInv(z)'
<1>1. CASE UNCHANGED rollVars
    BY <1>1 DEF rollVars, RollInv
<1>2. ASSUME NEW c \in z.corrections, Attendances(z)!Reject(c) PROVE RollInv(z)'
  <2> DEFINE was == correction[c]
             x == [was EXCEPT !.status = "REJECTED"]
  <2>1. /\ was \in CorrectionRows(z) /\ was.status = "PENDING" /\ correction' = [correction EXCEPT ![c] = x]
        /\ UNCHANGED <<roll, log, old, locks, holiday, cache, registrar>>
      BY <1>2 DEF RollInv, Attendances!Reject
  <2>2. x \in CorrectionRows(z) /\ x.of = was.of /\ x.status = "REJECTED"
    <3> HIDE DEF was
    <3> QED
        BY <2>1 DEF CorrectionRows
  <2> HIDE DEF x
  <2> QED
      BY <2>1, <2>2, CorrectionMoves
<1>3. ASSUME NEW c \in z.corrections, NEW s \in z.students, NEW y \in z.statuses,
             Attendances(z)!RequestCorrection(c, s, y)
      PROVE  RollInv(z)'
  <2> DEFINE x == [of |-> s, to |-> y, status |-> "PENDING"]
  <2>1. /\ correction[c].of = "nobody" /\ correction[c].status = "none"
        /\ correction' = [correction EXCEPT ![c] = x]
        /\ UNCHANGED <<roll, log, old, locks, holiday, cache, registrar>>
      BY <1>3 DEF Attendances!RequestCorrection, Attendances!NoCorrection, Attendances!Nobody
  <2>2. x \in CorrectionRows(z) /\ x.status = "PENDING"
      BY DEF CorrectionRows
  <2> HIDE DEF x
  <2> QED
      BY <2>1, <2>2, CorrectionMoves
<1>4. ASSUME \/ \E w \in z.windows : Attendances(z)!Lock(w) \/ Attendances(z)!Unlock(w)
             \/ \E s \in z.students : Attendances(z)!Elapse(s)
             \/ Attendances(z)!ChangeCalendar
             \/ \E p \in z.processes : Attendances(z)!Restart(p)
      PROVE  RollInv(z)'
  <2>1. UNCHANGED <<roll, log, correction, registrar>>
      BY <1>4 DEF Attendances!Lock, Attendances!Unlock, Attendances!Elapse, Attendances!ChangeCalendar,
         Attendances!Restart
  <2>2. /\ old' \subseteq {s \in z.students : roll[s] # "none"} /\ locks' \subseteq z.windows
        /\ holiday' \in BOOLEAN /\ cache' \in [z.processes -> {"unknown", "holiday", "workday"}]
      BY <1>4 DEF RollInv, RollSize, Attendances!Lock, Attendances!Unlock, Attendances!Elapse,
         Attendances!ChangeCalendar, Attendances!Restart, Attendances!Live, Attendances!NoStatus
  <2> QED
      BY <2>1, <2>2 DEF RollInv
<1>5. ASSUME Attendances(z)!Next PROVE RollInv(z)'
  <2>1. CASE \E r \in z.requests :
               \/ \E s \in z.students :
                    \/ \E p \in z.processes, x \in z.statuses :
                         Attendances(z)!Mark(r, p, s, x) \/ Attendances(z)!Update(r, p, s, x)
                    \/ Attendances(z)!SoftDelete(r, s)
               \/ \E p \in z.processes, some \in SUBSET z.students \ {{}} :
                    \E entries \in [some -> z.statuses] : Attendances(z)!BulkMark(r, p, entries)
               \/ \E c \in z.corrections : Attendances(z)!Approve(r, c)
               \/ Attendances(z)!Rollback(r)
      BY <2>1, RollChecked
  <2>2. CASE \E r \in z.requests :
               \/ Attendances(z)!WriteMark(r) \/ Attendances(z)!WriteUpdate(r)
               \/ Attendances(z)!WriteDeletion(r) \/ Attendances(z)!WriteApproval(r)
      BY <2>2, RollMarked, RollDeleted
  <2>3. CASE \E c \in z.corrections :
               \/ Attendances(z)!Reject(c)
               \/ \E s \in z.students, y \in z.statuses : Attendances(z)!RequestCorrection(c, s, y)
      BY <1>2, <1>3, <2>3
  <2> QED
      BY <1>4, <1>5, <2>1, <2>2, <2>3 DEF Attendances!Next
<1> QED
    BY <1>1, <1>5

\* What a day shows.
LEMMA RollShows ==
  ASSUME NEW z, RollSize(z), RollInv(z)
  PROVE  /\ Attendances(z)!TypeOK /\ Attendances(z)!HistoryReplays
         /\ Attendances(z)!ClosedDayIsCorrected
<1>1. \A s \in z.students : LogOf(z, roll[s], log[s], Approved(z, correction, s))
    BY DEF RollInv
<1>2. Attendances(z)!ClosedDayIsCorrected
    BY <1>1 DEF Attendances!ClosedDayIsCorrected, Attendances!Nobody, LogOf
<1>3. ASSUME NEW s \in z.students
      PROVE  LET n == Len(log[s])
                 corrected == {i \in 1 .. n : log[s][i].by # "nobody"}
             IN /\ \A i \in 1 .. n : log[s][i].from = IF i = 1 THEN "none" ELSE log[s][i - 1].to
                /\ roll[s] = IF n = 0 THEN "none" ELSE log[s][n].to
                /\ \A i, j \in corrected : log[s][i].by = log[s][j].by => i = j
                /\ {log[s][i].by : i \in corrected} =
                     {c \in z.corrections : correction[c].of = s /\ correction[c].status = "APPROVED"}
  <2> DEFINE t == log[s]
             n == Len(t)
             corrected == {i \in 1 .. n : t[i].by # "nobody"}
             K == Approved(z, correction, s)
  <2>1. LogOf(z, roll[s], t, K)
      BY <1>1
  <2>2. \A i \in 1 .. n : t[i].by \in z.corrections \cup {"nobody"}
    <3>1. \A i \in 1 .. n : t[i] \in LogRows(z)
        BY <2>1 DEF LogOf
    <3> QED
        BY <3>1 DEF LogRows
  <2>3. /\ \A i \in 1 .. n : t[i].from = IF i = 1 THEN "none" ELSE t[i - 1].to
        /\ roll[s] = IF n = 0 THEN "none" ELSE t[n].to
        /\ \A i, j \in corrected : t[i].by = t[j].by => i = j
      BY <2>1 DEF LogOf
  <2>4. \A c : c \in {t[i].by : i \in corrected} <=> c \in K
    <3>1. \A c \in z.corrections : c \in K <=> \E i \in 1 .. n : t[i].by = c
        BY <2>1 DEF LogOf
    <3>2. K \subseteq z.corrections /\ "nobody" \notin z.corrections
        BY DEF Approved, RollSize
    <3> HIDE DEF t, n, K
    <3> QED
        BY <2>2, <3>1, <3>2
  <2>5. {t[i].by : i \in corrected} = K
      BY <2>4
  <2> QED
      BY <2>3, <2>5 DEF Approved
<1>4. Attendances(z)!HistoryReplays
    BY <1>3 DEF Attendances!HistoryReplays, Attendances!Nobody, Attendances!NoStatus
<1>5. ASSUME NEW s \in z.students
      PROVE  /\ roll[s] \in z.statuses \cup {"none"} /\ Len(log[s]) <= z.maxTrail
             /\ \A i \in 1 .. Len(log[s]) : log[s][i] \in LogRows(z)
  <2>1. /\ log[s] \in Seq(LogRows(z)) /\ Len(log[s]) <= z.maxTrail /\ Len(log[s]) \in Nat
        /\ roll[s] = IF Len(log[s]) = 0 THEN "none" ELSE log[s][Len(log[s])].to
      BY <1>1 DEF LogOf
  <2>2. \A i \in 1 .. Len(log[s]) : log[s][i] \in LogRows(z)
      BY <2>1
  <2>3. Len(log[s]) # 0 => log[s][Len(log[s])] \in LogRows(z)
      BY <2>1, <2>2
  <2> QED
      BY <2>1, <2>2, <2>3 DEF LogRows
<1>6. roll \in [z.students -> z.statuses \cup {"none"}]
    BY <1>5 DEF RollInv
<1>7. correction \in [z.corrections -> [of : z.students \cup {"nobody"}, to : z.statuses \cup {"none"},
                                       status : {"none", "PENDING", "APPROVED", "REJECTED"}]]
    BY DEF RollInv, CorrectionRows
<1>8. \A q \in z.requests :
        registrar[q].at \in {"idle", "doomed", "mark", "bulk", "update", "delete", "approve"}
    BY DEF RollInv, RegistrarHolds
<1>9. /\ old \subseteq z.students /\ locks \subseteq z.windows
      /\ holiday \in BOOLEAN /\ cache \in [z.processes -> {"unknown", "holiday", "workday"}]
    BY DEF RollInv
<1>10. Attendances(z)!TypeOK
    BY <1>5, <1>6, <1>7, <1>8, <1>9 DEF Attendances!TypeOK, Attendances!NoStatus, Attendances!Nobody,
       LogRows
<1> QED
    BY <1>2, <1>4, <1>10

-----------------------------------------------------------------------------
(* A bulk import                                                           *)

ImporterRows(z) ==
  [at : {"idle", "starting", "validating", "promoting", "parsing", "failing"}]
    \cup [at : {"writing"}, student : SUBSET z.rows, used : Nat, usable : BOOLEAN]
    \cup [at : {"recording"}, admitted : SUBSET z.rows, failed : SUBSET z.rows]

ImportTypes(z) ==
  /\ phase \in {"PENDING", "VALIDATING", "VALIDATED", "COMMITTING", "COMMITTED", "FAILED", "CANCELLED"}
  /\ committed \in 0 .. Cardinality(z.rows)
  /\ invalid \subseteq z.rows /\ automatic \in BOOLEAN
  /\ taken \in [{"run", "commit"} -> -1 .. z.maxTakes]
  /\ importer \in [z.workers -> ImporterRows(z)]
  /\ known \subseteq z.rows /\ used \in Nat /\ usable \in BOOLEAN
  /\ warned \subseteq z.rows /\ broken \in BOOLEAN

Commits(w) == importer[w].at \in {"parsing", "writing", "recording"}

\* Rows are written by those who took the second job, which is there once the import was
\* promoted; and a status of that stage is never left for another.
WritesAreLate(z) ==
  batches # {} \/ (\E w \in z.workers : Commits(w)) => phase \in {"COMMITTING", "COMMITTED", "FAILED"}

\* What one taker of the second job has done, as long as nothing fails.
OneTakeIsTrue(z) ==
  /\ taken["commit"] \in {-1, 0} =>
       batches = {} /\ phase # "COMMITTED" /\ \A w \in z.workers : ~Commits(w)
  /\ taken["commit"] = 1 /\ ~broken =>
       /\ \A v, w \in z.workers : Commits(v) /\ Commits(w) => v = w
       /\ \A w \in z.workers : Commits(w) => phase # "COMMITTED"
       /\ \A w \in z.workers : importer[w].at \in {"parsing", "writing"} => batches = {}
       /\ \A w \in z.workers : importer[w].at = "recording" =>
            /\ Imports(z)!Counted = importer[w].admitted
            /\ (z.rows \ invalid) \ importer[w].admitted \subseteq warned \cup importer[w].failed
       /\ phase = "COMMITTED" => /\ committed = Cardinality(Imports(z)!Counted)
                                 /\ (z.rows \ invalid) \ Imports(z)!Counted \subseteq warned

\* The rows of a transaction are new; the counter follows those that were admitted.
RowsAreCounted(z) ==
  /\ \A b \in batches : b.admitted \subseteq b.fresh /\ b.fresh \subseteq known
  /\ used = Cardinality(known \ (Imports(z)!Written \ Imports(z)!Counted))

ImportInv(z) == ImportTypes(z) /\ WritesAreLate(z) /\ OneTakeIsTrue(z) /\ RowsAreCounted(z)

\* Cardinality means in an instance what it means here.
LEMMA SameCardinality == \A z, S : Imports(z)!Cardinality(S) = Cardinality(S)
    BY DEF Imports!Cardinality, Cardinality

\* An import begins with nothing done.
LEMMA ImportBegins == ASSUME NEW z, ImportSize(z), Imports(z)!Init PROVE ImportInv(z)
<1> USE DEF Imports!Init, Imports!Idle, Imports!Jobs, Imports!NotEnqueued, ImportSize
<1>1. ImportTypes(z)
  <2>1. Cardinality(z.rows) \in Nat
      BY FS_CardinalityType
  <2>2. taken \in [{"run", "commit"} -> -1 .. z.maxTakes]
      OBVIOUS
  <2>3. importer \in [z.workers -> ImporterRows(z)]
      BY DEF ImporterRows
  <2>4. committed \in 0 .. Cardinality(z.rows) /\ used \in Nat
      BY <2>1
  <2>5. automatic \in BOOLEAN /\ usable \in BOOLEAN /\ broken \in BOOLEAN
      OBVIOUS
  <2>6. invalid \subseteq z.rows /\ known \subseteq z.rows /\ warned \subseteq z.rows
      OBVIOUS
  <2> QED
      BY <2>2, <2>3, <2>4, <2>5, <2>6 DEF ImportTypes
<1>2. WritesAreLate(z)
    BY DEF WritesAreLate, Commits
<1>3. OneTakeIsTrue(z)
    BY DEF OneTakeIsTrue, Commits
<1>4. RowsAreCounted(z)
    BY FS_EmptySet DEF RowsAreCounted
<1> QED
    BY <1>1, <1>2, <1>3, <1>4 DEF ImportInv

\* The rows that are admitted are among those that are new, and those are not known.
LEMMA NewRows ==
  ASSUME NEW z, ImportTypes(z), NEW seen
  PROVE  /\ Imports(z)!Fresh(seen) \subseteq z.rows \ invalid
         /\ Imports(z)!Fresh(seen) \cap known = {}
         /\ \A S : Imports(z)!Admitted(seen, S) \subseteq S
    BY DEF Imports!Fresh, Imports!Admitted, ImportTypes

\* Every step of an import keeps the types.
LEMMA ImportTypesKept ==
  ASSUME NEW z, ImportSize(z), ImportInv(z), [Imports(z)!Next]_importVars
  PROVE  ImportTypes(z)'
<1> USE DEF Imports!Goto, Imports!At, Imports!Idle, Imports!file, Imports!school, Imports!history
<1> ImportTypes(z)
    BY DEF ImportInv
<1> USE DEF ImportTypes, ImporterRows
<1>0. CASE UNCHANGED importVars
    BY <1>0 DEF importVars
<1>1. ASSUME NEW w \in z.workers, NEW j \in Imports(z)!Jobs, Imports(z)!Take(w, j)
      PROVE ImportTypes(z)'
    BY <1>1 DEF Imports!Take, Imports!Jobs, ImportSize
<1>2. ASSUME NEW w \in z.workers, Imports(z)!Throws(w) PROVE ImportTypes(z)'
    BY <1>2 DEF Imports!Throws
<1>3. ASSUME NEW w \in z.workers, Imports(z)!Dies(w) PROVE ImportTypes(z)'
    BY <1>3 DEF Imports!Dies
<1>4. ASSUME NEW w \in z.workers, Imports(z)!MarkFailed(w) PROVE ImportTypes(z)'
    BY <1>4 DEF Imports!MarkFailed
<1>5. ASSUME NEW w \in z.workers, Imports(z)!MarkValidating(w) PROVE ImportTypes(z)'
    BY <1>5 DEF Imports!MarkValidating
<1>6. ASSUME NEW w \in z.workers, Imports(z)!LateStart(w) PROVE ImportTypes(z)'
    BY <1>6 DEF Imports!LateStart
<1>7. ASSUME NEW w \in z.workers, Imports(z)!MarkValidated(w) PROVE ImportTypes(z)'
    BY <1>7 DEF Imports!MarkValidated
<1>8. ASSUME NEW w \in z.workers, Imports(z)!AutoCommit(w) PROVE ImportTypes(z)'
    BY <1>8 DEF Imports!AutoCommit, Imports!Commit, ImportSize
<1>9. ASSUME NEW w \in z.workers, Imports(z)!BeginRows(w) PROVE ImportTypes(z)'
    BY <1>9 DEF Imports!BeginRows
<1>10. ASSUME NEW w \in z.workers, Imports(z)!WriteRows(w) PROVE ImportTypes(z)'
  <2> DEFINE fresh == Imports(z)!Fresh(importer[w])
             admitted == Imports(z)!Admitted(importer[w], fresh)
             failed == (z.rows \ invalid) \ admitted
  <2>1. /\ fresh \subseteq z.rows /\ admitted \subseteq z.rows /\ failed \subseteq z.rows
        /\ Cardinality(admitted) \in Nat
      BY NewRows, FS_Subset, FS_CardinalityType DEF ImportSize
  <2>2. /\ known' = known \cup fresh /\ used' = used + Cardinality(admitted)
        /\ importer' = [importer EXCEPT ![w] =
                          [at |-> "recording", admitted |-> admitted, failed |-> failed]]
        /\ UNCHANGED <<phase, committed, invalid, automatic, taken, usable, warned, broken>>
      BY <1>10, SameCardinality DEF Imports!WriteRows
  <2> HIDE DEF fresh, admitted, failed
  <2> QED
      BY <2>1, <2>2
<1>11. ASSUME NEW w \in z.workers, Imports(z)!Warn(w) PROVE ImportTypes(z)'
    BY <1>11 DEF Imports!Warn
<1>12. ASSUME NEW w \in z.workers, Imports(z)!MarkCommitted(w) PROVE ImportTypes(z)'
  <2>1. importer[w].admitted \subseteq z.rows
      BY <1>12 DEF Imports!MarkCommitted
  <2>2. Imports(z)!Cardinality(importer[w].admitted) \in 0 .. Cardinality(z.rows)
      BY <2>1, FS_Subset, FS_CardinalityType, SameCardinality DEF ImportSize
  <2> QED
      BY <1>12, <2>2 DEF Imports!MarkCommitted
<1>13. ASSUME NEW w \in z.workers, Imports(z)!LateEnd(w) PROVE ImportTypes(z)'
    BY <1>13 DEF Imports!LateEnd
<1>14. CASE Imports(z)!Cancel
    BY <1>14 DEF Imports!Cancel
<1>15. CASE Imports(z)!CommitByHand
    BY <1>15 DEF Imports!CommitByHand, Imports!Commit, ImportSize
<1>16. CASE Imports(z)!PlanChanges
    BY <1>16 DEF Imports!PlanChanges
<1>17. ASSUME NEW r \in z.rows, Imports(z)!Register(r) PROVE ImportTypes(z)'
    BY <1>17 DEF Imports!Register
<1> QED
    BY <1>0, <1>1, <1>2, <1>3, <1>4, <1>5, <1>6, <1>7, <1>8, <1>9, <1>10, <1>11, <1>12, <1>13,
       <1>14, <1>15, <1>16, <1>17 DEF Imports!Next

\* Every step of an import keeps the order of its two stages.
LEMMA WritesAreLateKept ==
  ASSUME NEW z, ImportSize(z), ImportInv(z), [Imports(z)!Next]_importVars
  PROVE  WritesAreLate(z)'
<1> USE DEF Imports!Goto, Imports!At, Imports!Idle, Imports!file, Imports!school, Imports!history
<1> WritesAreLate(z) /\ DOMAIN importer = z.workers
    BY DEF ImportInv, ImportTypes
<1> USE DEF WritesAreLate, Commits
<1>0. CASE UNCHANGED importVars
    BY <1>0 DEF importVars
<1>1. ASSUME NEW w \in z.workers, NEW j \in Imports(z)!Jobs, Imports(z)!Take(w, j)
      PROVE WritesAreLate(z)'
    BY <1>1 DEF Imports!Take, Imports!Jobs
<1>2. ASSUME NEW w \in z.workers, Imports(z)!Throws(w) PROVE WritesAreLate(z)'
    BY <1>2 DEF Imports!Throws
<1>3. ASSUME NEW w \in z.workers, Imports(z)!Dies(w) PROVE WritesAreLate(z)'
    BY <1>3 DEF Imports!Dies
<1>4. ASSUME NEW w \in z.workers, Imports(z)!MarkFailed(w) PROVE WritesAreLate(z)'
    BY <1>4 DEF Imports!MarkFailed
<1>5. ASSUME NEW w \in z.workers, Imports(z)!MarkValidating(w) PROVE WritesAreLate(z)'
    BY <1>5 DEF Imports!MarkValidating
<1>6. ASSUME NEW w \in z.workers, Imports(z)!LateStart(w) PROVE WritesAreLate(z)'
    BY <1>6 DEF Imports!LateStart
<1>7. ASSUME NEW w \in z.workers, Imports(z)!MarkValidated(w) PROVE WritesAreLate(z)'
    BY <1>7 DEF Imports!MarkValidated
<1>8. ASSUME NEW w \in z.workers, Imports(z)!AutoCommit(w) PROVE WritesAreLate(z)'
    BY <1>8 DEF Imports!AutoCommit, Imports!Commit, Imports!Committable
<1>9. ASSUME NEW w \in z.workers, Imports(z)!BeginRows(w) PROVE WritesAreLate(z)'
    BY <1>9 DEF Imports!BeginRows
<1>10. ASSUME NEW w \in z.workers, Imports(z)!WriteRows(w) PROVE WritesAreLate(z)'
    BY <1>10 DEF Imports!WriteRows
<1>11. ASSUME NEW w \in z.workers, Imports(z)!Warn(w) PROVE WritesAreLate(z)'
    BY <1>11 DEF Imports!Warn
<1>12. ASSUME NEW w \in z.workers, Imports(z)!MarkCommitted(w) PROVE WritesAreLate(z)'
    BY <1>12 DEF Imports!MarkCommitted
<1>13. ASSUME NEW w \in z.workers, Imports(z)!LateEnd(w) PROVE WritesAreLate(z)'
    BY <1>13 DEF Imports!LateEnd
<1>14. CASE Imports(z)!Cancel
    BY <1>14 DEF Imports!Cancel
<1>15. CASE Imports(z)!CommitByHand
    BY <1>15 DEF Imports!CommitByHand, Imports!Commit, Imports!Committable
<1>16. CASE Imports(z)!PlanChanges
    BY <1>16 DEF Imports!PlanChanges
<1>17. ASSUME NEW r \in z.rows, Imports(z)!Register(r) PROVE WritesAreLate(z)'
    BY <1>17 DEF Imports!Register
<1> QED
    BY <1>0, <1>1, <1>2, <1>3, <1>4, <1>5, <1>6, <1>7, <1>8, <1>9, <1>10, <1>11, <1>12, <1>13,
       <1>14, <1>15, <1>16, <1>17 DEF Imports!Next

\* Every step of an import keeps what one taker has done.
LEMMA OneTakeIsTrueKept ==
  ASSUME NEW z, ImportSize(z), ImportInv(z), [Imports(z)!Next]_importVars
  PROVE  OneTakeIsTrue(z)'
<1> USE DEF Imports!Goto, Imports!At, Imports!Idle, Imports!file, Imports!school, Imports!history
<1> WritesAreLate(z) /\ OneTakeIsTrue(z) /\ ImportTypes(z)
    BY DEF ImportInv
<1>c. UNCHANGED batches => Imports(z)!Counted' = Imports(z)!Counted
    BY DEF Imports!Counted
<1> USE DEF WritesAreLate, OneTakeIsTrue, Commits, ImportTypes
<1>0. CASE UNCHANGED importVars
    BY <1>0, <1>c DEF importVars
<1>1. ASSUME NEW w \in z.workers, NEW j \in Imports(z)!Jobs, Imports(z)!Take(w, j)
      PROVE OneTakeIsTrue(z)'
    BY <1>1, <1>c DEF Imports!Take, Imports!Jobs
<1>2. ASSUME NEW w \in z.workers, Imports(z)!Throws(w) PROVE OneTakeIsTrue(z)'
    BY <1>2, <1>c DEF Imports!Throws
<1>3. ASSUME NEW w \in z.workers, Imports(z)!Dies(w) PROVE OneTakeIsTrue(z)'
    BY <1>3, <1>c DEF Imports!Dies
<1>4. ASSUME NEW w \in z.workers, Imports(z)!MarkFailed(w) PROVE OneTakeIsTrue(z)'
    BY <1>4, <1>c DEF Imports!MarkFailed
<1>5. ASSUME NEW w \in z.workers, Imports(z)!MarkValidating(w) PROVE OneTakeIsTrue(z)'
    BY <1>5, <1>c DEF Imports!MarkValidating
<1>6. ASSUME NEW w \in z.workers, Imports(z)!LateStart(w) PROVE OneTakeIsTrue(z)'
    BY <1>6, <1>c DEF Imports!LateStart
<1>7. ASSUME NEW w \in z.workers, Imports(z)!MarkValidated(w) PROVE OneTakeIsTrue(z)'
    BY <1>7, <1>c DEF Imports!MarkValidated
<1>8. ASSUME NEW w \in z.workers, Imports(z)!AutoCommit(w) PROVE OneTakeIsTrue(z)'
    BY <1>8, <1>c DEF Imports!AutoCommit, Imports!Commit, Imports!Committable
<1>9. ASSUME NEW w \in z.workers, Imports(z)!BeginRows(w) PROVE OneTakeIsTrue(z)'
    BY <1>9, <1>c DEF Imports!BeginRows
<1>10. ASSUME NEW w \in z.workers, Imports(z)!WriteRows(w) PROVE OneTakeIsTrue(z)'
  <2> DEFINE fresh == Imports(z)!Fresh(importer[w])
             admitted == Imports(z)!Admitted(importer[w], fresh)
             failed == (z.rows \ invalid) \ admitted
  <2>1. /\ importer[w].at = "writing"
        /\ known' = known \cup fresh /\ used' = used + Cardinality(admitted)
        /\ batches' = batches \cup {[fresh |-> fresh, admitted |-> admitted]}
        /\ importer' = [importer EXCEPT ![w] =
                          [at |-> "recording", admitted |-> admitted, failed |-> failed]]
        /\ UNCHANGED <<phase, committed, invalid, automatic, taken, usable, warned, broken>>
      BY <1>10, SameCardinality DEF Imports!WriteRows
  <2>2. ASSUME batches = {} PROVE Imports(z)!Counted' = admitted
    <3>1. batches' = {[fresh |-> fresh, admitted |-> admitted]}
        BY <2>1, <2>2
    <3> QED
        BY <3>1 DEF Imports!Counted
  <2>3. (z.rows \ invalid) \ admitted \subseteq warned \cup failed
      OBVIOUS
  <2> HIDE DEF fresh, admitted, failed
  <2> QED
      BY <2>1, <2>2, <2>3
<1>11. ASSUME NEW w \in z.workers, Imports(z)!Warn(w) PROVE OneTakeIsTrue(z)'
    BY <1>11, <1>c DEF Imports!Warn
<1>12. ASSUME NEW w \in z.workers, Imports(z)!MarkCommitted(w) PROVE OneTakeIsTrue(z)'
    BY <1>12, <1>c, SameCardinality DEF Imports!MarkCommitted
<1>13. ASSUME NEW w \in z.workers, Imports(z)!LateEnd(w) PROVE OneTakeIsTrue(z)'
    BY <1>13, <1>c DEF Imports!LateEnd
<1>14. CASE Imports(z)!Cancel
    BY <1>14, <1>c DEF Imports!Cancel
<1>15. CASE Imports(z)!CommitByHand
    BY <1>15, <1>c DEF Imports!CommitByHand, Imports!Commit, Imports!Committable
<1>16. CASE Imports(z)!PlanChanges
    BY <1>16, <1>c DEF Imports!PlanChanges
<1>17. ASSUME NEW r \in z.rows, Imports(z)!Register(r) PROVE OneTakeIsTrue(z)'
    BY <1>17, <1>c DEF Imports!Register
<1> QED
    BY <1>0, <1>1, <1>2, <1>3, <1>4, <1>5, <1>6, <1>7, <1>8, <1>9, <1>10, <1>11, <1>12, <1>13,
       <1>14, <1>15, <1>16, <1>17 DEF Imports!Next

\* Every step of an import keeps the counter of students.
LEMMA RowsAreCountedKept ==
  ASSUME NEW z, ImportSize(z), ImportInv(z), [Imports(z)!Next]_importVars
  PROVE  RowsAreCounted(z)'
<1> USE DEF Imports!Goto, Imports!At, Imports!Idle, Imports!file, Imports!school, Imports!history
<1> RowsAreCounted(z) /\ ImportTypes(z)
    BY DEF ImportInv
<1>c. UNCHANGED batches
         => Imports(z)!Counted' = Imports(z)!Counted /\ Imports(z)!Written' = Imports(z)!Written
    BY DEF Imports!Counted, Imports!Written
<1> USE DEF RowsAreCounted
<1>0. CASE UNCHANGED importVars
    BY <1>0, <1>c DEF importVars
<1>1. ASSUME NEW w \in z.workers, NEW j \in Imports(z)!Jobs, Imports(z)!Take(w, j)
      PROVE RowsAreCounted(z)'
    BY <1>1, <1>c DEF Imports!Take, Imports!Jobs
<1>2. ASSUME NEW w \in z.workers, Imports(z)!Throws(w) PROVE RowsAreCounted(z)'
    BY <1>2, <1>c DEF Imports!Throws
<1>3. ASSUME NEW w \in z.workers, Imports(z)!Dies(w) PROVE RowsAreCounted(z)'
    BY <1>3, <1>c DEF Imports!Dies
<1>4. ASSUME NEW w \in z.workers, Imports(z)!MarkFailed(w) PROVE RowsAreCounted(z)'
    BY <1>4, <1>c DEF Imports!MarkFailed
<1>5. ASSUME NEW w \in z.workers, Imports(z)!MarkValidating(w) PROVE RowsAreCounted(z)'
    BY <1>5, <1>c DEF Imports!MarkValidating
<1>6. ASSUME NEW w \in z.workers, Imports(z)!LateStart(w) PROVE RowsAreCounted(z)'
    BY <1>6, <1>c DEF Imports!LateStart
<1>7. ASSUME NEW w \in z.workers, Imports(z)!MarkValidated(w) PROVE RowsAreCounted(z)'
    BY <1>7, <1>c DEF Imports!MarkValidated
<1>8. ASSUME NEW w \in z.workers, Imports(z)!AutoCommit(w) PROVE RowsAreCounted(z)'
    BY <1>8, <1>c DEF Imports!AutoCommit, Imports!Commit, Imports!Committable
<1>9. ASSUME NEW w \in z.workers, Imports(z)!BeginRows(w) PROVE RowsAreCounted(z)'
    BY <1>9, <1>c DEF Imports!BeginRows
<1>10. ASSUME NEW w \in z.workers, Imports(z)!WriteRows(w) PROVE RowsAreCounted(z)'
  <2> DEFINE fresh == Imports(z)!Fresh(importer[w])
             admitted == Imports(z)!Admitted(importer[w], fresh)
             failed == (z.rows \ invalid) \ admitted
  <2>1. /\ importer[w].at = "writing"
        /\ known' = known \cup fresh /\ used' = used + Cardinality(admitted)
        /\ batches' = batches \cup {[fresh |-> fresh, admitted |-> admitted]}
        /\ importer' = [importer EXCEPT ![w] =
                          [at |-> "recording", admitted |-> admitted, failed |-> failed]]
        /\ UNCHANGED <<phase, committed, invalid, automatic, taken, usable, warned, broken>>
      BY <1>10, SameCardinality DEF Imports!WriteRows
  <2>2. admitted \subseteq fresh /\ fresh \subseteq z.rows \ invalid /\ fresh \cap known = {}
      BY NewRows
  <2> HIDE DEF fresh, admitted, failed
  <2> DEFINE missed == Imports(z)!Written \ Imports(z)!Counted
  <2>3. Imports(z)!Written \subseteq known /\ Imports(z)!Counted \subseteq known
      BY DEF Imports!Written, Imports!Counted
  <2>4. /\ Imports(z)!Written' = Imports(z)!Written \cup fresh
        /\ Imports(z)!Counted' = Imports(z)!Counted \cup admitted
    <3> DEFINE batch == [fresh |-> fresh, admitted |-> admitted]
    <3>1. batches' = batches \cup {batch} /\ batch.fresh = fresh /\ batch.admitted = admitted
        BY <2>1
    <3> HIDE DEF batch
    <3> QED
        BY <3>1 DEF Imports!Written, Imports!Counted
  <2>5. known' \ missed' = (known \ missed) \cup admitted
      BY <2>1, <2>2, <2>3, <2>4
  <2>6. (known \ missed) \cap admitted = {}
      BY <2>2
  <2>7. IsFiniteSet(known \ missed) /\ IsFiniteSet(admitted)
      BY <2>2, FS_Subset DEF ImportTypes, ImportSize
  <2>8. IsFiniteSet((known \ missed) \cap admitted) /\ Cardinality((known \ missed) \cap admitted) = 0
      BY <2>6, FS_EmptySet
  <2>9. Cardinality(known' \ missed') = Cardinality(known \ missed) + Cardinality(admitted)
    <3> DEFINE before == known \ missed
    <3>1. Cardinality(before) \in Nat /\ Cardinality(admitted) \in Nat
        BY <2>7, FS_CardinalityType
    <3>2. Cardinality(before \cup admitted) = Cardinality(before) + Cardinality(admitted) - 0
        BY <2>7, <2>8, FS_Union
    <3>3. Cardinality(known' \ missed') = Cardinality(before \cup admitted)
        BY <2>5
    <3> HIDE DEF before, missed
    <3>4. Cardinality(known' \ missed') = Cardinality(before) + Cardinality(admitted)
        BY <3>1, <3>2, <3>3
    <3> QED
        BY <3>4 DEF before
  <2>10. \A b \in batches' : b.admitted \subseteq b.fresh /\ b.fresh \subseteq known'
      BY <2>1, <2>2
  <2> QED
      BY <2>1, <2>9, <2>10
<1>11. ASSUME NEW w \in z.workers, Imports(z)!Warn(w) PROVE RowsAreCounted(z)'
    BY <1>11, <1>c DEF Imports!Warn
<1>12. ASSUME NEW w \in z.workers, Imports(z)!MarkCommitted(w) PROVE RowsAreCounted(z)'
    BY <1>12, <1>c DEF Imports!MarkCommitted
<1>13. ASSUME NEW w \in z.workers, Imports(z)!LateEnd(w) PROVE RowsAreCounted(z)'
    BY <1>13, <1>c DEF Imports!LateEnd
<1>14. CASE Imports(z)!Cancel
    BY <1>14, <1>c DEF Imports!Cancel
<1>15. CASE Imports(z)!CommitByHand
    BY <1>15, <1>c DEF Imports!CommitByHand, Imports!Commit, Imports!Committable
<1>16. CASE Imports(z)!PlanChanges
    BY <1>16, <1>c DEF Imports!PlanChanges
<1>17. ASSUME NEW r \in z.rows, Imports(z)!Register(r) PROVE RowsAreCounted(z)'
  <2>1. /\ r \notin known /\ known' = known \cup {r} /\ used' = used + 1 /\ UNCHANGED batches
      BY <1>17 DEF Imports!Register
  <2> DEFINE missed == Imports(z)!Written \ Imports(z)!Counted
  <2>2. r \notin missed
      BY <2>1 DEF Imports!Written
  <2>3. known' \ missed' = (known \ missed) \cup {r}
      BY <2>1, <2>2, <1>c
  <2>4. IsFiniteSet(known \ missed)
      BY FS_Subset DEF ImportTypes, ImportSize
  <2>5. Cardinality(known' \ missed') = Cardinality(known \ missed) + 1
      BY <2>1, <2>3, <2>4, FS_AddElement
  <2> QED
      BY <2>1, <2>5
<1> QED
    BY <1>0, <1>1, <1>2, <1>3, <1>4, <1>5, <1>6, <1>7, <1>8, <1>9, <1>10, <1>11, <1>12, <1>13,
       <1>14, <1>15, <1>16, <1>17 DEF Imports!Next

\* What the invariant of an import says of its properties.
LEMMA ImportShows ==
  ASSUME NEW z, ImportSize(z), ImportInv(z)
  PROVE  /\ Imports(z)!TypeOK /\ Imports(z)!CancelledWritesNothing
         /\ Imports(z)!OutcomeIsTrue /\ Imports(z)!MissedAreRefused
<1> USE SameCardinality DEF ImportInv
<1>1. Imports(z)!CancelledWritesNothing
    BY DEF WritesAreLate, Imports!CancelledWritesNothing
<1>2. Imports(z)!OutcomeIsTrue
    BY DEF OneTakeIsTrue, Imports!OutcomeIsTrue
<1>3. Imports(z)!MissedAreRefused
    BY DEF RowsAreCounted, Imports!MissedAreRefused
<1>4. used \in 0 .. Cardinality(z.rows)
  <2>1. known \ (Imports(z)!Written \ Imports(z)!Counted) \subseteq z.rows
      BY DEF ImportTypes
  <2> QED
      BY <2>1, FS_Subset, FS_CardinalityType DEF RowsAreCounted, ImportSize
<1>5. Imports(z)!TypeOK
    BY <1>4 DEF ImportTypes, ImporterRows, RowsAreCounted, Imports!TypeOK, Imports!Jobs,
                Imports!NotEnqueued
<1> QED
    BY <1>1, <1>2, <1>3, <1>5

-----------------------------------------------------------------------------
(* Syllabuses                                                              *)

Reached == {"NOT_STARTED", "IN_PROGRESS", "COMPLETED"}

TopicRows(z) == [z.topics -> Reached \cup {"absent", "deleted"}]

RecountRows(z) ==
  [at : {"away"}]
    \cup [at : {"complete", "delete"}, topic : z.topics, version : 0 .. z.maxVersion,
          snapshot : TopicRows(z)]

\* A header counts no more topics than are completed, or live, at some time.
Counts(z, h) ==
  /\ h.status \in Reached /\ h.done \in Nat /\ h.total \in Nat
  /\ h.done <= h.total /\ h.total <= Cardinality(z.topics)

PlanTypes(z) ==
  /\ topic \in TopicRows(z) /\ version \in [z.topics -> 0 .. z.maxVersion]
  /\ DOMAIN header = {"done", "total", "status"} /\ Counts(z, header)
  /\ recount \in [z.requests -> RecountRows(z)]
  /\ touched \in BOOLEAN /\ overtook \in BOOLEAN

PlanInv(z) == PlanTypes(z) /\ Plans(z)!CompletionIsExplained

\* The library's cardinality is the one the component takes from its own import of it.
LEMMA TopicCardinality ==
  ASSUME NEW z PROVE \A S : Plans(z)!Cardinality(S) = Cardinality(S)
    BY DEF Plans!Cardinality, Cardinality

\* A recount counts topics.
LEMMA CompletionCounts ==
  ASSUME NEW z, SyllabusSize(z), NEW nodes
  PROVE  /\ Counts(z, Plans(z)!Completion(nodes))
         /\ DOMAIN Plans(z)!Completion(nodes) = {"done", "total", "status"}
<1> DEFINE alive == Plans(z)!Live(nodes)
           done == Plans(z)!Done(nodes)
           c == Plans(z)!Completion(nodes)
<1>1. done \subseteq alive /\ alive \subseteq z.topics
    BY DEF Plans!Done, Plans!Live, Plans!Progress
<1>2. /\ c = [done |-> Cardinality(done), total |-> Cardinality(alive),
              status |-> IF Cardinality(done) = 0 THEN "NOT_STARTED"
                         ELSE IF Cardinality(done) = Cardinality(alive) THEN "COMPLETED"
                         ELSE "IN_PROGRESS"]
    BY TopicCardinality DEF Plans!Completion
<1> HIDE DEF alive, done, c
<1>3. IsFiniteSet(alive) /\ Cardinality(alive) <= Cardinality(z.topics)
    BY <1>1, FS_Subset DEF SyllabusSize
<1>4. IsFiniteSet(done) /\ Cardinality(done) <= Cardinality(alive)
    BY <1>1, <1>3, FS_Subset
<1>5. Cardinality(done) \in Nat /\ Cardinality(alive) \in Nat
    BY <1>3, <1>4, FS_CardinalityType
<1>6. Counts(z, c) /\ DOMAIN c = {"done", "total", "status"}
    BY <1>2, <1>3, <1>4, <1>5 DEF Counts, Reached
<1> QED
    BY <1>6 DEF c

\* A header agrees with the topics it counts.
LEMMA CompletionAgrees ==
  ASSUME NEW z, header' = Plans(z)!Completion(topic') PROVE Plans(z)!Agrees'
<1>1. Plans(z)!Agrees' <=>
        /\ header'.done * Plans(z)!Completion(topic').total
             = Plans(z)!Completion(topic').done * header'.total
        /\ (header'.done = 0) = (Plans(z)!Completion(topic').done = 0)
        /\ header'.status = Plans(z)!Completion(topic').status
    BY DEF Plans!Agrees, Plans!Completion, Plans!Live, Plans!Done
<1> QED
    BY <1>1

\* A syllabus begins without topics.
LEMMA PlanBegins == ASSUME NEW z, SyllabusSize(z), Plans(z)!Init PROVE PlanInv(z)
<1> USE DEF Plans!Init
<1>1. Cardinality(z.topics) \in Nat
    BY FS_CardinalityType DEF SyllabusSize
<1>2. PlanTypes(z)
  <2>1. topic \in TopicRows(z) /\ version \in [z.topics -> 0 .. z.maxVersion]
      BY DEF TopicRows, SyllabusSize
  <2>2. recount \in [z.requests -> RecountRows(z)]
      BY DEF RecountRows, Plans!Away
  <2>3. Counts(z, header) /\ DOMAIN header = {"done", "total", "status"}
      BY <1>1 DEF Counts, Reached
  <2> QED
      BY <2>1, <2>2, <2>3 DEF PlanTypes
<1>3. Plans(z)!Live(topic) = {} /\ Plans(z)!Done(topic) = {}
    BY DEF Plans!Live, Plans!Done, Plans!Progress
<1>4. Plans(z)!Completion(topic) = [done |-> 0, total |-> 0, status |-> "NOT_STARTED"]
    BY <1>3, TopicCardinality, FS_EmptySet DEF Plans!Completion
<1>5. Plans(z)!Agrees
    BY <1>4 DEF Plans!Agrees
<1> QED
    BY <1>2, <1>5 DEF PlanInv, Plans!CompletionIsExplained

\* Whatever writes a topic keeps the types of the topics.
LEMMA TopicWritten ==
  ASSUME NEW z, SyllabusSize(z), PlanTypes(z), NEW t \in z.topics,
         NEW s \in Reached \cup {"absent", "deleted"}, Plans(z)!Write(t, s)
  PROVE  /\ topic' \in TopicRows(z) /\ version' \in [z.topics -> 0 .. z.maxVersion]
         /\ topic' = [topic EXCEPT ![t] = s]
    BY DEF Plans!Write, PlanTypes, TopicRows, SyllabusSize

\* Transactions of one write are known to have touched the topics, or have not.
LEMMA PlanTouched ==
  ASSUME NEW z, SyllabusSize(z), PlanInv(z),
         topic' \in TopicRows(z), version' \in [z.topics -> 0 .. z.maxVersion],
         DOMAIN header' = {"done", "total", "status"}, Counts(z, header'),
         recount' \in [z.requests -> RecountRows(z)], touched' \in BOOLEAN, UNCHANGED overtook,
         \/ touched' = TRUE
         \/ touched' = touched /\ UNCHANGED <<topic, header>>
  PROVE  PlanInv(z)'
<1>1. PlanTypes(z)'
    BY DEF PlanInv, PlanTypes, Counts
<1>2. ASSUME UNCHANGED <<topic, header>> PROVE Plans(z)!Agrees' <=> Plans(z)!Agrees
    BY <1>2 DEF Plans!Agrees, Plans!Completion, Plans!Live, Plans!Done
<1>3. Plans(z)!CompletionIsExplained'
    BY <1>2 DEF PlanInv, Plans!CompletionIsExplained
<1> QED
    BY <1>1, <1>3 DEF PlanInv

\* A recount that no transaction crossed stores the completion of the topics.
LEMMA Recounted ==
  ASSUME NEW z, SyllabusSize(z), PlanInv(z), NEW r \in z.requests,
         recount[r].at \in {"complete", "delete"}, NEW s \in {"COMPLETED", "deleted"},
         Plans(z)!Recount(r, s)
  PROVE  PlanInv(z)'
<1> DEFINE k == recount[r]
           t == k.topic
           seen == [k.snapshot EXCEPT ![t] = s]
<1>1. /\ k \in RecountRows(z) /\ t \in z.topics /\ k.snapshot \in TopicRows(z)
      /\ recount \in [z.requests -> RecountRows(z)]
    BY DEF PlanInv, PlanTypes, RecountRows
<1>2. /\ Plans(z)!Write(t, s) /\ header' = Plans(z)!Completion(seen) /\ touched' = FALSE
      /\ overtook' = (\E u \in z.topics \ {t} : topic[u] # k.snapshot[u])
      /\ recount' = [recount EXCEPT ![r] = [at |-> "away"]]
    BY DEF Plans!Recount, Plans!Seen, Plans!Overtakes, Plans!Away
<1>3. /\ topic' \in TopicRows(z) /\ version' \in [z.topics -> 0 .. z.maxVersion]
      /\ topic' = [topic EXCEPT ![t] = s]
    BY <1>1, <1>2, TopicWritten DEF PlanInv, Reached
<1>4. recount' \in [z.requests -> RecountRows(z)]
    BY <1>1, <1>2 DEF RecountRows
<1>5. Counts(z, header') /\ DOMAIN header' = {"done", "total", "status"}
  <2> HIDE DEF seen
  <2> QED
      BY <1>2, CompletionCounts
<1>6. PlanTypes(z)'
    BY <1>2, <1>3, <1>4, <1>5 DEF PlanTypes, Counts
<1>7. ASSUME ~overtook' PROVE Plans(z)!Agrees'
  <2>1. topic \in TopicRows(z) /\ \A u \in z.topics \ {t} : topic[u] = k.snapshot[u]
      BY <1>2, <1>7 DEF PlanInv, PlanTypes
  <2>2. seen = topic'
      BY <1>1, <1>3, <2>1 DEF TopicRows
  <2> QED
      BY <1>2, <2>2, CompletionAgrees
<1>8. Plans(z)!CompletionIsExplained'
    BY <1>7 DEF Plans!CompletionIsExplained
<1> QED
    BY <1>6, <1>8 DEF PlanInv

\* A syllabus keeps its topics and its header.
LEMMA PlanKeeps ==
  ASSUME NEW z, SyllabusSize(z), PlanInv(z), Plans(z)!Next \/ UNCHANGED syllabusVars
  PROVE  PlanInv(z)'
<1>0. /\ topic \in TopicRows(z) /\ version \in [z.topics -> 0 .. z.maxVersion]
      /\ DOMAIN header = {"done", "total", "status"} /\ Counts(z, header)
      /\ recount \in [z.requests -> RecountRows(z)] /\ touched \in BOOLEAN /\ PlanTypes(z)
    BY DEF PlanInv, PlanTypes
<1>1. CASE UNCHANGED syllabusVars
    BY <1>0, <1>1, PlanTouched DEF syllabusVars
<1>2. ASSUME NEW t \in z.topics, Plans(z)!UpsertNode(t) \/ Plans(z)!DeleteOpen(t) PROVE PlanInv(z)'
  <2>1. PICK s \in {"NOT_STARTED", "deleted"} : Plans(z)!Write(t, s)
      BY <1>2 DEF Plans!UpsertNode, Plans!DeleteOpen
  <2>2. topic' \in TopicRows(z) /\ version' \in [z.topics -> 0 .. z.maxVersion]
      BY <1>0, <2>1, TopicWritten DEF Reached
  <2>3. touched' = TRUE /\ UNCHANGED <<header, recount, overtook>>
      BY <1>2 DEF Plans!UpsertNode, Plans!DeleteOpen
  <2> QED
      BY <1>0, <2>2, <2>3, PlanTouched
<1>3. ASSUME NEW t \in z.topics, NEW s \in Reached, Plans(z)!UpdateNode(t, s) PROVE PlanInv(z)'
  <2>1. /\ Plans(z)!Write(t, s) /\ touched' = (touched \/ s # topic[t])
        /\ UNCHANGED <<header, recount, overtook>>
      BY <1>3 DEF Plans!UpdateNode
  <2>2. /\ topic' \in TopicRows(z) /\ version' \in [z.topics -> 0 .. z.maxVersion]
        /\ topic' = [topic EXCEPT ![t] = s]
      BY <1>0, <2>1, TopicWritten
  <2>3. s = topic[t] => topic' = topic
      BY <1>0, <2>2 DEF TopicRows
  <2>4. CASE touched' = TRUE
      BY <1>0, <2>1, <2>2, <2>4, PlanTouched
  <2>5. CASE touched' # TRUE
    <3>1. s = topic[t] /\ touched' = touched /\ touched' \in BOOLEAN
        BY <1>0, <2>1, <2>5
    <3> QED
        BY <1>0, <2>1, <2>2, <2>3, <3>1, PlanTouched
  <2> QED
      BY <2>4, <2>5
<1>4. ASSUME NEW s \in Reached, Plans(z)!Update(s) PROVE PlanInv(z)'
  <2>1. header' = [header EXCEPT !.status = s]
        /\ touched' = TRUE /\ UNCHANGED <<topic, version, recount, overtook>>
      BY <1>4 DEF Plans!Update
  <2>2. Counts(z, header') /\ DOMAIN header' = {"done", "total", "status"}
      BY <1>0, <2>1 DEF Counts
  <2> QED
      BY <1>0, <2>1, <2>2, PlanTouched
<1>5. ASSUME NEW t \in z.topics, NEW r \in z.requests, NEW op \in {"complete", "delete"},
             Plans(z)!Begin(r, t, op)
      PROVE  PlanInv(z)'
  <2>1. recount' = [recount EXCEPT ![r] =
                   [at |-> op, topic |-> t, version |-> version[t], snapshot |-> topic]]
      BY <1>5 DEF Plans!Begin
  <2>2. recount' \in [z.requests -> RecountRows(z)]
      BY <1>0, <2>1 DEF RecountRows
  <2>3. UNCHANGED <<topic, version, header, touched, overtook>>
      BY <1>5 DEF Plans!Begin
  <2> QED
      BY <1>0, <2>2, <2>3, PlanTouched
<1>6. ASSUME NEW r \in z.requests, Plans(z)!Fail(r) PROVE PlanInv(z)'
  <2>1. recount' \in [z.requests -> RecountRows(z)]
      BY <1>0, <1>6 DEF Plans!Fail, Plans!Away, RecountRows
  <2>2. UNCHANGED <<topic, version, header, touched, overtook>>
      BY <1>6 DEF Plans!Fail
  <2> QED
      BY <1>0, <2>1, <2>2, PlanTouched
<1>7. ASSUME NEW r \in z.requests, Plans(z)!CompleteTopic(r) \/ Plans(z)!DeleteNode(r) PROVE PlanInv(z)'
    BY <1>7, Recounted DEF Plans!CompleteTopic, Plans!DeleteNode
<1>8. ASSUME Plans(z)!Next PROVE PlanInv(z)'
    BY <1>2, <1>3, <1>4, <1>5, <1>6, <1>7, <1>8 DEF Plans!Next, Plans!Progress, Reached
<1> QED
    BY <1>1, <1>8

\* What a syllabus shows.
LEMMA PlanShows ==
  ASSUME NEW z, SyllabusSize(z), PlanInv(z)
  PROVE  Plans(z)!TypeOK /\ Plans(z)!CompletionIsExplained
<1>1. Cardinality(z.topics) = Plans(z)!Cardinality(z.topics) /\ Cardinality(z.topics) \in Nat
    BY TopicCardinality, FS_CardinalityType DEF SyllabusSize
<1>2. \A r \in z.requests : recount[r].at \in {"away", "complete", "delete"}
    BY DEF PlanInv, PlanTypes, RecountRows
<1>3. Plans(z)!TypeOK
    BY <1>1, <1>2 DEF Plans!TypeOK, Plans!Progress, PlanInv, PlanTypes, TopicRows, Counts, Reached
<1> QED
    BY <1>3 DEF PlanInv

-----------------------------------------------------------------------------
(* Assignments                                                             *)

AssignmentRows(z) ==
  [status : {"DRAFT", "PUBLISHED", "CLOSED", "CANCELLED", "deleted"}, maxMarks : z.marks,
   submissions : 0 .. Cardinality(z.students), evaluated : 0 .. Cardinality(z.students),
   late : 0 .. Cardinality(z.students)]

Missing(z) == [status |-> "absent", late |-> FALSE, marks |-> z.noMarks]

HandedIn(z) ==
  [status : {"SUBMITTED", "EVALUATED", "REJECTED"}, late : BOOLEAN, marks : Nat \cup {z.noMarks}]

PaperRows(z) ==
  [at : {"away"}] \cup [at : {"submit", "inserted"}, student : z.students]
    \cup [at : {"evaluate"}, student : z.students, marks : Nat]

PaperTypes(z, A, S, P) ==
  /\ A \in AssignmentRows(z) /\ S \in [z.students -> HandedIn(z) \cup {Missing(z)}]
  /\ P \in [z.requests -> PaperRows(z)]

\* A draft has neither submissions nor transactions; a submission that is not committed belongs
\* to one of them; marks are within their bounds when they are judged and ever after.
PapersHold(z, A, S, P) ==
  /\ A.status = "DRAFT" =>
       (\A s \in z.students : S[s].status = "absent") /\ (\A r \in z.requests : P[r].at = "away")
  /\ \A r \in z.requests :
       /\ P[r].at = "inserted" => S[P[r].student].status = "SUBMITTED"
       /\ P[r].at = "evaluate" => P[r].marks <= A.maxMarks
       /\ \A q \in z.requests :
            P[r].at = "inserted" /\ P[q].at = "inserted" /\ P[r].student = P[q].student => r = q
  /\ \A s \in z.students : S[s].status = "EVALUATED" => S[s].marks \in 0 .. A.maxMarks

\* The committed submissions, those of them that came late, and those with a verdict.
HandedOver(z, S, P) ==
  {s \in z.students : S[s].status # "absent"
     /\ \A r \in z.requests : P[r].at = "inserted" => P[r].student # s}

LateOver(z, S, P) == {s \in HandedOver(z, S, P) : S[s].late}

VerdictsOver(z, S, P) == {s \in HandedOver(z, S, P) : S[s].status = "EVALUATED"}

PapersCounted(z, A, S, P) ==
  A.status # "deleted" =>
    /\ A.submissions = Cardinality(HandedOver(z, S, P))
    /\ A.late = Cardinality(LateOver(z, S, P))
    /\ A.evaluated = Cardinality(VerdictsOver(z, S, P))

PaperInv(z) ==
  /\ PaperTypes(z, assignment, submission, paper) /\ PapersHold(z, assignment, submission, paper)
  /\ PapersCounted(z, assignment, submission, paper)

\* An assignment begins as a draft.
LEMMA PaperBegins == ASSUME NEW z, AssignmentSize(z), Papers(z)!Init PROVE PaperInv(z)
<1> USE DEF Papers!Init, Papers!Absent, Papers!Away
<1>1. Cardinality(z.students) \in Nat /\ Cardinality({}) = 0
    BY FS_CardinalityType, FS_EmptySet DEF AssignmentSize
<1>2. 0 \in 0 .. Cardinality(z.students)
    BY <1>1
<1>3. PaperTypes(z, assignment, submission, paper)
    BY <1>2 DEF PaperTypes, AssignmentRows, Missing, PaperRows
<1>4. PapersHold(z, assignment, submission, paper)
    BY DEF PapersHold
<1>5. HandedOver(z, submission, paper) = {}
    BY DEF HandedOver
<1>6. LateOver(z, submission, paper) = {} /\ VerdictsOver(z, submission, paper) = {}
    BY <1>5 DEF LateOver, VerdictsOver
<1>7. PapersCounted(z, assignment, submission, paper)
    BY <1>1, <1>5, <1>6 DEF PapersCounted
<1> QED
    BY <1>3, <1>4, <1>7 DEF PaperInv

\* A student more.
LEMMA OneMoreStudent ==
  ASSUME NEW z, AssignmentSize(z), NEW C \in SUBSET z.students, NEW s \in z.students \ C
  PROVE  /\ Cardinality(C) \in 0 .. Cardinality(z.students)
         /\ Cardinality(C \cup {s}) \in 0 .. Cardinality(z.students)
         /\ Cardinality(C \cup {s}) = Cardinality(C) + 1
<1>1. IsFiniteSet(C) /\ IsFiniteSet(C \cup {s}) /\ C \cup {s} \subseteq z.students
  <2>1. C \cup {s} \subseteq z.students
      OBVIOUS
  <2>2. IsFiniteSet(C)
      BY FS_Subset DEF AssignmentSize
  <2>3. IsFiniteSet(C \cup {s})
      BY <2>1, FS_Subset DEF AssignmentSize
  <2> QED
      BY <2>1, <2>2, <2>3
<1>2. Cardinality(C) \in Nat /\ Cardinality(C \cup {s}) \in Nat /\ Cardinality(z.students) \in Nat
    BY <1>1, FS_CardinalityType DEF AssignmentSize
<1>3. Cardinality(C) <= Cardinality(z.students)
    BY FS_Subset DEF AssignmentSize
<1>4. Cardinality(C \cup {s}) <= Cardinality(z.students)
    BY <1>1, FS_Subset DEF AssignmentSize
<1>5. Cardinality(C \cup {s}) = Cardinality(C) + 1
    BY <1>1, FS_AddElement
<1> QED
    BY <1>2, <1>3, <1>4, <1>5

\* The fields of a transaction.
LEMMA PaperFields ==
  ASSUME NEW z, NEW k \in PaperRows(z)
  PROVE  /\ k.at \in {"away", "submit", "inserted", "evaluate"}
         /\ k.at = "away" => k = [at |-> "away"]
         /\ k.at # "away" => k.student \in z.students
         /\ k.at = "submit" => [k EXCEPT !.at = "inserted"] = [at |-> "inserted", student |-> k.student]
         /\ k.at = "evaluate" => k.marks \in Nat
    BY DEF PaperRows

\* A transaction takes a step that commits nothing.
LEMMA PaperMoves ==
  ASSUME NEW z, AssignmentSize(z), PaperInv(z), NEW r \in z.requests, NEW k \in PaperRows(z),
         paper' = [paper EXCEPT ![r] = k], k.at # "inserted", assignment.status # "DRAFT",
         k.at = "evaluate" => k.marks <= assignment.maxMarks, UNCHANGED <<assignment, submission>>,
         paper[r].at # "inserted"
  PROVE  PaperInv(z)'
<1> DEFINE P == paper
           Q == paper'
<1>1. /\ P \in [z.requests -> PaperRows(z)] /\ Q \in [z.requests -> PaperRows(z)] /\ Q[r] = k
      /\ \A q \in z.requests \ {r} : Q[q] = P[q]
    BY DEF PaperInv, PaperTypes
<1> HIDE DEF Q
<1>2. \A q \in z.requests : Q[q].at = "inserted" <=> P[q].at = "inserted"
    BY <1>1
<1>3. \A q \in z.requests : Q[q].at = "inserted" => Q[q] = P[q]
    BY <1>1
<1>4. HandedOver(z, submission, Q) = HandedOver(z, submission, P)
    BY <1>2, <1>3 DEF HandedOver
<1>5. PaperTypes(z, assignment, submission, Q)
    BY <1>1 DEF PaperInv, PaperTypes
<1>6. PapersHold(z, assignment, submission, Q)
    BY <1>1, <1>2, <1>3 DEF PaperInv, PapersHold
<1>7. PapersCounted(z, assignment, submission, Q)
    BY <1>4 DEF PaperInv, PapersCounted, LateOver, VerdictsOver
<1> QED
    BY <1>5, <1>6, <1>7 DEF PaperInv, Q

\* The assignment changes while nobody holds its row.
LEMMA AssignmentChanged ==
  ASSUME NEW z, AssignmentSize(z), PaperInv(z), NEW B, assignment' = B, UNCHANGED <<submission, paper>>,
         \/ assignment.status = "DRAFT" /\ \E m \in z.marks : B = [assignment EXCEPT !.maxMarks = m]
         \/ /\ assignment.status # "deleted"
            /\ \E s \in {"PUBLISHED", "CLOSED", "CANCELLED", "deleted"} :
                 B = [assignment EXCEPT !.status = s]
  PROVE  PaperInv(z)'
<1> DEFINE A == assignment
<1>1. A \in AssignmentRows(z)
    BY DEF PaperInv, PaperTypes
<1>2. CASE A.status = "DRAFT" /\ \E m \in z.marks : B = [A EXCEPT !.maxMarks = m]
  <2>1. /\ B \in AssignmentRows(z) /\ B.status = "DRAFT" /\ B.submissions = A.submissions
        /\ B.late = A.late /\ B.evaluated = A.evaluated
      BY <1>1, <1>2 DEF AssignmentRows
  <2>2. PaperTypes(z, B, submission, paper) /\ PapersCounted(z, B, submission, paper)
      BY <1>2, <2>1 DEF PaperInv, PaperTypes, PapersCounted
  <2>3. PapersHold(z, B, submission, paper)
      BY <1>2, <2>1 DEF PaperInv, PapersHold
  <2> QED
      BY <2>2, <2>3 DEF PaperInv
<1>3. CASE /\ A.status # "deleted"
           /\ \E s \in {"PUBLISHED", "CLOSED", "CANCELLED", "deleted"} : B = [A EXCEPT !.status = s]
  <2>1. /\ B \in AssignmentRows(z) /\ B.status # "DRAFT" /\ B.submissions = A.submissions
        /\ B.late = A.late /\ B.evaluated = A.evaluated /\ B.maxMarks = A.maxMarks
      BY <1>1, <1>3 DEF AssignmentRows
  <2>2. PaperTypes(z, B, submission, paper)
      BY <2>1 DEF PaperInv, PaperTypes
  <2>3. PapersHold(z, B, submission, paper)
      BY <2>1 DEF PaperInv, PapersHold
  <2>4. PapersCounted(z, B, submission, paper)
      BY <1>3, <2>1 DEF PaperInv, PapersCounted
  <2> QED
      BY <2>2, <2>3, <2>4 DEF PaperInv
<1> QED
    BY <1>2, <1>3

\* A submission is inserted, and nobody sees it yet.
LEMMA PaperInserted ==
  ASSUME NEW z, AssignmentSize(z), PaperInv(z), NEW r \in z.requests, NEW l \in BOOLEAN,
         Papers(z)!Insert(r, l)
  PROVE  PaperInv(z)'
<1> DEFINE P == paper
           Q == paper'
           S == submission
           T == submission'
           s == paper[r].student
           new == [status |-> "SUBMITTED", late |-> l, marks |-> z.noMarks]
           k == [at |-> "inserted", student |-> s]
<1>1. /\ P[r] \in PaperRows(z) /\ P[r].at = "submit" /\ S[s] = Missing(z)
      /\ T = [S EXCEPT ![s] = new] /\ Q = [P EXCEPT ![r] = [P[r] EXCEPT !.at = "inserted"]]
      /\ assignment' = assignment
    BY DEF Papers!Insert, Papers!Goto, Papers!Absent, Missing, PaperInv, PaperTypes
<1>2. s \in z.students /\ [P[r] EXCEPT !.at = "inserted"] = k
    BY <1>1, PaperFields
<1>3. k \in PaperRows(z) /\ k.at = "inserted" /\ k.student = s
    BY <1>2 DEF PaperRows
<1>4. new \in HandedIn(z) /\ new.status = "SUBMITTED"
    BY DEF HandedIn
<1> HIDE DEF s, new, k, Q, T
<1>5. /\ Q \in [z.requests -> PaperRows(z)] /\ Q[r] = k /\ \A q \in z.requests \ {r} : Q[q] = P[q]
      /\ T \in [z.students -> HandedIn(z) \cup {Missing(z)}] /\ T[s] = new
      /\ \A t \in z.students \ {s} : T[t] = S[t]
    BY <1>1, <1>2, <1>3, <1>4 DEF PaperInv, PaperTypes
<1>6. S[s].status = "absent"
    BY <1>1 DEF Missing
<1>7. \A q \in z.requests : P[q].at = "inserted" => P[q].student # s
    BY <1>6 DEF PaperInv, PapersHold
<1>8. PaperTypes(z, assignment, T, Q)
    BY <1>5 DEF PaperInv, PaperTypes
<1>9. PapersHold(z, assignment, T, Q)
  <2>1. assignment.status # "DRAFT"
      BY <1>1 DEF PaperInv, PapersHold
  <2>2. ASSUME NEW q \in z.requests
        PROVE  /\ Q[q].at = "inserted" => T[Q[q].student].status = "SUBMITTED"
               /\ Q[q].at = "evaluate" => Q[q].marks <= assignment.maxMarks
               /\ \A p \in z.requests :
                    Q[q].at = "inserted" /\ Q[p].at = "inserted" /\ Q[q].student = Q[p].student => q = p
    <3>1. CASE q = r
        BY <1>3, <1>4, <1>5, <1>7, <3>1
    <3>2. CASE q # r
      <4>1. P[q] \in PaperRows(z) /\ (P[q].at = "inserted" => P[q].student \in z.students)
          BY PaperFields DEF PaperInv, PaperTypes
      <4>2. Q[q] = P[q]
          BY <1>5, <3>2
      <4>3. Q[q].at = "inserted" => T[Q[q].student].status = "SUBMITTED"
          BY <1>5, <1>7, <4>1, <4>2 DEF PaperInv, PapersHold
      <4>4. Q[q].at = "evaluate" => Q[q].marks <= assignment.maxMarks
          BY <4>2 DEF PaperInv, PapersHold
      <4>5. ASSUME NEW p \in z.requests, Q[q].at = "inserted", Q[p].at = "inserted",
                   Q[q].student = Q[p].student
            PROVE  q = p
        <5>1. p # r
            BY <1>3, <1>5, <1>7, <4>2, <4>5
        <5> QED
            BY <1>5, <4>2, <4>5, <5>1 DEF PaperInv, PapersHold
      <4> QED
          BY <4>3, <4>4, <4>5
    <3> QED
        BY <3>1, <3>2
  <2>3. \A t \in z.students : T[t].status = "EVALUATED" => T[t].marks \in 0 .. assignment.maxMarks
      BY <1>4, <1>5 DEF PaperInv, PapersHold
  <2> QED
      BY <2>1, <2>2, <2>3 DEF PapersHold
<1>10. \A t : t \in HandedOver(z, T, Q) <=> t \in HandedOver(z, S, P)
  <2>1. s \notin HandedOver(z, T, Q) /\ s \notin HandedOver(z, S, P)
      BY <1>3, <1>5, <1>6 DEF HandedOver
  <2>2. ASSUME NEW t \in z.students \ {s} PROVE t \in HandedOver(z, T, Q) <=> t \in HandedOver(z, S, P)
    <3>1. T[t] = S[t] /\ \A q \in z.requests :
            (Q[q].at = "inserted" => Q[q].student # t) <=> (P[q].at = "inserted" => P[q].student # t)
        BY <1>1, <1>3, <1>5
    <3> QED
        BY <3>1 DEF HandedOver
  <2> QED
      BY <2>1, <2>2 DEF HandedOver
<1>11. HandedOver(z, T, Q) = HandedOver(z, S, P) /\ s \notin HandedOver(z, T, Q)
    BY <1>3, <1>5, <1>10 DEF HandedOver
<1>12. /\ LateOver(z, T, Q) = LateOver(z, S, P)
       /\ VerdictsOver(z, T, Q) = VerdictsOver(z, S, P)
  <2>1. \A t \in HandedOver(z, T, Q) : T[t] = S[t]
      BY <1>5, <1>11 DEF HandedOver
  <2> QED
      BY <1>11, <2>1 DEF LateOver, VerdictsOver
<1>13. PapersCounted(z, assignment, T, Q)
    BY <1>11, <1>12 DEF PaperInv, PapersCounted
<1> QED
    BY <1>1, <1>8, <1>9, <1>13 DEF PaperInv, Q, T

\* The counters of an assignment move.
LEMMA AssignmentBumped ==
  ASSUME NEW z, NEW A \in AssignmentRows(z), NEW f \in {"submissions", "evaluated", "late"},
         NEW n, NEW B, B = Papers(z)!Bump(A, f, n),
         A.status # "deleted" => A[f] + n \in 0 .. Cardinality(z.students)
  PROVE  /\ B \in AssignmentRows(z) /\ B.status = A.status /\ B.maxMarks = A.maxMarks
         /\ A.status # "deleted" =>
              /\ B.submissions = IF f = "submissions" THEN A.submissions + n ELSE A.submissions
              /\ B.evaluated = IF f = "evaluated" THEN A.evaluated + n ELSE A.evaluated
              /\ B.late = IF f = "late" THEN A.late + n ELSE A.late
<1>1. CASE A.status = "deleted"
    BY <1>1 DEF Papers!Bump
<1>2. CASE A.status # "deleted"
  <2>1. B = [A EXCEPT ![f] = A[f] + n]
      BY <1>2 DEF Papers!Bump
  <2>2. CASE f = "submissions"
      BY <1>2, <2>1, <2>2 DEF AssignmentRows
  <2>3. CASE f = "evaluated"
      BY <1>2, <2>1, <2>3 DEF AssignmentRows
  <2>4. CASE f = "late"
      BY <1>2, <2>1, <2>4 DEF AssignmentRows
  <2> QED
      BY <2>2, <2>3, <2>4
<1> QED
    BY <1>1, <1>2

\* A transaction that holds the row ends, and leaves its submission or takes it away.
LEMMA InsertedEnds ==
  ASSUME NEW z, AssignmentSize(z), PaperInv(z), NEW r \in z.requests, paper[r].at = "inserted",
         paper' = [paper EXCEPT ![r] = [at |-> "away"]],
         NEW T, T \in {submission, [submission EXCEPT ![paper[r].student] = Missing(z)]}
  PROVE  /\ paper[r].student \in z.students
         /\ T \in [z.students -> HandedIn(z) \cup {Missing(z)}]
         /\ paper' \in [z.requests -> PaperRows(z)]
         /\ PapersHold(z, assignment, T, paper')
         /\ HandedOver(z, T, paper') =
              IF T = submission THEN HandedOver(z, submission, paper) \cup {paper[r].student}
              ELSE HandedOver(z, submission, paper)
         /\ paper[r].student \notin HandedOver(z, submission, paper)
         /\ \A t \in z.students \ {paper[r].student} : T[t] = submission[t]
<1> DEFINE P == paper
           Q == paper'
           S == submission
           s == paper[r].student
<1>1. /\ P \in [z.requests -> PaperRows(z)] /\ S \in [z.students -> HandedIn(z) \cup {Missing(z)}]
      /\ P[r] \in PaperRows(z)
    BY DEF PaperInv, PaperTypes
<1>2. s \in z.students
    BY <1>1, PaperFields
<1>3. /\ Q \in [z.requests -> PaperRows(z)] /\ Q[r].at = "away" /\ \A q \in z.requests \ {r} : Q[q] = P[q]
    BY <1>1 DEF PaperRows
<1>4. /\ T \in [z.students -> HandedIn(z) \cup {Missing(z)}]
      /\ \A t \in z.students \ {s} : T[t] = S[t]
      /\ T # S => T[s] = Missing(z)
    BY <1>1, <1>2
<1>5. S[s].status = "SUBMITTED" /\ assignment.status # "DRAFT"
    BY DEF PaperInv, PapersHold
<1>6. \A q \in z.requests \ {r} : P[q].at = "inserted" => P[q].student # s
    BY DEF PaperInv, PapersHold
<1>7. Missing(z).status = "absent"
    BY DEF Missing
<1> HIDE DEF Q, s
<1>8. PapersHold(z, assignment, T, Q)
  <2>1. ASSUME NEW q \in z.requests
        PROVE  /\ Q[q].at = "inserted" => T[Q[q].student].status = "SUBMITTED"
               /\ Q[q].at = "evaluate" => Q[q].marks <= assignment.maxMarks
               /\ \A p \in z.requests :
                    Q[q].at = "inserted" /\ Q[p].at = "inserted" /\ Q[q].student = Q[p].student => q = p
    <3>1. CASE q = r
        BY <1>3, <3>1
    <3>2. CASE q # r
      <4>1. P[q] \in PaperRows(z) /\ (P[q].at = "inserted" => P[q].student \in z.students)
          BY PaperFields DEF PaperInv, PaperTypes
      <4>2. Q[q] = P[q]
          BY <1>3, <3>2
      <4>3. Q[q].at = "inserted" => T[Q[q].student].status = "SUBMITTED"
          BY <1>4, <1>6, <3>2, <4>1, <4>2 DEF PaperInv, PapersHold
      <4>4. Q[q].at = "evaluate" => Q[q].marks <= assignment.maxMarks
          BY <4>2 DEF PaperInv, PapersHold
      <4>5. ASSUME NEW p \in z.requests, Q[q].at = "inserted", Q[p].at = "inserted",
                   Q[q].student = Q[p].student
            PROVE  q = p
        <5>1. p # r
            BY <1>3, <4>5
        <5> QED
            BY <1>3, <4>2, <4>5, <5>1 DEF PaperInv, PapersHold
      <4> QED
          BY <4>3, <4>4, <4>5
    <3> QED
        BY <3>1, <3>2
  <2>2. \A t \in z.students : T[t].status = "EVALUATED" => T[t].marks \in 0 .. assignment.maxMarks
      BY <1>4, <1>7 DEF PaperInv, PapersHold
  <2> QED
      BY <1>5, <2>1, <2>2 DEF PapersHold
<1>9. s \notin HandedOver(z, S, P)
    BY DEF HandedOver, s
<1>10. ASSUME NEW t \in z.students \ {s} PROVE t \in HandedOver(z, T, Q) <=> t \in HandedOver(z, S, P)
  <2>1. T[t] = S[t] /\ \A q \in z.requests :
          (Q[q].at = "inserted" => Q[q].student # t) <=> (P[q].at = "inserted" => P[q].student # t)
      BY <1>3, <1>4 DEF s
  <2> QED
      BY <2>1 DEF HandedOver
<1>11. s \in HandedOver(z, T, Q) <=> T = S
  <2>1. \A q \in z.requests : Q[q].at = "inserted" => Q[q].student # s
      BY <1>3, <1>6
  <2> QED
      BY <1>2, <1>4, <1>5, <1>7, <2>1 DEF HandedOver
<1>12. HandedOver(z, T, Q) =
         IF T = S THEN HandedOver(z, S, P) \cup {s} ELSE HandedOver(z, S, P)
  <2>1. HandedOver(z, T, Q) \subseteq z.students /\ HandedOver(z, S, P) \subseteq z.students
      BY DEF HandedOver
  <2> QED
      BY <1>2, <1>9, <1>10, <1>11, <2>1
<1> QED
    BY <1>2, <1>3, <1>4, <1>8, <1>9, <1>12 DEF Q, s

\* A submission is counted.
LEMMA PaperCounted ==
  ASSUME NEW z, AssignmentSize(z), PaperInv(z), NEW r \in z.requests, Papers(z)!CountSubmission(r)
  PROVE  PaperInv(z)'
<1> DEFINE P == paper
           Q == paper'
           S == submission
           s == paper[r].student
           n == IF submission[s].late THEN 1 ELSE 0
           A == assignment
           B == Papers(z)!Bump(A, "submissions", 1)
           C == Papers(z)!Bump(B, "late", n)
<1>1. paper[r].at = "inserted" /\ assignment' = C
      /\ Q = [P EXCEPT ![r] = [at |-> "away"]] /\ submission' = S
    BY DEF Papers!CountSubmission, Papers!Goto, Papers!Inserted, Papers!Away
<1>2. A \in AssignmentRows(z) /\ S \in [z.students -> HandedIn(z) \cup {Missing(z)}]
    BY DEF PaperInv, PaperTypes
<1> HIDE DEF Q
<1>3. /\ s \in z.students /\ Q \in [z.requests -> PaperRows(z)] /\ PapersHold(z, A, S, Q)
      /\ HandedOver(z, S, Q) = HandedOver(z, S, P) \cup {s}
      /\ s \notin HandedOver(z, S, P)
    BY <1>1, InsertedEnds DEF Q
<1>4. S[s].late \in BOOLEAN /\ S[s].status = "SUBMITTED"
  <2>1. S[s].status = "SUBMITTED"
      BY <1>1 DEF PaperInv, PapersHold
  <2> QED
      BY <1>2, <1>3, <2>1 DEF HandedIn, Missing
<1> HIDE DEF s, n, B, C
<1>5. /\ VerdictsOver(z, S, Q) = VerdictsOver(z, S, P)
      /\ LateOver(z, S, Q) = IF n = 1 THEN LateOver(z, S, P) \cup {s} ELSE LateOver(z, S, P)
      /\ n \in {0, 1}
    BY <1>3, <1>4 DEF VerdictsOver, LateOver, n
<1>6. /\ HandedOver(z, S, P) \in SUBSET z.students /\ LateOver(z, S, P) \in SUBSET z.students
      /\ s \in z.students \ LateOver(z, S, P) /\ s \in z.students \ HandedOver(z, S, P)
    BY <1>3 DEF HandedOver, LateOver
<1>7. /\ Cardinality(HandedOver(z, S, P) \cup {s}) = Cardinality(HandedOver(z, S, P)) + 1
      /\ Cardinality(HandedOver(z, S, P) \cup {s}) \in 0 .. Cardinality(z.students)
    BY <1>6, OneMoreStudent
<1>8. /\ Cardinality(LateOver(z, S, P) \cup {s}) = Cardinality(LateOver(z, S, P)) + 1
      /\ Cardinality(LateOver(z, S, P) \cup {s}) \in 0 .. Cardinality(z.students)
      /\ Cardinality(LateOver(z, S, P)) \in 0 .. Cardinality(z.students)
    BY <1>6, OneMoreStudent
<1>9. A.status # "deleted" =>
        /\ A.submissions = Cardinality(HandedOver(z, S, P))
        /\ A.late = Cardinality(LateOver(z, S, P))
        /\ A.evaluated = Cardinality(VerdictsOver(z, S, P))
    BY DEF PaperInv, PapersCounted
<1>10. /\ B \in AssignmentRows(z) /\ B.status = A.status /\ B.maxMarks = A.maxMarks
       /\ A.status # "deleted" =>
            B.submissions = A.submissions + 1 /\ B.evaluated = A.evaluated /\ B.late = A.late
  <2>1. A.status # "deleted" => A["submissions"] + 1 \in 0 .. Cardinality(z.students)
      BY <1>7, <1>9
  <2>2. B = Papers(z)!Bump(A, "submissions", 1)
      BY DEF B
  <2> QED
      BY <1>2, <2>1, <2>2, AssignmentBumped
<1>11. Cardinality(LateOver(z, S, P)) + n = Cardinality(LateOver(z, S, Q))
       /\ Cardinality(LateOver(z, S, Q)) \in 0 .. Cardinality(z.students)
    BY <1>5, <1>8
<1>12. /\ C \in AssignmentRows(z) /\ C.status = B.status /\ C.maxMarks = B.maxMarks
       /\ B.status # "deleted" =>
            C.submissions = B.submissions /\ C.evaluated = B.evaluated /\ C.late = B.late + n
  <2>1. B.status # "deleted" => B["late"] + n \in 0 .. Cardinality(z.students)
      BY <1>9, <1>10, <1>11
  <2>2. C = Papers(z)!Bump(B, "late", n)
      BY DEF C
  <2> QED
      BY <1>10, <2>1, <2>2, AssignmentBumped
<1>13. PaperTypes(z, C, S, Q)
    BY <1>2, <1>3, <1>12 DEF PaperTypes
<1>14. PapersHold(z, C, S, Q)
    BY <1>3, <1>10, <1>12 DEF PapersHold
<1>15. PapersCounted(z, C, S, Q)
    BY <1>3, <1>5, <1>7, <1>9, <1>10, <1>11, <1>12 DEF PapersCounted
<1> QED
    BY <1>1, <1>13, <1>14, <1>15 DEF PaperInv, Q, C, B, n, s

\* A transaction fails, and takes its submission with it.
LEMMA PaperFails ==
  ASSUME NEW z, AssignmentSize(z), PaperInv(z), NEW r \in z.requests, Papers(z)!Fail(r)
  PROVE  PaperInv(z)'
<1> DEFINE T == submission'
           Q == paper'
           s == paper[r].student
<1>1. /\ T = IF paper[r].at = "inserted" THEN [submission EXCEPT ![s] = Missing(z)] ELSE submission
      /\ Q = [paper EXCEPT ![r] = [at |-> "away"]] /\ assignment' = assignment
      /\ paper[r] # [at |-> "away"] /\ paper[r] \in PaperRows(z)
    BY DEF Papers!Fail, Papers!Inserted, Papers!Goto, Papers!Absent, Papers!Away, Missing, PaperInv,
       PaperTypes
<1>2. CASE paper[r].at = "inserted"
  <2> HIDE DEF T, Q
  <2>1. T \in {submission, [submission EXCEPT ![s] = Missing(z)]}
      BY <1>1, <1>2
  <2>2. /\ s \in z.students /\ T \in [z.students -> HandedIn(z) \cup {Missing(z)}]
        /\ Q \in [z.requests -> PaperRows(z)] /\ PapersHold(z, assignment, T, Q)
        /\ HandedOver(z, T, Q) = IF T = submission THEN HandedOver(z, submission, paper) \cup {s}
                                 ELSE HandedOver(z, submission, paper)
        /\ s \notin HandedOver(z, submission, paper)
        /\ \A t \in z.students \ {s} : T[t] = submission[t]
      BY <1>1, <1>2, <2>1, InsertedEnds DEF Q
  <2>3. T # submission
    <3>1. T[s] = Missing(z) /\ submission[s].status = "SUBMITTED"
        BY <1>1, <1>2, <2>2 DEF PaperInv, PapersHold, PaperTypes
    <3> QED
        BY <3>1 DEF Missing
  <2>4. HandedOver(z, T, Q) = HandedOver(z, submission, paper)
      BY <2>2, <2>3
  <2>5. \A t \in HandedOver(z, T, Q) : T[t] = submission[t]
      BY <2>2, <2>4 DEF HandedOver
  <2>6. PapersCounted(z, assignment, T, Q)
    <3>1. LateOver(z, T, Q) = LateOver(z, submission, paper)
          /\ VerdictsOver(z, T, Q) = VerdictsOver(z, submission, paper)
        BY <2>4, <2>5 DEF LateOver, VerdictsOver
    <3> QED
        BY <2>4, <3>1 DEF PaperInv, PapersCounted
  <2>7. PaperTypes(z, assignment, T, Q)
      BY <2>2 DEF PaperInv, PaperTypes
  <2> QED
      BY <1>1, <2>2, <2>6, <2>7 DEF PaperInv, T, Q
<1>3. CASE paper[r].at # "inserted"
  <2> DEFINE k == [at |-> "away"]
  <2>1. /\ k \in PaperRows(z) /\ k.at \notin {"inserted", "evaluate"}
        /\ paper' = [paper EXCEPT ![r] = k] /\ UNCHANGED <<assignment, submission>>
      BY <1>1, <1>3 DEF PaperRows
  <2>2. assignment.status # "DRAFT"
    <3>1. paper[r].at # "away"
        BY <1>1, PaperFields
    <3> QED
        BY <3>1 DEF PaperInv, PapersHold
  <2> HIDE DEF k
  <2> QED
      BY <1>3, <2>1, <2>2, PaperMoves
<1> QED
    BY <1>2, <1>3

\* The submissions are the same ones, and one of them has got its verdict.
VerdictOver(z, S, P, T, Q, s, given) ==
  /\ HandedOver(z, T, Q) = HandedOver(z, S, P) /\ LateOver(z, T, Q) = LateOver(z, S, P)
  /\ VerdictsOver(z, T, Q) = IF given THEN VerdictsOver(z, S, P) \cup {s} ELSE VerdictsOver(z, S, P)
  /\ s \notin VerdictsOver(z, S, P)

\* An open submission gets its verdict.
LEMMA PaperJudged ==
  ASSUME NEW z, AssignmentSize(z), PaperInv(z), NEW s \in z.students, Papers(z)!Open(s),
         NEW new \in HandedIn(z), new.status \in {"EVALUATED", "REJECTED"},
         new.late = submission[s].late,
         new.status = "EVALUATED" => new.marks \in 0 .. assignment.maxMarks,
         NEW T, T = [submission EXCEPT ![s] = new], NEW Q \in [z.requests -> PaperRows(z)],
         \A q \in z.requests : Q[q] = paper[q] \/ (Q[q].at = "away" /\ paper[q].at = "evaluate")
  PROVE  /\ T \in [z.students -> HandedIn(z) \cup {Missing(z)}]
         /\ PapersHold(z, assignment, T, Q)
         /\ VerdictOver(z, submission, paper, T, Q, s, new.status = "EVALUATED")
<1> DEFINE P == paper
           S == submission
<1>1. /\ S[s].status = "SUBMITTED" /\ \A q \in z.requests : P[q].at = "inserted" => P[q].student # s
      /\ S \in [z.students -> HandedIn(z) \cup {Missing(z)}]
    BY DEF Papers!Open, Papers!Inserted, PaperInv, PaperTypes
<1>2. /\ T \in [z.students -> HandedIn(z) \cup {Missing(z)}] /\ T[s] = new
      /\ \A t \in z.students \ {s} : T[t] = S[t]
    BY <1>1
<1>3. \A q \in z.requests :
        (Q[q].at = "inserted" <=> P[q].at = "inserted") /\ (Q[q].at = "inserted" => Q[q] = P[q])
    OBVIOUS
<1>4. PapersHold(z, assignment, T, Q)
  <2>1. assignment.status # "DRAFT"
      BY <1>1 DEF PaperInv, PapersHold
  <2>2. ASSUME NEW q \in z.requests
        PROVE  /\ Q[q].at = "inserted" => T[Q[q].student].status = "SUBMITTED"
               /\ Q[q].at = "evaluate" => Q[q].marks <= assignment.maxMarks
               /\ \A p \in z.requests :
                    Q[q].at = "inserted" /\ Q[p].at = "inserted" /\ Q[q].student = Q[p].student => q = p
    <3>1. P[q] \in PaperRows(z) /\ (P[q].at = "inserted" => P[q].student \in z.students)
        BY PaperFields DEF PaperInv, PaperTypes
    <3>2. Q[q].at = "inserted" => T[Q[q].student].status = "SUBMITTED"
        BY <1>1, <1>2, <1>3, <3>1 DEF PaperInv, PapersHold
    <3>3. Q[q].at = "evaluate" => Q[q].marks <= assignment.maxMarks
        BY DEF PaperInv, PapersHold
    <3>4. \A p \in z.requests :
            Q[q].at = "inserted" /\ Q[p].at = "inserted" /\ Q[q].student = Q[p].student => q = p
        BY <1>3 DEF PaperInv, PapersHold
    <3> QED
        BY <3>2, <3>3, <3>4
  <2>3. \A t \in z.students : T[t].status = "EVALUATED" => T[t].marks \in 0 .. assignment.maxMarks
      BY <1>2 DEF PaperInv, PapersHold
  <2> QED
      BY <2>1, <2>2, <2>3 DEF PapersHold
<1>5. \A t \in z.students : (T[t].status # "absent" <=> S[t].status # "absent") /\ T[t].late = S[t].late
    BY <1>1, <1>2
<1>6. HandedOver(z, T, Q) = HandedOver(z, S, P)
    BY <1>3, <1>5 DEF HandedOver
<1>7. LateOver(z, T, Q) = LateOver(z, S, P)
    BY <1>5, <1>6 DEF LateOver, HandedOver
<1>8. s \in HandedOver(z, S, P) /\ s \notin VerdictsOver(z, S, P)
    BY <1>1 DEF HandedOver, VerdictsOver
<1>9. VerdictsOver(z, T, Q) =
        IF new.status = "EVALUATED" THEN VerdictsOver(z, S, P) \cup {s} ELSE VerdictsOver(z, S, P)
    BY <1>2, <1>6, <1>8 DEF VerdictsOver, HandedOver
<1> QED
    BY <1>2, <1>4, <1>6, <1>7, <1>8, <1>9 DEF VerdictOver

\* A submission is evaluated and counted.
LEMMA PaperEvaluated ==
  ASSUME NEW z, AssignmentSize(z), PaperInv(z), NEW r \in z.requests, Papers(z)!Evaluate(r)
  PROVE  PaperInv(z)'
<1> DEFINE P == paper
           Q == paper'
           S == submission
           T == submission'
           s == paper[r].student
           A == assignment
           B == assignment'
           was == submission[s]
           new == [was EXCEPT !.status = "EVALUATED", !.marks = paper[r].marks]
<1>1. /\ P[r].at = "evaluate" /\ Papers(z)!Open(s) /\ B = Papers(z)!Bump(A, "evaluated", 1)
      /\ Q = [P EXCEPT ![r] = [at |-> "away"]]
      /\ T = [S EXCEPT ![s].status = "EVALUATED", ![s].marks = P[r].marks]
    BY DEF Papers!Evaluate, Papers!Goto, Papers!Away
<1>2. /\ A \in AssignmentRows(z) /\ P \in [z.requests -> PaperRows(z)] /\ P[r] \in PaperRows(z)
      /\ S \in [z.students -> HandedIn(z) \cup {Missing(z)}]
    BY DEF PaperInv, PaperTypes
<1>3. s \in z.students /\ P[r].marks \in Nat
    BY <1>1, <1>2, PaperFields
<1>4. P[r].marks \in 0 .. A.maxMarks
  <2>1. A.maxMarks \in Nat /\ P[r].marks <= A.maxMarks
      BY <1>1, <1>2 DEF PaperInv, PapersHold, AssignmentRows, AssignmentSize
  <2> QED
      BY <1>3, <2>1
<1>5. T = [S EXCEPT ![s] = new]
    BY <1>1, <1>2, <1>3
<1>6. was \in HandedIn(z)
    BY <1>1, <1>2, <1>3 DEF Papers!Open, HandedIn, Missing
<1>7. /\ new \in HandedIn(z) /\ new.status = "EVALUATED" /\ new.late = was.late
      /\ new.marks = P[r].marks
  <2> HIDE DEF was
  <2> QED
      BY <1>3, <1>6 DEF HandedIn
<1>8. Q \in [z.requests -> PaperRows(z)]
    BY <1>1, <1>2 DEF PaperRows
<1>9. \A q \in z.requests : Q[q] = P[q] \/ (Q[q].at = "away" /\ P[q].at = "evaluate")
  <2>1. Q[r].at = "away" /\ \A q \in z.requests \ {r} : Q[q] = P[q]
      BY <1>1, <1>2
  <2> QED
      BY <1>1, <2>1
<1>10. /\ new.late = submission[s].late /\ new.status \in {"EVALUATED", "REJECTED"}
       /\ new.status = "EVALUATED" => new.marks \in 0 .. assignment.maxMarks
    BY <1>4, <1>7
<1> HIDE DEF new, was, s, Q, T, B
<1>11. /\ T \in [z.students -> HandedIn(z) \cup {Missing(z)}] /\ PapersHold(z, A, T, Q)
       /\ HandedOver(z, T, Q) = HandedOver(z, S, P) /\ LateOver(z, T, Q) = LateOver(z, S, P)
       /\ VerdictsOver(z, T, Q) = VerdictsOver(z, S, P) \cup {s} /\ s \notin VerdictsOver(z, S, P)
  <2>1. Papers(z)!Open(s) /\ new \in HandedIn(z)
      BY <1>1, <1>7
  <2>2. T \in [z.students -> HandedIn(z) \cup {Missing(z)}] /\ PapersHold(z, A, T, Q)
      BY <1>3, <1>5, <1>8, <1>9, <1>10, <2>1, PaperJudged
  <2>3. VerdictOver(z, S, P, T, Q, s, new.status = "EVALUATED")
      BY <1>3, <1>5, <1>8, <1>9, <1>10, <2>1, PaperJudged
  <2> QED
      BY <1>7, <2>2, <2>3 DEF VerdictOver
<1>12. VerdictsOver(z, S, P) \in SUBSET z.students /\ s \in z.students \ VerdictsOver(z, S, P)
    BY <1>3, <1>11 DEF VerdictsOver, HandedOver
<1>13. /\ Cardinality(VerdictsOver(z, S, P) \cup {s}) = Cardinality(VerdictsOver(z, S, P)) + 1
       /\ Cardinality(VerdictsOver(z, S, P) \cup {s}) \in 0 .. Cardinality(z.students)
    BY <1>12, OneMoreStudent
<1>14. A.status # "deleted" =>
         /\ A.submissions = Cardinality(HandedOver(z, S, P))
         /\ A.late = Cardinality(LateOver(z, S, P))
         /\ A.evaluated = Cardinality(VerdictsOver(z, S, P))
    BY DEF PaperInv, PapersCounted
<1>15. /\ B \in AssignmentRows(z) /\ B.status = A.status /\ B.maxMarks = A.maxMarks
       /\ A.status # "deleted" =>
            B.submissions = A.submissions /\ B.evaluated = A.evaluated + 1 /\ B.late = A.late
  <2>1. A.status # "deleted" => A["evaluated"] + 1 \in 0 .. Cardinality(z.students)
      BY <1>13, <1>14
  <2> QED
      BY <1>1, <1>2, <2>1, AssignmentBumped
<1>16. PaperTypes(z, B, T, Q)
    BY <1>8, <1>11, <1>15 DEF PaperTypes
<1>17. PapersHold(z, B, T, Q)
    BY <1>11, <1>15 DEF PapersHold
<1>18. PapersCounted(z, B, T, Q)
    BY <1>11, <1>13, <1>14, <1>15 DEF PapersCounted
<1> QED
    BY <1>16, <1>17, <1>18 DEF PaperInv, B, T, Q

\* A submission is turned down.
LEMMA PaperRejected ==
  ASSUME NEW z, AssignmentSize(z), PaperInv(z), NEW s \in z.students, Papers(z)!Reject(s)
  PROVE  PaperInv(z)'
<1> DEFINE P == paper
           S == submission
           T == submission'
           was == submission[s]
           new == [was EXCEPT !.status = "REJECTED"]
<1>1. /\ Papers(z)!Open(s) /\ UNCHANGED <<assignment, paper>>
      /\ T = [S EXCEPT ![s].status = "REJECTED"] /\ P \in [z.requests -> PaperRows(z)]
      /\ S \in [z.students -> HandedIn(z) \cup {Missing(z)}]
    BY DEF Papers!Reject, PaperInv, PaperTypes
<1>2. T = [S EXCEPT ![s] = new]
    BY <1>1
<1>3. was \in HandedIn(z)
    BY <1>1 DEF Papers!Open, HandedIn, Missing
<1>4. new \in HandedIn(z) /\ new.status = "REJECTED" /\ new.late = was.late
  <2> HIDE DEF was
  <2> QED
      BY <1>3 DEF HandedIn
<1>5. /\ new.late = submission[s].late /\ new.status \in {"EVALUATED", "REJECTED"}
      /\ new.status = "EVALUATED" => new.marks \in 0 .. assignment.maxMarks
      /\ \A q \in z.requests : P[q] = paper[q] \/ (P[q].at = "away" /\ paper[q].at = "evaluate")
      /\ P \in [z.requests -> PaperRows(z)]
    BY <1>1, <1>4
<1>8. Papers(z)!Open(s)
    BY <1>1
<1> HIDE DEF new, was, T
<1>6. /\ T \in [z.students -> HandedIn(z) \cup {Missing(z)}] /\ PapersHold(z, assignment, T, P)
      /\ HandedOver(z, T, P) = HandedOver(z, S, P) /\ LateOver(z, T, P) = LateOver(z, S, P)
      /\ VerdictsOver(z, T, P) = VerdictsOver(z, S, P)
  <2>1. new \in HandedIn(z)
      BY <1>4
  <2>2. T \in [z.students -> HandedIn(z) \cup {Missing(z)}] /\ PapersHold(z, assignment, T, P)
      BY <1>2, <1>5, <1>8, <2>1, PaperJudged
  <2>3. VerdictOver(z, S, P, T, P, s, new.status = "EVALUATED")
      BY <1>2, <1>5, <1>8, <2>1, PaperJudged
  <2> QED
      BY <1>4, <2>2, <2>3 DEF VerdictOver
<1>7. PaperTypes(z, assignment, T, P) /\ PapersCounted(z, assignment, T, P)
    BY <1>6 DEF PaperInv, PaperTypes, PapersCounted
<1> QED
    BY <1>1, <1>6, <1>7 DEF PaperInv, T

\* An assignment keeps its submissions and its counters.
LEMMA PaperKeeps ==
  ASSUME NEW z, AssignmentSize(z), PaperInv(z), Papers(z)!Next \/ UNCHANGED paperVars
  PROVE  PaperInv(z)'
<1>1. CASE UNCHANGED paperVars
    BY <1>1 DEF paperVars, PaperInv
<1>2. ASSUME \/ \E m \in z.marks : Papers(z)!Update(m)
             \/ Papers(z)!Publish \/ Papers(z)!Close \/ Papers(z)!Cancel \/ Papers(z)!SoftDelete
      PROVE  PaperInv(z)'
  <2> DEFINE B == assignment'
  <2>1. /\ UNCHANGED <<submission, paper>>
        /\ \/ assignment.status = "DRAFT" /\ \E m \in z.marks : B = [assignment EXCEPT !.maxMarks = m]
           \/ /\ assignment.status # "deleted"
              /\ \E s \in {"PUBLISHED", "CLOSED", "CANCELLED", "deleted"} :
                   B = [assignment EXCEPT !.status = s]
      BY <1>2 DEF Papers!Update, Papers!Publish, Papers!Close, Papers!Cancel, Papers!SoftDelete,
         Papers!Change
  <2>2. assignment' = B
      OBVIOUS
  <2> HIDE DEF B
  <2> QED
      BY <2>1, <2>2, AssignmentChanged
<1>3. ASSUME NEW r \in z.requests, NEW s \in z.students,
             \/ Papers(z)!Submit(r, s)
             \/ \E m \in 0 .. assignment.maxMarks : Papers(z)!Judge(r, s, m)
      PROVE  PaperInv(z)'
  <2>4. paper[r] = [at |-> "away"] /\ UNCHANGED <<assignment, submission>>
      BY <1>3 DEF Papers!Submit, Papers!Judge, Papers!Away
  <2>1. paper[r].at # "inserted" /\ UNCHANGED <<assignment, submission>>
      BY <2>4
  <2>2. CASE Papers(z)!Submit(r, s)
    <3> DEFINE k == [at |-> "submit", student |-> s]
    <3>1. k \in PaperRows(z) /\ k.at \notin {"inserted", "evaluate"} /\ paper' = [paper EXCEPT ![r] = k]
        BY <2>2 DEF PaperRows, Papers!Submit, Papers!Goto
    <3>2. assignment.status # "DRAFT"
        BY <2>2 DEF Papers!Submit
    <3> HIDE DEF k
    <3> QED
        BY <2>1, <3>1, <3>2, PaperMoves
  <2>3. ASSUME NEW m \in 0 .. assignment.maxMarks, Papers(z)!Judge(r, s, m) PROVE PaperInv(z)'
    <3> DEFINE k == [at |-> "evaluate", student |-> s, marks |-> m]
    <3>1. assignment.maxMarks \in Nat
        BY DEF PaperInv, PaperTypes, AssignmentRows, AssignmentSize
    <3>2. k \in PaperRows(z) /\ k.at = "evaluate" /\ k.marks <= assignment.maxMarks
        BY <3>1 DEF PaperRows
    <3>3. paper' = [paper EXCEPT ![r] = k]
        BY <2>3 DEF Papers!Judge, Papers!Goto
    <3>4. assignment.status # "DRAFT"
        BY <2>3 DEF Papers!Judge, Papers!Open, PaperInv, PapersHold
    <3> HIDE DEF k
    <3> QED
        BY <2>1, <3>2, <3>3, <3>4, PaperMoves
  <2> QED
      BY <1>3, <2>2, <2>3
<1>4. ASSUME Papers(z)!Next PROVE PaperInv(z)'
    BY <1>2, <1>3, <1>4, PaperInserted, PaperCounted, PaperFails, PaperEvaluated, PaperRejected
    DEF Papers!Next
<1> QED
    BY <1>1, <1>4

\* What an assignment shows.
LEMMA PaperShows ==
  ASSUME NEW z, AssignmentSize(z), PaperInv(z)
  PROVE  Papers(z)!TypeOK /\ Papers(z)!SubmissionsAddUp
<1>1. \A S : Papers(z)!Cardinality(S) = Cardinality(S)
    BY DEF Papers!Cardinality, Cardinality
<1>2. /\ assignment \in AssignmentRows(z) /\ paper \in [z.requests -> PaperRows(z)]
      /\ submission \in [z.students -> HandedIn(z) \cup {Missing(z)}]
    BY DEF PaperInv, PaperTypes
<1>3. Papers(z)!Committed = HandedOver(z, submission, paper)
  <2>1. ASSUME NEW s \in z.students
        PROVE  submission[s].status # "absent" <=> submission[s] # Missing(z)
    <3>1. submission[s] = Missing(z) \/ submission[s] \in HandedIn(z)
        BY <1>2
    <3>2. Missing(z).status = "absent"
        BY DEF Missing
    <3>3. submission[s] \in HandedIn(z) => submission[s].status # "absent"
        BY DEF HandedIn
    <3> QED
        BY <3>1, <3>2, <3>3
  <2> QED
      BY <2>1 DEF Papers!Committed, Papers!Inserted, Papers!Absent, HandedOver, Missing
<1>4. Papers(z)!SubmissionsAddUp
  <2>1. \A s \in Papers(z)!Committed :
          submission[s].status = "EVALUATED" => submission[s].marks \in 0 .. assignment.maxMarks
      BY <1>3 DEF PaperInv, PapersHold, HandedOver
  <2> QED
      BY <1>1, <1>3, <2>1 DEF Papers!SubmissionsAddUp, PaperInv, PapersCounted, LateOver, VerdictsOver
<1>5. Papers(z)!TypeOK
  <2>1. \A s \in z.students : submission[s].status \in {"absent", "SUBMITTED", "EVALUATED", "REJECTED"}
      BY <1>2 DEF HandedIn, Missing
  <2>2. \A r \in z.requests : paper[r].at \in {"away", "submit", "inserted", "evaluate"}
      BY <1>2, PaperFields
  <2> QED
      BY <1>1, <1>2, <2>1, <2>2 DEF Papers!TypeOK, AssignmentRows
<1> QED
    BY <1>4, <1>5

-----------------------------------------------------------------------------
(* Places and promotions of students                                       *)

PupilRows(z) ==
  [place : z.places \cup {z.none, "deleted"}, roll : z.rolls \cup {z.none}, active : BOOLEAN,
   how : {"seen", "blind", "carried"}]

PlacingRows(z) ==
  [at : {"away"}] \cup [at : {"looked"}, student : z.students, place : z.places, roll : z.rolls,
                        valid : BOOLEAN, overtaken : BOOLEAN]

PassRows == [at : {"away"}] \cup [at : {"pass"}, pass : Nat, done : Nat, succeeded : Nat]

PlacementTypes(z) ==
  /\ pupil \in [z.students -> PupilRows(z)]
  /\ placing \in [z.requests -> PlacingRows(z)]
  /\ promoter \in [z.workers -> PassRows]
  /\ promotion \in [status : {"none", "EXECUTING", "COMPLETED", "FAILED"}, succeeded : Nat,
                    failed : Int, pass : Nat]
  /\ moves \in 0 .. z.maxMoves /\ takes \in 0 .. z.maxTakes
  /\ promoted \subseteq (1 .. takes) \X (1 .. Len(z.targets))

\* As long as a look is valid its student has not moved, and as long as it is not overtaken
\* nobody has the number.
LooksHold(z) ==
  \A r \in z.requests : placing[r].at = "looked" /\ placing[r].valid =>
    /\ pupil[placing[r].student].place \in {z.none, placing[r].place}
    /\ ~placing[r].overtaken =>
         ~Placements(z)!Clash(placing[r].student, placing[r].place, placing[r].roll)

\* Of two students with one number in one place one did not look, or not in time.
RollsHold(z) ==
  \A s, t \in z.students :
    /\ s # t /\ pupil[s].place \in z.places
    /\ pupil[s].place = pupil[t].place /\ pupil[s].roll = pupil[t].roll
    => pupil[s].roll = z.none \/ pupil[s].how # "seen" \/ pupil[t].how # "seen"

\* The targets that pass j promoted, and the times that student s was, of those in P.
ByPass(z, P, j) == {i \in 1 .. Len(z.targets) : <<j, i>> \in P}
OfStudent(z, P, s) == {p \in P : z.targets[p[2]] = s}

\* Pass k, of t so far, counts the targets it promoted, all of them behind it.
PassHolds(z, t, P, k) ==
  /\ k.pass \in 1 .. t /\ k.done \in 0 .. Len(z.targets) /\ k.succeeded <= k.done
  /\ k.succeeded = Cardinality(ByPass(z, P, k.pass))
  /\ \A i \in ByPass(z, P, k.pass) : i <= k.done

\* What was reported is what one of t passes did.
ReportHolds(z, t, P, o) ==
  /\ o.pass \in 1 .. t
  /\ o.succeeded = Cardinality(ByPass(z, P, o.pass)) /\ o.succeeded + o.failed = Len(z.targets)

\* A pass is one worker's; the one that was reported is nobody's any more.
PassesCount(z) ==
  /\ \A w \in z.workers : promoter[w].at = "pass" => PassHolds(z, takes, promoted, promoter[w])
  /\ \A v, w \in z.workers :
       promoter[v].at = "pass" /\ promoter[w].at = "pass" /\ v # w => promoter[v].pass # promoter[w].pass
  /\ promotion.status = "COMPLETED" =>
       /\ ReportHolds(z, takes, promoted, promotion)
       /\ \A w \in z.workers : promoter[w].at = "pass" => promoter[w].pass # promotion.pass

\* A student who is where promotions start can be promoted once more, and gets there once
\* without being moved.
MovesAllow(z) ==
  \A s \in z.students :
    Cardinality(OfStudent(z, promoted, s))
      + (IF pupil[s].place \in {z.none, z.from} THEN 1 ELSE 0) <= 1 + moves

PlacementInv(z) ==
  /\ PlacementTypes(z) /\ LooksHold(z) /\ RollsHold(z)
  /\ PassesCount(z) /\ MovesAllow(z)

\* Cardinality means in an instance what it means here.
LEMMA PlacementCardinality == \A z, S : Placements(z)!Cardinality(S) = Cardinality(S)
    BY DEF Placements!Cardinality, Cardinality

\* Nobody is a student at first.
LEMMA PlacementBegins == ASSUME NEW z, PlacementSize(z), Placements(z)!Init PROVE PlacementInv(z)
<1> USE DEF Placements!Init, Placements!Away, Placements!NoStudent, PlacementSize
<1>1. PlacementTypes(z)
    BY DEF PlacementTypes, PupilRows, PlacingRows, PassRows
<1>2. LooksHold(z)
    BY DEF LooksHold
<1>3. RollsHold(z)
    BY DEF RollsHold
<1>4. PassesCount(z)
    BY DEF PassesCount
<1>5. MovesAllow(z)
  <2>1. \A s \in z.students : OfStudent(z, promoted, s) = {}
      BY DEF OfStudent
  <2>2. \A s \in z.students : Cardinality(OfStudent(z, promoted, s)) = 0
      BY <2>1, FS_EmptySet
  <2> QED
      BY <2>2 DEF MovesAllow
<1> QED
    BY <1>1, <1>2, <1>3, <1>4, <1>5 DEF PlacementInv

\* A row changes, and with it every open transaction that is not over.
RowChanges(z, s, row) ==
  /\ pupil' = [pupil EXCEPT ![s] = row]
  /\ placing' = [r \in z.requests |-> placing'[r]]
  /\ \A r \in z.requests :
       \/ placing'[r] = [at |-> "away"]
       \/ /\ placing[r] # [at |-> "away"]
          /\ placing'[r] = IF placing[r].student = s THEN [placing[r] EXCEPT !.valid = FALSE]
                           ELSE [placing[r] EXCEPT !.overtaken = TRUE]

\* What changes when a student is put somewhere.
LEMMA PutChanges ==
  ASSUME NEW z, NEW s, NEW row, Placements(z)!Put(s, row)
  PROVE  RowChanges(z, s, row)
    BY DEF RowChanges, Placements!Put, Placements!Away

\* A row that changes makes the looks at its student void and the others overtaken.
LEMMA ChangedRows ==
  ASSUME NEW z, PlacementTypes(z), NEW s \in z.students, NEW row \in PupilRows(z), RowChanges(z, s, row)
  PROVE  /\ pupil' \in [z.students -> PupilRows(z)] /\ placing' \in [z.requests -> PlacingRows(z)]
         /\ pupil'[s] = row /\ \A t \in z.students \ {s} : pupil'[t] = pupil[t]
         /\ \A r \in z.requests : placing'[r].at = "looked" /\ placing'[r].valid =>
              /\ placing[r].at = "looked" /\ placing[r].valid
              /\ placing'[r].student = placing[r].student /\ placing'[r].place = placing[r].place
              /\ placing'[r].student # s /\ placing'[r].overtaken
<1>1. /\ pupil' \in [z.students -> PupilRows(z)]
      /\ pupil'[s] = row /\ \A t \in z.students \ {s} : pupil'[t] = pupil[t]
    BY DEF PlacementTypes, RowChanges
<1>2. ASSUME NEW r \in z.requests
      PROVE  /\ placing'[r] \in PlacingRows(z)
             /\ placing'[r].at = "looked" /\ placing'[r].valid =>
                  /\ placing[r].at = "looked" /\ placing[r].valid
                  /\ placing'[r].student = placing[r].student /\ placing'[r].place = placing[r].place
                  /\ placing'[r].student # s /\ placing'[r].overtaken
  <2> DEFINE q == placing[r]
  <2>1. q \in PlacingRows(z)
      BY DEF PlacementTypes
  <2>2. \/ placing'[r] = [at |-> "away"]
        \/ /\ q # [at |-> "away"]
           /\ placing'[r] = IF q.student = s THEN [q EXCEPT !.valid = FALSE]
                            ELSE [q EXCEPT !.overtaken = TRUE]
      BY DEF RowChanges
  <2> HIDE DEF q
  <2>3. CASE placing'[r] = [at |-> "away"]
      BY <2>3 DEF PlacingRows
  <2>4. CASE placing'[r] # [at |-> "away"]
    <3>1. q \in [at : {"looked"}, student : z.students, place : z.places, roll : z.rolls,
                 valid : BOOLEAN, overtaken : BOOLEAN]
        BY <2>1, <2>2, <2>4 DEF PlacingRows
    <3>2. CASE q.student = s
        BY <2>2, <2>4, <3>1, <3>2 DEF PlacingRows
    <3>3. CASE q.student # s
      <4>1. placing'[r] = [q EXCEPT !.overtaken = TRUE]
          BY <2>2, <2>4, <3>3
      <4>2. /\ placing'[r] \in PlacingRows(z) /\ placing'[r].overtaken
            /\ placing'[r].student = q.student /\ placing'[r].place = q.place
            /\ placing'[r].valid = q.valid
          BY <4>1, <3>1 DEF PlacingRows
      <4> QED
          BY <3>1, <3>3, <4>2 DEF q
    <3> QED
        BY <3>2, <3>3
  <2> QED
      BY <2>3, <2>4
<1>3. placing' \in [z.requests -> PlacingRows(z)]
    BY <1>2 DEF RowChanges
<1> QED
    BY <1>1, <1>2, <1>3

\* What was looked at still holds after a row has changed.
LEMMA ChangedLooks ==
  ASSUME NEW z, PlacementTypes(z), LooksHold(z), NEW s \in z.students, NEW row \in PupilRows(z),
         RowChanges(z, s, row)
  PROVE  LooksHold(z)'
<1>1. ASSUME NEW r \in z.requests, placing'[r].at = "looked", placing'[r].valid
      PROVE  pupil'[placing'[r].student].place \in {z.none, placing'[r].place} /\ placing'[r].overtaken
  <2>1. /\ placing[r].at = "looked" /\ placing[r].valid
        /\ placing'[r].student = placing[r].student /\ placing'[r].place = placing[r].place
        /\ placing'[r].student # s /\ placing'[r].overtaken
        /\ \A t \in z.students \ {s} : pupil'[t] = pupil[t]
      BY <1>1, ChangedRows
  <2>2. placing[r].student \in z.students
      BY <2>1 DEF PlacementTypes, PlacingRows
  <2> QED
      BY <2>1, <2>2 DEF LooksHold
<1> QED
    BY <1>1 DEF LooksHold

\* A row without a number, one whose number is as it was, and one whose number came along or
\* is written after a look needs no other explanation.
LEMMA ChangedRolls ==
  ASSUME NEW z, PlacementTypes(z), RollsHold(z), NEW s \in z.students,
         NEW row \in PupilRows(z), RowChanges(z, s, row),
         \/ row.roll = z.none \/ row.how # "seen"
         \/ row.place = pupil[s].place /\ row.roll = pupil[s].roll /\ row.how = pupil[s].how
         \/ ~Placements(z)!Clash(s, row.place, row.roll)
  PROVE  RollsHold(z)'
<1>1. pupil'[s] = row /\ \A t \in z.students \ {s} : pupil'[t] = pupil[t]
    BY ChangedRows
<1> QED
    BY <1>1 DEF RollsHold, Placements!Clash, Placements!Enrolled

\* A row is written so that its number is explained, and who gets to where promotions start
\* was moved there or is new.
RowStep(z) ==
  /\ UNCHANGED <<promotion, takes, promoter, promoted>> /\ moves' \in 0 .. z.maxMoves
  /\ moves <= moves'
  /\ \E s \in z.students, row \in PupilRows(z) :
       /\ RowChanges(z, s, row)
       /\ \/ row.roll = z.none \/ row.how # "seen"
          \/ row.place = pupil[s].place /\ row.roll = pupil[s].roll /\ row.how = pupil[s].how
          \/ ~Placements(z)!Clash(s, row.place, row.roll)
       /\ \/ moves' = moves + 1
          \/ moves' = moves /\ pupil[s].place \in {z.none, z.from}
          \/ moves' = moves /\ row.place \notin {z.none, z.from}
          \/ moves' = moves /\ row.place = pupil[s].place

\* The handlers that write a student's row without a look.
LEMMA RowsWritten ==
  ASSUME NEW z, PlacementSize(z), PlacementTypes(z), NEW s \in z.students,
         \/ \E place \in z.places : Placements(z)!Create(s, place) \/ Placements(z)!Update(s, place)
         \/ Placements(z)!ClearRoll(s) \/ Placements(z)!SetStatus(s) \/ Placements(z)!SoftDelete(s)
  PROVE  RowStep(z)
<1> USE DEF Placements!work
<1>1. pupil[s] \in PupilRows(z) /\ moves \in 0 .. z.maxMoves
    BY DEF PlacementTypes
<1> DEFINE was == pupil[s]
<1>2. ASSUME NEW place \in z.places, Placements(z)!Create(s, place)
      PROVE  /\ Placements(z)!Put(s, [place |-> place, roll |-> z.none, active |-> TRUE, how |-> "seen"])
             /\ [place |-> place, roll |-> z.none, active |-> TRUE, how |-> "seen"] \in PupilRows(z)
             /\ UNCHANGED <<moves, promotion, takes, promoter, promoted>> /\ was.place = z.none
    BY <1>2 DEF Placements!Create, PupilRows
<1>3. ASSUME NEW place \in z.places, Placements(z)!Update(s, place)
      PROVE  /\ Placements(z)!Put(s, [was EXCEPT !.place = place, !.how = "carried"])
             /\ [was EXCEPT !.place = place, !.how = "carried"] \in PupilRows(z)
             /\ [was EXCEPT !.place = place, !.how = "carried"].how # "seen"
             /\ UNCHANGED <<promotion, takes, promoter, promoted>> /\ moves' = moves + 1
             /\ moves' \in 0 .. z.maxMoves
  <2>1. moves < z.maxMoves /\ moves' = moves + 1
      BY <1>3 DEF Placements!Update
  <2>2. moves' \in 0 .. z.maxMoves
      BY <1>1, <2>1 DEF PlacementSize
  <2> QED
      BY <1>1, <1>3, <2>1, <2>2 DEF Placements!Update, PupilRows
<1>4. ASSUME Placements(z)!ClearRoll(s)
      PROVE  /\ Placements(z)!Put(s, [was EXCEPT !.roll = z.none])
             /\ [was EXCEPT !.roll = z.none] \in PupilRows(z)
             /\ [was EXCEPT !.roll = z.none].roll = z.none /\ [was EXCEPT !.roll = z.none].place = was.place
             /\ UNCHANGED <<moves, promotion, takes, promoter, promoted>>
    BY <1>1, <1>4 DEF Placements!ClearRoll, PupilRows
<1>5. ASSUME Placements(z)!SetStatus(s)
      PROVE  /\ Placements(z)!Put(s, [was EXCEPT !.active = ~@])
             /\ [was EXCEPT !.active = ~@] \in PupilRows(z)
             /\ [was EXCEPT !.active = ~@].roll = was.roll /\ [was EXCEPT !.active = ~@].place = was.place
             /\ [was EXCEPT !.active = ~@].how = was.how
             /\ UNCHANGED <<moves, promotion, takes, promoter, promoted>>
    BY <1>1, <1>5 DEF Placements!SetStatus, PupilRows
<1>6. ASSUME Placements(z)!SoftDelete(s)
      PROVE  /\ Placements(z)!Put(s, Placements(z)!NoStudent("deleted"))
             /\ Placements(z)!NoStudent("deleted") \in PupilRows(z)
             /\ Placements(z)!NoStudent("deleted").roll = z.none
             /\ Placements(z)!NoStudent("deleted").place \notin {z.none, z.from}
             /\ UNCHANGED <<moves, promotion, takes, promoter, promoted>>
    BY <1>1, <1>6 DEF Placements!SoftDelete, Placements!NoStudent, PupilRows, PlacementSize
<1>7. \A row : Placements(z)!Put(s, row) => RowChanges(z, s, row)
    BY PutChanges
<1>8. moves \in Nat /\ moves <= moves + 1 /\ moves <= moves
    BY <1>1
<1> HIDE DEF was
<1>9. CASE \E place \in z.places : Placements(z)!Create(s, place)
    BY <1>1, <1>2, <1>7, <1>8, <1>9 DEF was, RowStep
<1>10. CASE \E place \in z.places : Placements(z)!Update(s, place)
    BY <1>3, <1>7, <1>8, <1>10 DEF RowStep
<1>11. CASE Placements(z)!ClearRoll(s)
    BY <1>1, <1>4, <1>7, <1>8, <1>11 DEF was, RowStep
<1>12. CASE Placements(z)!SetStatus(s)
    BY <1>1, <1>5, <1>7, <1>8, <1>12 DEF was, RowStep
<1>13. CASE Placements(z)!SoftDelete(s)
    BY <1>1, <1>6, <1>7, <1>8, <1>13 DEF RowStep
<1> QED
    BY <1>9, <1>10, <1>11, <1>12, <1>13

\* The number that was looked for is written.
LEMMA RollWritten ==
  ASSUME NEW z, PlacementSize(z), PlacementTypes(z), LooksHold(z), NEW r \in z.requests,
         Placements(z)!WriteRoll(r)
  PROVE  RowStep(z)
<1> DEFINE q == placing[r]
           was == pupil[q.student]
           row == [place |-> q.place, roll |-> q.roll, active |-> was.place = z.none \/ was.active,
                   how |-> IF q.overtaken THEN "blind" ELSE "seen"]
<1>1. /\ q.at = "looked" /\ q.valid
      /\ pupil' = [pupil EXCEPT ![q.student] = row]
      /\ placing' = [p \in z.requests |->
           IF p = r \/ placing[p] = [at |-> "away"] THEN [at |-> "away"]
           ELSE IF placing[p].student = q.student THEN [placing[p] EXCEPT !.valid = FALSE]
           ELSE [placing[p] EXCEPT !.overtaken = TRUE]]
      /\ UNCHANGED <<moves, promotion, takes, promoter, promoted>>
    BY DEF Placements!WriteRoll, Placements!work, Placements!Away
<1>2. q.student \in z.students /\ q.place \in z.places /\ q.roll \in z.rolls /\ q.overtaken \in BOOLEAN
    BY <1>1 DEF PlacementTypes, PlacingRows
<1>3. was.active \in BOOLEAN /\ moves \in 0 .. z.maxMoves
    BY <1>2 DEF PlacementTypes, PupilRows
<1>4. /\ was.place \in {z.none, q.place}
      /\ ~q.overtaken => ~Placements(z)!Clash(q.student, q.place, q.roll)
    BY <1>1 DEF LooksHold
<1> HIDE DEF q, was
<1>5. row \in PupilRows(z)
    BY <1>2, <1>3 DEF PupilRows
<1>6. RowChanges(z, q.student, row)
    BY <1>1 DEF RowChanges
<1>7. row.how # "seen" \/ ~Placements(z)!Clash(q.student, row.place, row.roll)
    BY <1>2, <1>4
<1>8. moves' = moves /\ (was.place \in {z.none, z.from} \/ row.place = was.place)
    BY <1>1, <1>4
<1>9. moves' \in 0 .. z.maxMoves /\ moves <= moves'
    BY <1>1, <1>3
<1> HIDE DEF row
<1> QED
    BY <1>1, <1>2, <1>5, <1>6, <1>7, <1>8, <1>9 DEF RowStep, was

\* The passes count on when one of them, j, begins, goes on or ends, and may be reported.
LEMMA PassesGoOn ==
  ASSUME NEW z, PlacementSize(z), PlacementTypes(z), PassesCount(z), takes' \in {takes, takes + 1},
         NEW j, \A i : i # j => ByPass(z, promoted', i) = ByPass(z, promoted, i),
         NEW w \in z.workers, NEW k, promoter' = [promoter EXCEPT ![w] = k],
         k.at = "pass" => k.pass = j /\ PassHolds(z, takes', promoted', k),
         \A v \in z.workers \ {w} : promoter[v].at = "pass" => promoter[v].pass # j,
         promotion'.status = "COMPLETED" =>
           \/ UNCHANGED promotion /\ promotion.pass # j
           \/ ReportHolds(z, takes', promoted', promotion') /\ promotion'.pass = j /\ k.at # "pass"
  PROVE  PassesCount(z)'
<1>1. takes \in Nat /\ takes' \in Nat /\ takes <= takes'
    BY DEF PlacementTypes, PlacementSize
<1>2. promoter'[w] = k /\ \A v \in z.workers \ {w} : promoter'[v] = promoter[v]
    BY DEF PlacementTypes
<1>3. ASSUME NEW v \in z.workers, promoter'[v].at = "pass"
      PROVE  PassHolds(z, takes', promoted', promoter'[v])
  <2>1. CASE v = w
      BY <1>2, <1>3, <2>1
  <2>2. CASE v # w
    <3>1. promoter'[v] = promoter[v] /\ promoter[v].pass # j /\ PassHolds(z, takes, promoted, promoter[v])
        BY <1>2, <1>3, <2>2 DEF PassesCount
    <3>2. ByPass(z, promoted', promoter[v].pass) = ByPass(z, promoted, promoter[v].pass)
        BY <3>1
    <3> QED
        BY <1>1, <3>1, <3>2 DEF PassHolds
  <2> QED
      BY <2>1, <2>2
<1>4. ASSUME NEW u \in z.workers, NEW v \in z.workers, promoter'[u].at = "pass",
             promoter'[v].at = "pass", u # v
      PROVE  promoter'[u].pass # promoter'[v].pass
    BY <1>2, <1>4 DEF PassesCount
<1>5. ASSUME promotion'.status = "COMPLETED"
      PROVE  /\ ReportHolds(z, takes', promoted', promotion')
             /\ \A v \in z.workers : promoter'[v].at = "pass" => promoter'[v].pass # promotion'.pass
  <2>1. CASE promotion' = promotion /\ promotion.pass # j
    <3>1. ReportHolds(z, takes, promoted, promotion)
        BY <1>5, <2>1 DEF PassesCount
    <3>2. ByPass(z, promoted', promotion.pass) = ByPass(z, promoted, promotion.pass)
        BY <2>1
    <3>3. ReportHolds(z, takes', promoted', promotion')
        BY <1>1, <2>1, <3>1, <3>2 DEF ReportHolds
    <3> QED
        BY <1>2, <1>5, <2>1, <3>3 DEF PassesCount
  <2>2. CASE ReportHolds(z, takes', promoted', promotion') /\ promotion'.pass = j /\ k.at # "pass"
      BY <1>2, <2>2
  <2> QED
      BY <1>5, <2>1, <2>2
<1> QED
    BY <1>3, <1>4, <1>5 DEF PassesCount

\* The promotions of a student are finitely many.
LEMMA PromotionsAreFinite ==
  ASSUME NEW z, PlacementSize(z), PlacementTypes(z), NEW s
  PROVE  IsFiniteSet(OfStudent(z, promoted, s)) /\ Cardinality(OfStudent(z, promoted, s)) \in Nat
<1>0. takes \in Int /\ Len(z.targets) \in Int
    BY DEF PlacementTypes, PlacementSize
<1>1. IsFiniteSet(1 .. takes) /\ IsFiniteSet(1 .. Len(z.targets))
    BY <1>0, FS_Interval
<1>2. IsFiniteSet((1 .. takes) \X (1 .. Len(z.targets)))
    BY <1>1, FS_Product
<1> QED
    BY <1>2, FS_Subset, FS_CardinalityType DEF PlacementTypes, OfStudent

\* A row that is written keeps the invariant.
LEMMA RowStepKeeps ==
  ASSUME NEW z, PlacementSize(z), PlacementInv(z), RowStep(z)
  PROVE  PlacementInv(z)'
<1> USE DEF PlacementInv
<1>1. PICK s \in z.students, row \in PupilRows(z) :
        /\ RowChanges(z, s, row)
        /\ \/ row.roll = z.none \/ row.how # "seen"
           \/ row.place = pupil[s].place /\ row.roll = pupil[s].roll /\ row.how = pupil[s].how
           \/ ~Placements(z)!Clash(s, row.place, row.roll)
        /\ \/ moves' = moves + 1
           \/ moves' = moves /\ pupil[s].place \in {z.none, z.from}
           \/ moves' = moves /\ row.place \notin {z.none, z.from}
           \/ moves' = moves /\ row.place = pupil[s].place
    BY DEF RowStep
<1>2. /\ pupil' \in [z.students -> PupilRows(z)] /\ placing' \in [z.requests -> PlacingRows(z)]
      /\ pupil'[s] = row /\ \A t \in z.students \ {s} : pupil'[t] = pupil[t]
    BY <1>1, ChangedRows
<1>3. /\ UNCHANGED <<promotion, takes, promoter, promoted>> /\ moves' \in 0 .. z.maxMoves
      /\ moves <= moves'
    BY DEF RowStep
<1>4. PlacementTypes(z)'
    BY <1>2, <1>3 DEF PlacementTypes, PupilRows, PlacingRows
<1>5. LooksHold(z)'
    BY <1>1, ChangedLooks
<1>6. RollsHold(z)'
    BY <1>1, ChangedRolls
<1>7. PassesCount(z)'
    BY <1>3 DEF PassesCount
<1>8. ASSUME NEW t \in z.students
      PROVE  Cardinality(OfStudent(z, promoted', t))
               + (IF pupil'[t].place \in {z.none, z.from} THEN 1 ELSE 0) <= 1 + moves'
  <2>1. OfStudent(z, promoted', t) = OfStudent(z, promoted, t)
      BY <1>3
  <2>2. Cardinality(OfStudent(z, promoted, t)) \in Nat /\ moves \in Nat /\ moves' \in Nat
      BY PromotionsAreFinite, <1>3 DEF PlacementTypes
  <2>3. Cardinality(OfStudent(z, promoted, t))
          + (IF pupil[t].place \in {z.none, z.from} THEN 1 ELSE 0) <= 1 + moves
      BY DEF MovesAllow
  <2>4. \/ t # s /\ pupil'[t].place = pupil[t].place
        \/ t = s /\ pupil'[t].place = row.place
      BY <1>2
  <2> QED
      BY <1>1, <1>3, <2>1, <2>2, <2>3, <2>4
<1>9. MovesAllow(z)'
    BY <1>8 DEF MovesAllow
<1> QED
    BY <1>4, <1>5, <1>6, <1>7, <1>9

\* A pass that promotes a student goes on to the next.
LEMMA PassMovesOn ==
  ASSUME NEW k \in [at : {"pass"}, pass : Nat, done : Nat, succeeded : Nat]
  PROVE  [k EXCEPT !.done = @ + 1, !.succeeded = @ + 1]
           = [at |-> "pass", pass |-> k.pass, done |-> k.done + 1, succeeded |-> k.succeeded + 1]
<1> DEFINE e == [k EXCEPT !.done = @ + 1, !.succeeded = @ + 1]
<1>1. DOMAIN e = {"at", "pass", "done", "succeeded"}
    OBVIOUS
<1>2. e.at = "pass" /\ e.pass = k.pass /\ e.done = k.done + 1 /\ e.succeeded = k.succeeded + 1
    OBVIOUS
<1>3. e = [x \in DOMAIN e |-> e[x]]
    OBVIOUS
<1> HIDE DEF e
<1>4. e = [at |-> "pass", pass |-> k.pass, done |-> k.done + 1, succeeded |-> k.succeeded + 1]
    BY <1>1, <1>2, <1>3
<1> QED
    BY <1>4 DEF e

\* Who promotes the next student moves a row; who fails to only counts it.
LEMMA PromotionKeeps ==
  ASSUME NEW z, PlacementSize(z), PlacementInv(z), NEW w \in z.workers, Placements(z)!Promote(w)
  PROVE  PlacementInv(z)'
<1> USE DEF PlacementInv
<1> DEFINE k == promoter[w]
           n == k.done + 1
           s == z.targets[n]
           row == [pupil[s] EXCEPT !.place = z.to, !.how = "carried"]
<1>1. /\ k.at = "pass" /\ k.done < Len(z.targets)
      /\ UNCHANGED <<moves, promotion, takes>>
      /\ \/ /\ Placements(z)!Eligible(s) /\ Placements(z)!Put(s, row)
            /\ promoted' = promoted \cup {<<k.pass, n>>}
            /\ promoter' = [promoter EXCEPT ![w] = [k EXCEPT !.done = @ + 1, !.succeeded = @ + 1]]
         \/ /\ promoter' = [promoter EXCEPT ![w] = [k EXCEPT !.done = @ + 1]]
            /\ UNCHANGED <<pupil, placing, promoted>>
    BY DEF Placements!Promote, Placements!Goto
<1>2. k \in [at : {"pass"}, pass : Nat, done : Nat, succeeded : Nat]
    BY <1>1 DEF PlacementTypes, PassRows
<1>3. /\ k.pass \in 1 .. takes /\ n \in 1 .. Len(z.targets) /\ s \in z.students
      /\ takes \in Nat /\ Len(z.targets) \in Nat
    BY <1>1, <1>2 DEF PassesCount, PassHolds, PlacementTypes, PlacementSize
<1>6. /\ PassHolds(z, takes, promoted, k)
      /\ \A v \in z.workers \ {w} : promoter[v].at = "pass" => promoter[v].pass # k.pass
      /\ promotion.status = "COMPLETED" => promotion.pass # k.pass
    BY <1>1 DEF PassesCount
<1> HIDE DEF k
<1>4. CASE UNCHANGED <<pupil, placing, promoted>>
           /\ promoter' = [promoter EXCEPT ![w] = [k EXCEPT !.done = @ + 1]]
  <2>0. [k EXCEPT !.done = @ + 1] = [at |-> "pass", pass |-> k.pass, done |-> n, succeeded |-> k.succeeded]
      BY <1>2
  <2>1. promoter' = [promoter EXCEPT ![w] = [at |-> "pass", pass |-> k.pass, done |-> n,
                                            succeeded |-> k.succeeded]]
      BY <2>0, <1>4
  <2> HIDE DEF n, s, row
  <2>2. n \in Nat
      BY <1>3
  <2>3. PlacementTypes(z)'
    <3>1. [at |-> "pass", pass |-> k.pass, done |-> n, succeeded |-> k.succeeded] \in PassRows
        BY <1>2, <2>2 DEF PassRows
    <3>2. PlacementTypes(z)
        OBVIOUS
    <3> HIDE DEF PlacementInv
    <3>3. promoter' \in [z.workers -> PassRows]
        BY <2>1, <3>1, <3>2 DEF PlacementTypes
    <3>4. UNCHANGED <<pupil, placing, promoted, moves, promotion, takes>>
        BY <1>1, <1>4
    <3> QED
        BY <3>2, <3>3, <3>4 DEF PlacementTypes
  <2>4. LooksHold(z)' /\ RollsHold(z)'
      BY <1>4 DEF LooksHold, RollsHold, Placements!Clash, Placements!Enrolled
  <2>5. PassesCount(z)'
    <3> DEFINE after == [at |-> "pass", pass |-> k.pass, done |-> n, succeeded |-> k.succeeded]
    <3>1. k.succeeded <= n /\ \A i \in ByPass(z, promoted, k.pass) : i <= n
        BY <1>2, <1>6 DEF PassHolds, ByPass, n
    <3>2. PassHolds(z, takes', promoted', after)
        BY <1>1, <1>3, <1>4, <1>6, <3>1 DEF PassHolds
    <3>3. after.at = "pass" /\ after.pass = k.pass
        OBVIOUS
    <3>4. promoter' = [promoter EXCEPT ![w] = after]
        BY <2>1
    <3>5. \A i : i # k.pass => ByPass(z, promoted', i) = ByPass(z, promoted, i)
        BY <1>4
    <3>6. takes' \in {takes, takes + 1}
        BY <1>1
    <3>7. promotion'.status = "COMPLETED" => UNCHANGED promotion /\ promotion.pass # k.pass
        BY <1>1, <1>6
    <3> HIDE DEF after
    <3> QED
        BY <1>6, <3>2, <3>3, <3>4, <3>5, <3>6, <3>7, PassesGoOn
  <2>6. MovesAllow(z)'
      BY <1>1, <1>4 DEF MovesAllow
  <2> QED
      BY <2>3, <2>4, <2>5, <2>6
<1>5. CASE /\ Placements(z)!Eligible(s) /\ Placements(z)!Put(s, row)
           /\ promoted' = promoted \cup {<<k.pass, n>>}
           /\ promoter' = [promoter EXCEPT ![w] = [k EXCEPT !.done = @ + 1, !.succeeded = @ + 1]]
  <2>0. [k EXCEPT !.done = @ + 1, !.succeeded = @ + 1]
          = [at |-> "pass", pass |-> k.pass, done |-> n, succeeded |-> k.succeeded + 1]
      BY <1>2, PassMovesOn
  <2>1. promoter' = [promoter EXCEPT ![w] = [at |-> "pass", pass |-> k.pass, done |-> n,
                                            succeeded |-> k.succeeded + 1]]
      BY <2>0, <1>5
  <2>2. pupil[s] \in PupilRows(z) /\ pupil[s].place = z.from
      BY <1>3, <1>5 DEF PlacementTypes, Placements!Eligible
  <2>3. row \in PupilRows(z) /\ row.how = "carried" /\ row.place = z.to
      BY <2>2 DEF PupilRows, PlacementSize
  <2>4. n \in Nat /\ k.pass \in Nat /\ s = z.targets[n]
      BY <1>3
  <2> HIDE DEF n, s, row
  <2>5. RowChanges(z, s, row)
      BY <1>5, PutChanges
  <2>6. /\ pupil' \in [z.students -> PupilRows(z)] /\ placing' \in [z.requests -> PlacingRows(z)]
        /\ pupil'[s] = row /\ \A t \in z.students \ {s} : pupil'[t] = pupil[t]
      BY <1>3, <2>3, <2>5, ChangedRows
  <2>7. promoter' \in [z.workers -> PassRows]
      BY <1>2, <2>1, <2>4 DEF PlacementTypes, PassRows
  <2>8. promoted' \subseteq (1 .. takes') \X (1 .. Len(z.targets))
      BY <1>1, <1>3, <1>5 DEF PlacementTypes
  <2>9. PlacementTypes(z)'
      BY <1>1, <2>6, <2>7, <2>8 DEF PlacementTypes
  <2>10. LooksHold(z)'
      BY <1>3, <2>3, <2>5, ChangedLooks
  <2>11. RollsHold(z)'
      BY <1>3, <2>3, <2>5, ChangedRolls
  <2>12. PassesCount(z)'
    <3>1. /\ ByPass(z, promoted', k.pass) = ByPass(z, promoted, k.pass) \cup {n}
          /\ \A j : j # k.pass => ByPass(z, promoted', j) = ByPass(z, promoted, j)
        BY <1>3, <1>5, <2>4 DEF ByPass
    <3>2. n \notin ByPass(z, promoted, k.pass)
        BY <1>2, <1>6 DEF PassHolds, n
    <3>3. IsFiniteSet(ByPass(z, promoted, k.pass))
      <4>1. ByPass(z, promoted, k.pass) \subseteq 1 .. Len(z.targets)
          BY DEF ByPass
      <4>2. IsFiniteSet(1 .. Len(z.targets))
          BY <1>3, FS_Interval
      <4> QED
          BY <4>1, <4>2, FS_Subset
    <3>4. k.succeeded + 1 = Cardinality(ByPass(z, promoted', k.pass))
      <4>1. k.succeeded = Cardinality(ByPass(z, promoted, k.pass))
          BY <1>6 DEF PassHolds
      <4> QED
          BY <3>1, <3>2, <3>3, <4>1, FS_AddElement
    <3>5. k.succeeded <= k.done /\ \A i \in ByPass(z, promoted, k.pass) : i \in Nat /\ i <= k.done
        BY <1>6 DEF PassHolds, ByPass
    <3>6. k.succeeded + 1 <= n /\ \A i \in ByPass(z, promoted', k.pass) : i <= n
        BY <1>2, <3>1, <3>5 DEF n
    <3> DEFINE after == [at |-> "pass", pass |-> k.pass, done |-> n, succeeded |-> k.succeeded + 1]
    <3>7. PassHolds(z, takes', promoted', after)
        BY <1>1, <1>3, <3>4, <3>6 DEF PassHolds
    <3>8. after.at = "pass" /\ after.pass = k.pass
        OBVIOUS
    <3>9. promoter' = [promoter EXCEPT ![w] = after]
        BY <2>1
    <3> HIDE DEF after
    <3> QED
        BY <1>1, <1>6, <3>1, <3>7, <3>8, <3>9, PassesGoOn
  <2>13. MovesAllow(z)'
    <3> DEFINE before == OfStudent(z, promoted, s)
               after == before \cup {<<k.pass, n>>}
    <3>1. /\ OfStudent(z, promoted', s) = after
          /\ \A t \in z.students \ {s} : OfStudent(z, promoted', t) = OfStudent(z, promoted, t)
      <4>1. <<k.pass, n>>[2] = n
          OBVIOUS
      <4> QED
          BY <1>5, <2>4, <4>1 DEF OfStudent
    <3>2. IsFiniteSet(before) /\ Cardinality(before) \in Nat /\ moves \in Nat
        BY PromotionsAreFinite DEF PlacementTypes
    <3>3. Cardinality(before) + 1 <= 1 + moves
        BY <1>3, <2>2 DEF MovesAllow
    <3>4. pupil'[s].place \notin {z.none, z.from}
        BY <2>3, <2>6 DEF PlacementSize
    <3> HIDE DEF before
    <3>5. Cardinality(after) <= Cardinality(before) + 1 /\ Cardinality(after) \in Nat
        BY <3>2, FS_AddElement, FS_CardinalityType
    <3>6. Cardinality(OfStudent(z, promoted', s)) + 0 <= 1 + moves
        BY <3>1, <3>2, <3>3, <3>5
    <3>7. ASSUME NEW t \in z.students
          PROVE  Cardinality(OfStudent(z, promoted', t))
                   + (IF pupil'[t].place \in {z.none, z.from} THEN 1 ELSE 0) <= 1 + moves
      <4>1. CASE t = s
          BY <3>4, <3>6, <4>1
      <4>2. CASE t # s
          BY <2>6, <3>1, <4>2 DEF MovesAllow
      <4> QED
          BY <4>1, <4>2
    <3> QED
        BY <1>1, <3>7 DEF MovesAllow
  <2> QED
      BY <2>9, <2>10, <2>11, <2>12, <2>13
<1> QED
    BY <1>1, <1>4, <1>5

\* Every step of a placement keeps the invariant.
LEMMA PlacementKeeps ==
  ASSUME NEW z, PlacementSize(z), PlacementInv(z), [Placements(z)!Next]_placeVars
  PROVE  PlacementInv(z)'
<1> USE DEF PlacementInv, Placements!Away, Placements!work, Placements!Goto
<1>1. CASE UNCHANGED placeVars
  <2>1. UNCHANGED <<pupil, placing, moves, promotion, takes, promoter, promoted>>
      BY <1>1 DEF placeVars
  <2>2. PlacementTypes(z)' /\ LooksHold(z)' /\ RollsHold(z)'
      BY <2>1 DEF PlacementTypes, LooksHold, RollsHold, Placements!Clash, Placements!Enrolled
  <2>3. PassesCount(z)' /\ MovesAllow(z)'
      BY <2>1 DEF PassesCount, MovesAllow
  <2> QED
      BY <2>2, <2>3
<1>2. ASSUME NEW r \in z.requests, NEW s \in z.students, NEW place \in z.places, NEW number \in z.rolls,
             Placements(z)!Look(r, s, place, number)
      PROVE  PlacementInv(z)'
  <2> USE <1>2 DEF Placements!Look
  <2>1. PlacementTypes(z)'
      BY DEF PlacementTypes, PlacingRows
  <2>2. LooksHold(z)'
      BY DEF LooksHold, PlacementTypes, Placements!Clash, Placements!Enrolled
  <2>3. RollsHold(z)'
      BY DEF RollsHold
  <2>4. PassesCount(z)' /\ MovesAllow(z)'
      BY DEF PassesCount, MovesAllow
  <2> QED
      BY <2>1, <2>2, <2>3, <2>4
<1>3. ASSUME NEW r \in z.requests, Placements(z)!Fail(r) PROVE PlacementInv(z)'
  <2> USE <1>3 DEF Placements!Fail
  <2>1. PlacementTypes(z)'
      BY DEF PlacementTypes, PlacingRows
  <2>2. LooksHold(z)'
      BY DEF LooksHold, PlacementTypes, Placements!Clash, Placements!Enrolled
  <2>3. RollsHold(z)'
      BY DEF RollsHold
  <2>4. PassesCount(z)' /\ MovesAllow(z)'
      BY DEF PassesCount, MovesAllow
  <2> QED
      BY <2>1, <2>2, <2>3, <2>4
<1>4. ASSUME NEW r \in z.requests, Placements(z)!WriteRoll(r) PROVE PlacementInv(z)'
    BY <1>4, RollWritten, RowStepKeeps
<1>5. ASSUME NEW s \in z.students,
             \/ \E place \in z.places : Placements(z)!Create(s, place) \/ Placements(z)!Update(s, place)
             \/ Placements(z)!ClearRoll(s) \/ Placements(z)!SetStatus(s) \/ Placements(z)!SoftDelete(s)
      PROVE  PlacementInv(z)'
    BY <1>5, RowsWritten, RowStepKeeps
<1>6. ASSUME UNCHANGED <<pupil, placing, moves, promoted>>, PlacementTypes(z)', PassesCount(z)'
      PROVE  PlacementInv(z)'
  <2>1. LooksHold(z)' /\ RollsHold(z)'
      BY <1>6 DEF LooksHold, RollsHold, Placements!Clash, Placements!Enrolled
  <2>2. MovesAllow(z)'
      BY <1>6 DEF MovesAllow
  <2> QED
      BY <1>6, <2>1, <2>2
<1>7. CASE Placements(z)!CreateExecute
  <2> USE <1>7 DEF Placements!CreateExecute
  <2>1. PlacementTypes(z)'
      BY DEF PlacementTypes
  <2>2. promotion.status = "none" /\ promotion'.status # "COMPLETED"
      BY DEF PlacementTypes
  <2>3. PassesCount(z)'
      BY <2>2 DEF PassesCount, PassHolds
  <2> QED
      BY <1>6, <2>1, <2>3
<1>8. ASSUME NEW w \in z.workers, Placements(z)!Take(w) PROVE PlacementInv(z)'
  <2> USE <1>8 DEF Placements!Take
  <2>1. PlacementTypes(z)'
      BY DEF PlacementTypes, PlacementSize, PassRows
  <2>2. ByPass(z, promoted, takes + 1) = {}
      BY DEF ByPass, PlacementTypes, PlacementSize
  <2>3. Cardinality(ByPass(z, promoted, takes + 1)) = 0
      BY <2>2, FS_EmptySet
  <2> DEFINE k == IF promotion.status = "EXECUTING"
                  THEN [at |-> "pass", pass |-> takes + 1, done |-> 0, succeeded |-> 0]
                  ELSE [at |-> "away"]
  <2>4. /\ promoter' = [promoter EXCEPT ![w] = k] /\ takes' = takes + 1
        /\ UNCHANGED <<pupil, placing, moves, promoted, promotion>>
      BY DEF Placements!Take
  <2>5. takes \in Nat /\ Len(z.targets) \in Nat
      BY DEF PlacementTypes, PlacementSize
  <2>6. ASSUME k.at = "pass" PROVE k.pass = takes + 1 /\ PassHolds(z, takes', promoted', k)
    <3>1. k = [at |-> "pass", pass |-> takes + 1, done |-> 0, succeeded |-> 0]
        BY <2>6
    <3>2. ByPass(z, promoted', takes + 1) = {}
        BY <2>2, <2>4
    <3>3. /\ k.pass \in 1 .. takes' /\ k.done \in 0 .. Len(z.targets) /\ k.succeeded <= k.done
          /\ k.succeeded = 0 /\ k.pass = takes + 1
        BY <3>1, <2>4, <2>5
    <3> HIDE DEF k
    <3> QED
        BY <3>2, <3>3, <2>2, <2>3 DEF PassHolds
  <2>7. \A v \in z.workers \ {w} : promoter[v].at = "pass" => promoter[v].pass # takes + 1
    <3>1. \A v \in z.workers : promoter[v].at = "pass" => promoter[v].pass \in 1 .. takes
        BY DEF PassesCount, PassHolds
    <3> QED
        BY <2>5, <3>1
  <2>8. promotion.status = "COMPLETED" => promotion.pass # takes + 1
    <3>1. promotion.status = "COMPLETED" => promotion.pass \in 1 .. takes
        BY DEF PassesCount, ReportHolds
    <3> QED
        BY <2>5, <3>1
  <2> DEFINE j == takes + 1
  <2>9. /\ \A i : i # j => ByPass(z, promoted', i) = ByPass(z, promoted, i)
        /\ takes' \in {takes, takes + 1}
        /\ k.at = "pass" => k.pass = j /\ PassHolds(z, takes', promoted', k)
        /\ \A v \in z.workers \ {w} : promoter[v].at = "pass" => promoter[v].pass # j
        /\ promotion'.status = "COMPLETED" => UNCHANGED promotion /\ promotion.pass # j
      BY <2>4, <2>6, <2>7, <2>8
  <2> HIDE DEF k, j, Placements!Take
  <2>10. PassesCount(z)'
      BY <2>4, <2>9, PassesGoOn
  <2> QED
      BY <1>6, <2>1, <2>4, <2>10
<1>9. ASSUME NEW w \in z.workers, Placements(z)!Promote(w) PROVE PlacementInv(z)'
    BY <1>9, PromotionKeeps
<1>10. ASSUME NEW w \in z.workers, promoter[w].at = "pass", UNCHANGED <<takes, promoted>>,
              promoter' = [promoter EXCEPT ![w] = [at |-> "away"]],
              promotion'.status = "COMPLETED" =>
                \/ UNCHANGED promotion
                \/ /\ promotion'.pass = promoter[w].pass
                   /\ ReportHolds(z, takes, promoted, promotion')
       PROVE  PassesCount(z)'
  <2>1. /\ \A v \in z.workers \ {w} : promoter[v].at = "pass" => promoter[v].pass # promoter[w].pass
        /\ promotion.status = "COMPLETED" => promotion.pass # promoter[w].pass
      BY <1>10 DEF PassesCount
  <2> DEFINE k == [at |-> "away"]
             j == promoter[w].pass
  <2>2. k.at # "pass"
      OBVIOUS
  <2>3. promotion'.status = "COMPLETED" =>
           \/ UNCHANGED promotion /\ promotion.pass # j
           \/ ReportHolds(z, takes', promoted', promotion') /\ promotion'.pass = j /\ k.at # "pass"
      BY <1>10, <2>1, <2>2
  <2>4. /\ \A i : i # j => ByPass(z, promoted', i) = ByPass(z, promoted, i)
        /\ takes' \in {takes, takes + 1} /\ promoter' = [promoter EXCEPT ![w] = k]
        /\ \A v \in z.workers \ {w} : promoter[v].at = "pass" => promoter[v].pass # j
      BY <1>10, <2>1
  <2> HIDE DEF k, j
  <2> QED
      BY <2>2, <2>3, <2>4, PassesGoOn
<1>11. ASSUME NEW w \in z.workers, Placements(z)!MarkCompleted(w) PROVE PlacementInv(z)'
  <2> USE <1>11 DEF Placements!MarkCompleted
  <2>1. PlacementTypes(z)'
      BY DEF PlacementTypes, PassRows
  <2> DEFINE k == promoter[w]
  <2>2. /\ k.at = "pass" /\ k.done = Len(z.targets) /\ PassHolds(z, takes, promoted, k)
        /\ promoter' = [promoter EXCEPT ![w] = [at |-> "away"]]
        /\ promotion' = [status |-> "COMPLETED", succeeded |-> k.succeeded,
                         failed |-> k.done - k.succeeded, pass |-> k.pass]
        /\ UNCHANGED <<takes, promoted>>
      BY DEF PassesCount
  <2>3. k \in [at : {"pass"}, pass : Nat, done : Nat, succeeded : Nat]
      BY <2>2 DEF PlacementTypes, PassRows
  <2> HIDE DEF k
  <2>4. /\ promotion'.pass = k.pass /\ promotion'.succeeded = k.succeeded
        /\ promotion'.succeeded + promotion'.failed = Len(z.targets)
      BY <2>2, <2>3
  <2>5. ReportHolds(z, takes, promoted, promotion')
      BY <2>2, <2>4 DEF PassHolds, ReportHolds
  <2>6. PassesCount(z)'
      BY <1>10, <2>2, <2>4, <2>5 DEF k
  <2> QED
      BY <1>6, <2>1, <2>6
<1>12. ASSUME NEW w \in z.workers, Placements(z)!MarkFailed(w) PROVE PlacementInv(z)'
  <2> USE <1>12 DEF Placements!MarkFailed
  <2>1. PlacementTypes(z)'
      BY DEF PlacementTypes, PassRows
  <2>2. promotion'.status = "COMPLETED" => UNCHANGED promotion
      BY DEF PlacementTypes
  <2>3. PassesCount(z)'
      BY <1>10, <2>2
  <2> QED
      BY <1>6, <2>1, <2>3
<1>13. ASSUME NEW w \in z.workers, Placements(z)!Die(w) PROVE PlacementInv(z)'
  <2> USE <1>13 DEF Placements!Die
  <2>1. PlacementTypes(z)'
      BY DEF PlacementTypes, PassRows
  <2>2. promoter[w].at = "pass"
      BY DEF PlacementTypes, PassRows
  <2>3. PassesCount(z)'
      BY <1>10, <2>2
  <2> QED
      BY <1>6, <2>1, <2>3
<1> QED
    BY <1>1, <1>2, <1>3, <1>4, <1>5, <1>7, <1>8, <1>9, <1>11, <1>12, <1>13 DEF Placements!Next

\* What the invariant of placements says of their properties.
LEMMA PlacementShows ==
  ASSUME NEW z, PlacementSize(z), PlacementInv(z)
  PROVE  /\ Placements(z)!TypeOK /\ Placements(z)!RollsAreExplained /\ Placements(z)!PromotionAddsUp
<1> USE DEF PlacementInv
<1>1. Placements(z)!TypeOK
    BY DEF PlacementTypes, PupilRows, PlacingRows, PassRows, PlacementSize, Placements!TypeOK
<1>2. Placements(z)!RollsAreExplained
    BY DEF RollsHold, PlacementTypes, PupilRows, Placements!RollsAreExplained, Placements!Enrolled
<1>3. Placements(z)!PromotionAddsUp
  <2>1. ASSUME NEW s \in z.students PROVE Cardinality(OfStudent(z, promoted, s)) <= 1 + moves
    <3>1. Cardinality(OfStudent(z, promoted, s)) \in Nat /\ moves \in Nat
        BY PromotionsAreFinite DEF PlacementTypes
    <3> QED
        BY <3>1 DEF MovesAllow
  <2>2. /\ \A j : Placements(z)!PromotedBy(j) = ByPass(z, promoted, j)
        /\ \A s : Placements(z)!PromotionsOf(s) = OfStudent(z, promoted, s)
      BY DEF Placements!PromotedBy, Placements!PromotionsOf, ByPass, OfStudent
  <2>3. promotion.status = "COMPLETED" => ReportHolds(z, takes, promoted, promotion)
      BY DEF PassesCount
  <2> QED
      BY <2>1, <2>2, <2>3, PlacementCardinality DEF ReportHolds, Placements!PromotionAddsUp
<1> QED
    BY <1>1, <1>2, <1>3

-----------------------------------------------------------------------------
(* The run of a report                                                     *)

RunnerRows == [at : {"starting", "working", "attaching", "telling", "failing"}, take : Nat \ {0}]

Works(w) == runner[w].at \in {"working", "attaching", "failing", "telling"}

\* A take is one worker's; its file is there from the upload on, and a take that fails
\* with a file was refused.
TakesAreKnown(z) ==
  /\ run \in [status : {"PENDING", "RUNNING", "SUCCEEDED", "FAILED", "CANCELLED"}, deleted : BOOLEAN,
              file : Nat \cup {z.noFile}]
  /\ tries \in 0 .. z.maxTakes /\ files \subseteq 1 .. tries /\ cut \subseteq 1 .. tries
  /\ told \subseteq {"ready", "failed"} /\ refused \subseteq files
  /\ run.file \in files \cup {z.noFile}
  /\ DOMAIN runner = z.workers
  /\ \A w \in z.workers : runner[w] = [at |-> "idle"] \/ runner[w] \in RunnerRows
  /\ \A w \in z.workers : runner[w].at # "idle" =>
       /\ runner[w].take \in 1 .. tries
       /\ \A v \in z.workers \ {w} : runner[v].at = "idle" \/ runner[v].take # runner[w].take
       /\ runner[w].at \in {"starting", "working"} => runner[w].take \notin files
       /\ runner[w].at = "attaching" => runner[w].take \in files
       /\ runner[w].at = "telling" => runner[w].take = run.file
       /\ runner[w].at = "failing" => runner[w].take \in refused \/ runner[w].take \notin files

\* One worker ever leaves the start, and until it does and as long as it works the requester
\* is told nothing.
OneEverWorks(z) ==
  /\ \A w \in z.workers : Works(w) =>
       /\ \A v \in z.workers : Works(v) => v = w
       /\ told = {}
       /\ run.status \in IF runner[w].at = "telling" THEN {"SUCCEEDED"} ELSE {"RUNNING", "CANCELLED"}
  /\ run.status = "PENDING" => told = {} /\ \A w \in z.workers : ~Works(w)
  /\ run.status = "RUNNING" /\ ~run.deleted => cut # {} \/ \E w \in z.workers : Works(w)

FilesAreKnown(z) ==
  /\ run.status = "SUCCEEDED" <=> run.file # z.noFile
  /\ \A f \in files : \/ f = run.file \/ f \in cut \/ f \in refused
                      \/ \E w \in z.workers : Works(w) /\ runner[w].take = f

ReportInv(z) == TakesAreKnown(z) /\ OneEverWorks(z) /\ FilesAreKnown(z) /\ Reports(z)!ToldTheTruth

\* Nobody has taken the job at first.
LEMMA ReportBegins == ASSUME NEW z, ReportSize(z), Reports(z)!Init PROVE ReportInv(z)
<1> USE DEF Reports!Init, Reports!Idle, ReportSize
<1>1. TakesAreKnown(z)
    BY DEF TakesAreKnown
<1>2. OneEverWorks(z) /\ FilesAreKnown(z)
    BY DEF OneEverWorks, FilesAreKnown, Works
<1> QED
    BY <1>1, <1>2 DEF ReportInv, Reports!ToldTheTruth

\* Who does not idle has a take.
LEMMA TakeOf ==
  ASSUME NEW z, TakesAreKnown(z), NEW w \in z.workers, runner[w] # [at |-> "idle"]
  PROVE  /\ runner[w].at # "idle" /\ runner[w].take \in 1 .. tries
         /\ runner[w] = [at |-> runner[w].at, take |-> runner[w].take]
<1>1. runner[w] \in RunnerRows
    BY DEF TakesAreKnown
<1>2. runner[w].at # "idle" /\ runner[w] = [at |-> runner[w].at, take |-> runner[w].take]
    BY <1>1 DEF RunnerRows
<1> QED
    BY <1>2 DEF TakesAreKnown

\* What succeeds is taken down with its file.
LEMMA SucceededRow ==
  ASSUME NEW z, TakesAreKnown(z), NEW n \in Nat, run' = [run EXCEPT !.status = "SUCCEEDED", !.file = n]
  PROVE  /\ run' = [status |-> "SUCCEEDED", deleted |-> run.deleted, file |-> n]
         /\ run' \in [status : {"PENDING", "RUNNING", "SUCCEEDED", "FAILED", "CANCELLED"},
                       deleted : BOOLEAN, file : Nat \cup {z.noFile}]
    BY DEF TakesAreKnown

\* A report that succeeds takes its file from the worker that attaches it.
LEMMA SuccessIsKnown ==
  ASSUME NEW z, ReportSize(z), TakesAreKnown(z), OneEverWorks(z), NEW w \in z.workers,
         Reports(z)!MarkSucceeded(w)
  PROVE  TakesAreKnown(z)'
<1>1. /\ runner[w].at = "attaching" /\ runner[w] # [at |-> "idle"]
      /\ run' = [run EXCEPT !.status = "SUCCEEDED", !.file = runner[w].take]
      /\ runner' = [runner EXCEPT ![w] = [runner[w] EXCEPT !.at = "telling"]]
      /\ UNCHANGED <<tries, files, told, cut, refused>>
    BY DEF Reports!MarkSucceeded, Reports!Goto, Reports!At
<1>2. /\ runner[w].take \in 1 .. tries /\ runner[w] = [at |-> runner[w].at, take |-> runner[w].take]
      /\ runner[w].take \in files
    BY <1>1, TakeOf DEF TakesAreKnown
<1>3. runner[w].take \in Nat
    BY <1>2
<1>4. /\ run' = [status |-> "SUCCEEDED", deleted |-> run.deleted, file |-> runner[w].take]
      /\ run' \in [status : {"PENDING", "RUNNING", "SUCCEEDED", "FAILED", "CANCELLED"},
                    deleted : BOOLEAN, file : Nat \cup {z.noFile}]
    BY <1>1, <1>3, SucceededRow
<1>5. [runner[w] EXCEPT !.at = "telling"] = [at |-> "telling", take |-> runner[w].take]
    BY <1>2
<1>6. runner' = [runner EXCEPT ![w] = [at |-> "telling", take |-> runner[w].take]]
    BY <1>1, <1>5
<1>7. \A v \in z.workers \ {w} : runner[v].at # "telling"
    BY <1>1 DEF OneEverWorks, Works
<1> QED
    BY <1>1, <1>2, <1>3, <1>4, <1>6, <1>7 DEF TakesAreKnown, RunnerRows

\* Every step of a report keeps its invariant.
LEMMA ReportKeeps ==
  ASSUME NEW z, ReportSize(z), ReportInv(z), [Reports(z)!Next]_reportVars
  PROVE  ReportInv(z)'
<1> USE DEF ReportInv, TakesAreKnown, OneEverWorks, FilesAreKnown, Works, RunnerRows,
            Reports!ToldTheTruth, Reports!Goto, Reports!At, Reports!Idle, Reports!Terminal
<1>1. CASE UNCHANGED reportVars
    BY <1>1 DEF reportVars
<1>2. CASE Reports(z)!Cancel
  <2> USE <1>2 DEF Reports!Cancel
  <2>1. TakesAreKnown(z)'
      OBVIOUS
  <2>2. OneEverWorks(z)'
      OBVIOUS
  <2>3. FilesAreKnown(z)'
      OBVIOUS
  <2>4. Reports(z)!ToldTheTruth'
      OBVIOUS
  <2> QED
      BY <2>1, <2>2, <2>3, <2>4
<1>3. CASE Reports(z)!SoftDelete
  <2> USE <1>3 DEF Reports!SoftDelete
  <2>1. TakesAreKnown(z)'
      OBVIOUS
  <2>2. OneEverWorks(z)'
      OBVIOUS
  <2>3. FilesAreKnown(z)'
      OBVIOUS
  <2>4. Reports(z)!ToldTheTruth'
      OBVIOUS
  <2> QED
      BY <2>1, <2>2, <2>3, <2>4
<1>4. ASSUME NEW w \in z.workers, Reports(z)!Take(w) PROVE ReportInv(z)'
  <2> USE <1>4 DEF Reports!Take, ReportSize
  <2>1. TakesAreKnown(z)'
      OBVIOUS
  <2>2. OneEverWorks(z)'
      OBVIOUS
  <2>3. FilesAreKnown(z)'
      OBVIOUS
  <2>4. Reports(z)!ToldTheTruth'
      OBVIOUS
  <2> QED
      BY <2>1, <2>2, <2>3, <2>4
<1>5. ASSUME NEW w \in z.workers, Reports(z)!MarkRunning(w) PROVE ReportInv(z)'
  <2> USE <1>5 DEF Reports!MarkRunning, Reports!Startable
  <2>1. TakesAreKnown(z)'
      OBVIOUS
  <2>2. OneEverWorks(z)'
      OBVIOUS
  <2>3. FilesAreKnown(z)'
      OBVIOUS
  <2>4. Reports(z)!ToldTheTruth'
      OBVIOUS
  <2> QED
      BY <2>1, <2>2, <2>3, <2>4
<1>6. ASSUME NEW w \in z.workers, Reports(z)!LateStart(w) PROVE ReportInv(z)'
  <2> USE <1>6 DEF Reports!LateStart
  <2>1. TakesAreKnown(z)'
      OBVIOUS
  <2>2. OneEverWorks(z)'
      OBVIOUS
  <2>3. FilesAreKnown(z)'
      OBVIOUS
  <2>4. Reports(z)!ToldTheTruth'
      OBVIOUS
  <2> QED
      BY <2>1, <2>2, <2>3, <2>4
<1>7. ASSUME NEW w \in z.workers, Reports(z)!Upload(w) PROVE ReportInv(z)'
  <2> USE <1>7 DEF Reports!Upload
  <2>1. TakesAreKnown(z)'
      OBVIOUS
  <2>2. OneEverWorks(z)'
      OBVIOUS
  <2>3. FilesAreKnown(z)'
      OBVIOUS
  <2>4. Reports(z)!ToldTheTruth'
      OBVIOUS
  <2> QED
      BY <2>1, <2>2, <2>3, <2>4
<1>8. ASSUME NEW w \in z.workers, Reports(z)!MarkSucceeded(w) PROVE ReportInv(z)'
  <2> USE <1>8 DEF Reports!MarkSucceeded, ReportSize
  <2>1. TakesAreKnown(z)'
      BY SuccessIsKnown
  <2>2. OneEverWorks(z)'
      OBVIOUS
  <2>3. FilesAreKnown(z)'
      OBVIOUS
  <2>4. Reports(z)!ToldTheTruth'
      OBVIOUS
  <2> QED
      BY <2>1, <2>2, <2>3, <2>4
<1>9. ASSUME NEW w \in z.workers, Reports(z)!Refuse(w) PROVE ReportInv(z)'
  <2> USE <1>9 DEF Reports!Refuse
  <2>1. TakesAreKnown(z)'
      OBVIOUS
  <2>2. OneEverWorks(z)'
      OBVIOUS
  <2>3. FilesAreKnown(z)'
      OBVIOUS
  <2>4. Reports(z)!ToldTheTruth'
      OBVIOUS
  <2> QED
      BY <2>1, <2>2, <2>3, <2>4
<1>10. ASSUME NEW w \in z.workers, Reports(z)!Throw(w) PROVE ReportInv(z)'
  <2> USE <1>10 DEF Reports!Throw
  <2>1. TakesAreKnown(z)'
      OBVIOUS
  <2>2. OneEverWorks(z)'
      OBVIOUS
  <2>3. FilesAreKnown(z)'
      OBVIOUS
  <2>4. Reports(z)!ToldTheTruth'
      OBVIOUS
  <2> QED
      BY <2>1, <2>2, <2>3, <2>4
<1>11. ASSUME NEW w \in z.workers, Reports(z)!TellReady(w) PROVE ReportInv(z)'
  <2> USE <1>11 DEF Reports!TellReady
  <2>1. TakesAreKnown(z)'
      OBVIOUS
  <2>2. OneEverWorks(z)'
      OBVIOUS
  <2>3. FilesAreKnown(z)'
      OBVIOUS
  <2>4. Reports(z)!ToldTheTruth'
      OBVIOUS
  <2> QED
      BY <2>1, <2>2, <2>3, <2>4
<1>12. ASSUME NEW w \in z.workers, Reports(z)!MarkFailed(w) PROVE ReportInv(z)'
  <2> USE <1>12 DEF Reports!MarkFailed
  <2>1. TakesAreKnown(z)'
      OBVIOUS
  <2>2. OneEverWorks(z)'
      OBVIOUS
  <2>3. FilesAreKnown(z)'
      OBVIOUS
  <2>4. Reports(z)!ToldTheTruth'
      OBVIOUS
  <2> QED
      BY <2>1, <2>2, <2>3, <2>4
<1>13. ASSUME NEW w \in z.workers, Reports(z)!FailUnrecorded(w) PROVE ReportInv(z)'
  <2> USE <1>13 DEF Reports!FailUnrecorded
  <2>1. TakesAreKnown(z)'
    <3>1. runner[w].take \in 1 .. tries
        BY TakeOf
    <3>0. cut' \subseteq 1 .. tries
        BY <3>1
    <3>2. runner' = [runner EXCEPT ![w] = [at |-> "idle"]]
        OBVIOUS
    <3>3. told' \subseteq {"ready", "failed"} /\ UNCHANGED <<run, tries, files, refused>>
        OBVIOUS
    <3> QED
        BY <3>0, <3>1, <3>2, <3>3
  <2>2. OneEverWorks(z)'
      OBVIOUS
  <2>3. FilesAreKnown(z)'
      OBVIOUS
  <2>4. Reports(z)!ToldTheTruth'
      OBVIOUS
  <2> QED
      BY <2>1, <2>2, <2>3, <2>4
<1>14. ASSUME NEW w \in z.workers, Reports(z)!Die(w) PROVE ReportInv(z)'
  <2> USE <1>14 DEF Reports!Die
  <2>1. TakesAreKnown(z)'
    <3>1. runner[w].take \in 1 .. tries
        BY TakeOf
    <3>0. cut' \subseteq 1 .. tries
        BY <3>1
    <3>2. runner' = [runner EXCEPT ![w] = [at |-> "idle"]]
        OBVIOUS
    <3>3. told' \subseteq {"ready", "failed"} /\ UNCHANGED <<run, tries, files, refused>>
        OBVIOUS
    <3> QED
        BY <3>0, <3>1, <3>2, <3>3
  <2>2. OneEverWorks(z)'
      OBVIOUS
  <2>3. FilesAreKnown(z)'
      OBVIOUS
  <2>4. Reports(z)!ToldTheTruth'
      OBVIOUS
  <2> QED
      BY <2>1, <2>2, <2>3, <2>4
<1> QED
    BY <1>1, <1>2, <1>3, <1>4, <1>5, <1>6, <1>7, <1>8, <1>9, <1>10, <1>11, <1>12, <1>13, <1>14
    DEF Reports!Next

\* What the invariant of a report says of its properties.
LEMMA ReportShows ==
  ASSUME NEW z, ReportSize(z), ReportInv(z)
  PROVE  /\ Reports(z)!TypeOK /\ Reports(z)!OneWorkerRuns
         /\ Reports(z)!FilesAreAttached /\ Reports(z)!ToldTheTruth
<1> USE DEF ReportInv
<1>1. Reports(z)!TypeOK
    BY DEF TakesAreKnown, RunnerRows, Reports!TypeOK, Reports!Terminal
<1>2. Reports(z)!OneWorkerRuns
  <2>1. \A v, w \in Reports(z)!Running : v = w
      BY DEF OneEverWorks, Works, Reports!Running
  <2>2. run.status = "RUNNING" /\ ~run.deleted => Reports(z)!Running # {} \/ cut # {}
      BY DEF OneEverWorks, Works, Reports!Running
  <2>3. Cardinality(Reports(z)!Running) <= 1
      BY <2>1, OneAtMost
  <2>4. \A S : Reports(z)!Cardinality(S) = Cardinality(S)
      BY DEF Reports!Cardinality, Cardinality
  <2> QED
      BY <2>2, <2>3, <2>4 DEF Reports!OneWorkerRuns
<1>3. Reports(z)!FilesAreAttached
    BY DEF FilesAreKnown, Works, Reports!FilesAreAttached, Reports!Running
<1> QED
    BY <1>1, <1>2, <1>3

-----------------------------------------------------------------------------
(* The components side by side                                             *)

\* The component that runs has its invariant.
RecordsInv ==
  /\ \A z \in YearSizes : Runs("years", z) => YearInv(z)
  /\ \A z \in TimetableSizes : Runs("timetables", z) => TimetableInv(z)
  /\ \A z \in EventSizes : Runs("events", z) => EventInv(z)
  /\ \A z \in MarkSizes : Runs("marks", z) => MarkInv(z)
  /\ \A z \in RollSizes : Runs("rolls", z) => RollInv(z)
  /\ \A z \in ImportSizes : Runs("imports", z) => ImportInv(z)
  /\ \A z \in SyllabusSizes : Runs("plans", z) => PlanInv(z)
  /\ \A z \in AssignmentSizes : Runs("papers", z) => PaperInv(z)
  /\ \A z \in PlacementSizes : Runs("placements", z) => PlacementInv(z)
  /\ \A z \in ReportSizes : Runs("reports", z) => ReportInv(z)

\* An import keeps the four parts of its invariant.
LEMMA ImportKeeps ==
  ASSUME NEW z, ImportSize(z), ImportInv(z), [Imports(z)!Next]_importVars
  PROVE  ImportInv(z)'
<1>1. ImportTypes(z)' /\ WritesAreLate(z)'
    BY ImportTypesKept, WritesAreLateKept
<1>2. OneTakeIsTrue(z)' /\ RowsAreCounted(z)'
    BY OneTakeIsTrueKept, RowsAreCountedKept
<1> QED
    BY <1>1, <1>2 DEF ImportInv

\* The component that runs begins in the size that the initial state names.
LEMMA RunningBegins ==
  ASSUME RecordsInit, NEW z
  PROVE  /\ z \in YearSizes /\ Runs("years", z) => Years(z)!Init
         /\ z \in TimetableSizes /\ Runs("timetables", z) => Timetables(z)!Init
         /\ z \in EventSizes /\ Runs("events", z) => Events(z)!Init
         /\ z \in MarkSizes /\ Runs("marks", z) => Exams(z)!Init
         /\ z \in RollSizes /\ Runs("rolls", z) => Attendances(z)!Init
         /\ z \in ImportSizes /\ Runs("imports", z) => Imports(z)!Init
         /\ z \in SyllabusSizes /\ Runs("plans", z) => Plans(z)!Init
         /\ z \in AssignmentSizes /\ Runs("papers", z) => Papers(z)!Init
         /\ z \in PlacementSizes /\ Runs("placements", z) => Placements(z)!Init
         /\ z \in ReportSizes /\ Runs("reports", z) => Reports(z)!Init
<1>1. /\ z \in YearSizes /\ Runs("years", z) => Years(z)!Init
      /\ z \in TimetableSizes /\ Runs("timetables", z) => Timetables(z)!Init
    BY DEF RecordsInit, Begins, Runs
<1>2. /\ z \in EventSizes /\ Runs("events", z) => Events(z)!Init
      /\ z \in MarkSizes /\ Runs("marks", z) => Exams(z)!Init
    BY DEF RecordsInit, Begins, Runs
<1>3. /\ z \in RollSizes /\ Runs("rolls", z) => Attendances(z)!Init
      /\ z \in ImportSizes /\ Runs("imports", z) => Imports(z)!Init
    BY DEF RecordsInit, Begins, Runs
<1>4. /\ z \in SyllabusSizes /\ Runs("plans", z) => Plans(z)!Init
      /\ z \in AssignmentSizes /\ Runs("papers", z) => Papers(z)!Init
    BY DEF RecordsInit, Begins, Runs
<1>5. /\ z \in PlacementSizes /\ Runs("placements", z) => Placements(z)!Init
      /\ z \in ReportSizes /\ Runs("reports", z) => Reports(z)!Init
    BY DEF RecordsInit, Begins, Runs
<1> QED
    BY <1>1, <1>2, <1>3, <1>4, <1>5

\* Initial states have the invariant.
LEMMA RecordsBegin == RecordsInit => RecordsInv
<1> SUFFICES ASSUME RecordsInit PROVE RecordsInv
    OBVIOUS
<1>1. /\ \A z \in YearSizes : Runs("years", z) => YearInv(z)
      /\ \A z \in TimetableSizes : Runs("timetables", z) => TimetableInv(z)
    BY RunningBegins, RecordsAssumption, YearBegins, TimetableBegins
<1>2. /\ \A z \in EventSizes : Runs("events", z) => EventInv(z)
      /\ \A z \in MarkSizes : Runs("marks", z) => MarkInv(z)
    BY RunningBegins, RecordsAssumption, EventBegins, MarkBegins
<1>3. /\ \A z \in RollSizes : Runs("rolls", z) => RollInv(z)
      /\ \A z \in ImportSizes : Runs("imports", z) => ImportInv(z)
    BY RunningBegins, RecordsAssumption, RollBegins, ImportBegins
<1>4. /\ \A z \in SyllabusSizes : Runs("plans", z) => PlanInv(z)
      /\ \A z \in AssignmentSizes : Runs("papers", z) => PaperInv(z)
    BY RunningBegins, RecordsAssumption, PlanBegins, PaperBegins
<1>5. /\ \A z \in PlacementSizes : Runs("placements", z) => PlacementInv(z)
      /\ \A z \in ReportSizes : Runs("reports", z) => ReportInv(z)
    BY RunningBegins, RecordsAssumption, PlacementBegins, ReportBegins
<1> QED
    BY <1>1, <1>2, <1>3, <1>4, <1>5 DEF RecordsInv

\* A step of the records is one of the component that runs, or leaves it alone.
LEMMA RunningSteps ==
  ASSUME [RecordsNext]_RecordsVars
  PROVE  /\ UNCHANGED <<component, size>>
         /\ \A z : Runs("years", z) => Years(z)!Next \/ UNCHANGED yearVars
         /\ \A z : Runs("timetables", z) => Timetables(z)!Next \/ UNCHANGED timetableVars
         /\ \A z : Runs("events", z) => Events(z)!Next \/ UNCHANGED fairVars
         /\ \A z : Runs("marks", z) => Exams(z)!Next \/ UNCHANGED markVars
         /\ \A z : Runs("rolls", z) => Attendances(z)!Next \/ UNCHANGED rollVars
         /\ \A z : Runs("imports", z) => Imports(z)!Next \/ UNCHANGED importVars
         /\ \A z : Runs("plans", z) => Plans(z)!Next \/ UNCHANGED syllabusVars
         /\ \A z : Runs("papers", z) => Papers(z)!Next \/ UNCHANGED paperVars
         /\ \A z : Runs("placements", z) => Placements(z)!Next \/ UNCHANGED placeVars
         /\ \A z : Runs("reports", z) => Reports(z)!Next \/ UNCHANGED reportVars
<1>1. CASE UNCHANGED RecordsVars
    BY <1>1 DEF RecordsVars
<1>2. CASE RecordsNext
  <2>1. UNCHANGED <<component, size>>
      BY <1>2 DEF RecordsNext
  <2>2. /\ \A z : Runs("years", z) => Years(z)!Next
        /\ \A z : Runs("timetables", z) => Timetables(z)!Next
        /\ \A z : Runs("events", z) => Events(z)!Next
      BY <1>2 DEF RecordsNext, Runs, Stays
  <2>3. /\ \A z : Runs("marks", z) => Exams(z)!Next
        /\ \A z : Runs("rolls", z) => Attendances(z)!Next
        /\ \A z : Runs("imports", z) => Imports(z)!Next
      BY <1>2 DEF RecordsNext, Runs, Stays
  <2>4. /\ \A z : Runs("plans", z) => Plans(z)!Next
        /\ \A z : Runs("papers", z) => Papers(z)!Next
      BY <1>2 DEF RecordsNext, Runs, Stays
  <2>5. /\ \A z : Runs("placements", z) => Placements(z)!Next
        /\ \A z : Runs("reports", z) => Reports(z)!Next
      BY <1>2 DEF RecordsNext, Runs, Stays
  <2> QED
      BY <2>1, <2>2, <2>3, <2>4, <2>5
<1> QED
    BY <1>1, <1>2

\* Every step keeps the invariant.
LEMMA RecordsKeep == RecordsInv /\ [RecordsNext]_RecordsVars => RecordsInv'
<1> SUFFICES ASSUME RecordsInv, [RecordsNext]_RecordsVars PROVE RecordsInv'
    OBVIOUS
<1>0. component' = component /\ size' = size
    BY RunningSteps
<1>1. ASSUME NEW z \in YearSizes, Runs("years", z) PROVE YearInv(z)'
    BY <1>1, RunningSteps, RecordsAssumption, YearKeeps DEF RecordsInv
<1>2. ASSUME NEW z \in TimetableSizes, Runs("timetables", z) PROVE TimetableInv(z)'
    BY <1>2, RunningSteps, RecordsAssumption, TimetableKeeps DEF RecordsInv
<1>3. ASSUME NEW z \in EventSizes, Runs("events", z) PROVE EventInv(z)'
    BY <1>3, RunningSteps, RecordsAssumption, EventKeeps DEF RecordsInv
<1>4. ASSUME NEW z \in MarkSizes, Runs("marks", z) PROVE MarkInv(z)'
    BY <1>4, RunningSteps, RecordsAssumption, MarkKeeps DEF RecordsInv
<1>5. ASSUME NEW z \in RollSizes, Runs("rolls", z) PROVE RollInv(z)'
    BY <1>5, RunningSteps, RecordsAssumption, RollKeeps DEF RecordsInv
<1>6. ASSUME NEW z \in ImportSizes, Runs("imports", z) PROVE ImportInv(z)'
    BY <1>6, RunningSteps, RecordsAssumption, ImportKeeps DEF RecordsInv
<1>7. ASSUME NEW z \in SyllabusSizes, Runs("plans", z) PROVE PlanInv(z)'
    BY <1>7, RunningSteps, RecordsAssumption, PlanKeeps DEF RecordsInv
<1>8. ASSUME NEW z \in AssignmentSizes, Runs("papers", z) PROVE PaperInv(z)'
    BY <1>8, RunningSteps, RecordsAssumption, PaperKeeps DEF RecordsInv
<1>9. ASSUME NEW z \in PlacementSizes, Runs("placements", z) PROVE PlacementInv(z)'
    BY <1>9, RunningSteps, RecordsAssumption, PlacementKeeps DEF RecordsInv
<1>10. ASSUME NEW z \in ReportSizes, Runs("reports", z) PROVE ReportInv(z)'
    BY <1>10, RunningSteps, RecordsAssumption, ReportKeeps DEF RecordsInv
<1>11. \A name, z : Runs(name, z)' <=> Runs(name, z)
    BY <1>0 DEF Runs
<1> QED
    BY <1>1, <1>2, <1>3, <1>4, <1>5, <1>6, <1>7, <1>8, <1>9, <1>10, <1>11 DEF RecordsInv

\* In every reachable state the component that runs has its inductive invariant.
THEOREM RecordsAlwaysHold == RecordsSpec => []RecordsInv
<1> QED
    BY RecordsBegin, RecordsKeep, PTL DEF RecordsSpec

\* Every variable of the component that runs keeps its type.
THEOREM RecordTypesAlwaysOK == RecordsSpec => []RecordTypesOK
<1>1. ASSUME RecordsInv PROVE RecordTypesOK
  <2>1. /\ \A z \in YearSizes : Runs("years", z) => Years(z)!TypeOK
        /\ \A z \in TimetableSizes : Runs("timetables", z) => Timetables(z)!TypeOK
      BY <1>1, RecordsAssumption, YearShows, TimetableShows DEF RecordsInv
  <2>2. /\ \A z \in EventSizes : Runs("events", z) => Events(z)!TypeOK
        /\ \A z \in MarkSizes : Runs("marks", z) => Exams(z)!TypeOK
      BY <1>1, RecordsAssumption, EventShows, MarkShows DEF RecordsInv
  <2>3. /\ \A z \in RollSizes : Runs("rolls", z) => Attendances(z)!TypeOK
        /\ \A z \in ImportSizes : Runs("imports", z) => Imports(z)!TypeOK
      BY <1>1, RecordsAssumption, RollShows, ImportShows DEF RecordsInv
  <2>4. /\ \A z \in SyllabusSizes : Runs("plans", z) => Plans(z)!TypeOK
        /\ \A z \in AssignmentSizes : Runs("papers", z) => Papers(z)!TypeOK
      BY <1>1, RecordsAssumption, PlanShows, PaperShows DEF RecordsInv
  <2>5. /\ \A z \in PlacementSizes : Runs("placements", z) => Placements(z)!TypeOK
        /\ \A z \in ReportSizes : Runs("reports", z) => Reports(z)!TypeOK
      BY <1>1, RecordsAssumption, PlacementShows, ReportShows DEF RecordsInv
  <2> QED
      BY <2>1, <2>2, <2>3, <2>4, <2>5 DEF RecordTypesOK
<1> QED
    BY <1>1, RecordsAlwaysHold, PTL

\* A school has one current year and a branch one active timetable in it; years meet, teachers
\* are booked twice and loads are out of date only by handlers that others overtook.
THEOREM TimesAlwaysAgree == RecordsSpec => []TimesAgree
<1>1. ASSUME RecordsInv PROVE TimesAgree
    BY <1>1, RecordsAssumption, YearShows, TimetableShows DEF RecordsInv, TimesAgree
<1> QED
    BY <1>1, RecordsAlwaysHold, PTL

\* The seats, the counter and the bills of an event agree, but for handlers that were overtaken
\* or died.
THEOREM EventAlwaysAddsUp == RecordsSpec => []EventAddsUp
<1>1. ASSUME RecordsInv PROVE EventAddsUp
    BY <1>1, RecordsAssumption, EventShows DEF RecordsInv, EventAddsUp
<1> QED
    BY <1>1, RecordsAlwaysHold, PTL

\* Histories of marks and of attendance replay to the rows they are of, and a closed day changes
\* by corrections alone.
THEOREM EditsAlwaysTraced == RecordsSpec => []EditsAreTraced
<1>1. ASSUME RecordsInv PROVE EditsAreTraced
    BY <1>1, RecordsAssumption, MarkShows, RollShows DEF RecordsInv, EditsAreTraced
<1> QED
    BY <1>1, RecordsAlwaysHold, PTL

\* Results are those of one computation, a header's completion that of its topics, and counters
\* of an assignment those of its submissions, but for the ways in which the code loses them.
THEOREM CourseworkAlwaysAddsUp == RecordsSpec => []CourseworkAddsUp
<1>1. ASSUME RecordsInv PROVE CourseworkAddsUp
    BY <1>1, RecordsAssumption, MarkShows, PlanShows, PaperShows DEF RecordsInv, CourseworkAddsUp
<1> QED
    BY <1>1, RecordsAlwaysHold, PTL

\* What a bulk import and a report say of themselves is what they did, however often and by
\* however many workers their jobs were taken.
THEOREM BatchesAlwaysTrue == RecordsSpec => []BatchesAreTrue
<1>1. ASSUME RecordsInv PROVE BatchesAreTrue
    BY <1>1, RecordsAssumption, ImportShows, ReportShows DEF RecordsInv, BatchesAreTrue
<1> QED
    BY <1>1, RecordsAlwaysHold, PTL

\* Students share a roll number only where one brought it along or a look was overtaken, and a
\* promotion counts what it did and moves a student once each time the student is named.
THEOREM PlacesAlwaysExplained == RecordsSpec => []PlacesAreExplained
<1>1. ASSUME RecordsInv PROVE PlacesAreExplained
    BY <1>1, RecordsAssumption, PlacementShows DEF RecordsInv, PlacesAreExplained
<1> QED
    BY <1>1, RecordsAlwaysHold, PTL
=============================================================================
