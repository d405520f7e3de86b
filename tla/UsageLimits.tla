----------------------------- MODULE UsageLimits -----------------------------
(***************************************************************************)
(* The limits of a school's plan: SubscriptionGuardService (src/backend/   *)
(* src/core/subscription/guard) counts what the school uses and tells it   *)
(* once when a threshold is crossed; StudentService counts a student in    *)
(* the transaction that creates it, FileAssetService counts a file before  *)
(* it is stored and takes the count back when storing fails.               *)
(*                                                                         *)
(* A transaction reads the snapshot of its first query (REPEATABLE READ),  *)
(* its increments apply to the row as committed: a consume or a release is *)
(* therefore two steps, the snapshot and the writes. Deleting a student    *)
(* reads a counter that counts that student, whatever runs beside it, and  *)
(* is one step. ENFORCE_LIMITS and NOTIFY_THRESHOLDS are on.               *)
(***************************************************************************)
EXTENDS Integers, Sequences, FiniteSetsExt

CONSTANTS
  Students, Files,  \* rows that may be created, each of which is counted
  Size,             \* Size[e]  : what e counts for
  Limit,            \* Limit[f] : the limit of the plan on feature f
  Clients,          \* concurrent requests
  NoEntity

Features == {"students", "storage"}

Entities == Students \cup Files

FeatureOf(e) == IF e \in Students THEN "students" ELSE "storage"

\* A band that was never notified, and a threshold row that does not exist yet.
NoBand == 0
NoRow == -1

VARIABLES
  usable,    \* is the subscription TRIAL, ACTIVE or EXPIRING?
  used,      \* used[f]   : the counter of the school
  band,      \* band[f]   : the last notified band, or NoRow
  sent,      \* sent[f]   : the bands notified so far
  entity,    \* entity[e] : absent, live, or gone: deleted or never stored
  client,    \* client[c] : where the request is, its snapshot of counter and band
  lost,      \* files still counted that no request will release (history)
  twice,     \* has a file been deleted twice at once? (history)
  raced      \* features of which a count was taken past its snapshot (history)

vars == <<usable, used, band, sent, entity, client, lost, twice, raced>>

\* `fresh` says that the version of the threshold row is still the one read.
Idle == [at |-> "idle", entity |-> NoEntity, used |-> 0, band |-> NoRow, fresh |-> TRUE]

Init ==
  /\ usable = TRUE
  /\ used = [f \in Features |-> 0]
  /\ band = [f \in Features |-> NoRow]
  /\ sent = [f \in Features |-> <<>>]
  /\ entity = [e \in Entities |-> "absent"]
  /\ client = [c \in Clients |-> Idle]
  /\ lost = {} /\ twice = FALSE /\ raced = {}

\* deriveBand of the percentage, which is capped at 100.
Band(f, amount) ==
  LET percent == IF Limit[f] > 0 THEN (amount * 100) \div Limit[f] ELSE 0
  IN IF percent >= 100 THEN 100 ELSE IF percent >= 90 THEN 90
     ELSE IF percent >= 80 THEN 80 ELSE NoBand

Goto(c, at) == client' = [client EXCEPT ![c].at = at]

Finish(c) == client' = [client EXCEPT ![c] = Idle]

PlanChanges ==
  /\ usable' = ~usable
  /\ UNCHANGED <<used, band, sent, entity, client, lost, twice, raced>>

-----------------------------------------------------------------------------
(* assertAndConsume *)

\* The snapshot of the consuming transaction and the checks on it. A refusal
\* rolls back the event that reports it, and nothing remains.
ConsumeRead(c, e) ==
  LET f == FeatureOf(e)
  IN /\ client[c].at = "idle" /\ entity[e] = "absent"
     /\ \A d \in Clients : client[d].entity # e
     /\ usable
     /\ used[f] + Size[e] <= Limit[f]
     /\ client' = [client EXCEPT ![c] = [at |-> "consuming", entity |-> e, used |-> used[f],
                                         band |-> band[f], fresh |-> TRUE]]
     /\ UNCHANGED <<usable, used, band, sent, entity, lost, twice, raced>>

\* FAULT: the threshold row is written whatever its version.
AdvanceBand_Unversioned(c, f, new, after) ==
  IF new > client[c].band
  THEN /\ band' = [band EXCEPT ![f] = new]
       /\ sent' = [sent EXCEPT ![f] = Append(@, new)]
       /\ client' = after
  ELSE UNCHANGED <<band, sent>> /\ client' = after

\* tryAdvanceBand: the band read is compared, the row is written only if its
\* version is the one read, and a write makes the other snapshots stale.
AdvanceBand(c, f, new, after) ==
  IF new = NoBand \/ ~client[c].fresh
  THEN UNCHANGED <<band, sent>> /\ client' = after
  ELSE /\ band' = [band EXCEPT ![f] = IF new > @ THEN new ELSE @]
       /\ sent' = [sent EXCEPT ![f] = IF new > band[f] THEN Append(@, new) ELSE @]
       /\ client' = [d \in Clients |->
                       IF d # c /\ client[d].at = "consuming" /\ FeatureOf(client[d].entity) = f
                       THEN [after[d] EXCEPT !.fresh = FALSE] ELSE after[d]]

\* The increment, the event and the band. Inserting a threshold row that another
\* transaction has inserted since the snapshot violates its unique key.
Conflict(c) ==
  LET e == client[c].entity  f == FeatureOf(e)
  IN Band(f, used[f] + Size[e]) # NoBand /\ client[c].band = NoRow /\ ~client[c].fresh

Count(c, after) ==
  LET e == client[c].entity  f == FeatureOf(e)
  IN /\ client[c].at = "consuming" /\ ~Conflict(c)
     /\ used' = [used EXCEPT ![f] = @ + Size[e]]
     /\ AdvanceBand(c, f, Band(f, used[f] + Size[e]), [client EXCEPT ![c] = after])
     /\ raced' = IF used[f] # client[c].used THEN raced \cup {f} ELSE raced
     /\ UNCHANGED <<usable, lost, twice>>

\* A student is inserted in the transaction that counts it ...
CreateStudent(c) ==
  /\ client[c].entity \in Students
  /\ Count(c, Idle)
  /\ entity' = [entity EXCEPT ![client[c].entity] = "live"]

\* ... a file is counted first and stored next.
CountFile(c) ==
  /\ client[c].entity \in Files
  /\ Count(c, [client[c] EXCEPT !.at = "uploading"])
  /\ UNCHANGED entity

ConsumeAborts(c) ==
  /\ client[c].at = "consuming" /\ Conflict(c)
  /\ Finish(c)
  /\ UNCHANGED <<usable, used, band, sent, entity, lost, twice, raced>>

-----------------------------------------------------------------------------
(* Students and files *)

\* The release asks for a usable plan, in the transaction of the deletion.
DeleteStudent(e) ==
  /\ entity[e] = "live" /\ e \in Students /\ usable
  /\ entity' = [entity EXCEPT ![e] = "gone"]
  /\ used' = [used EXCEPT !["students"] = @ - (IF Size[e] < @ THEN Size[e] ELSE @)]
  /\ UNCHANGED <<usable, band, sent, client, lost, twice, raced>>

StoreFile(c) ==
  /\ client[c].at = "uploading"
  /\ entity' = [entity EXCEPT ![client[c].entity] = "live"]
  /\ Finish(c)
  /\ UNCHANGED <<usable, used, band, sent, lost, twice, raced>>

\* Storing the body or inserting the row fails: the count is to be released.
StoreFails(c) ==
  /\ client[c].at = "uploading"
  /\ Goto(c, "releasing")
  /\ entity' = [entity EXCEPT ![client[c].entity] = "gone"]
  /\ UNCHANGED <<usable, used, band, sent, lost, twice, raced>>

DeleteRead(c, e) ==
  /\ client[c].at = "idle" /\ entity[e] = "live" /\ e \in Files
  /\ client' = [client EXCEPT ![c] = [Idle EXCEPT !.at = "deleting", !.entity = e]]
  /\ UNCHANGED <<usable, used, band, sent, entity, lost, twice, raced>>

\* Whether the update found the row still live is not looked at.
MarkDeleted(c) ==
  LET e == client[c].entity
  IN /\ client[c].at = "deleting"
     /\ twice' = (twice \/ entity[e] = "gone")
     /\ entity' = [entity EXCEPT ![e] = "gone"]
     /\ Goto(c, "releasing")
     /\ UNCHANGED <<usable, used, band, sent, lost, raced>>

\* The snapshot of the releasing transaction.
ReleaseRead(c) ==
  /\ client[c].at = "releasing" /\ usable
  /\ client' = [client EXCEPT ![c].at = "releasing2", ![c].used = used["storage"]]
  /\ UNCHANGED <<usable, used, band, sent, entity, lost, twice, raced>>

\* FAULT: the counter is set from the snapshot.
Release_FromSnapshot(c) ==
  LET size == Size[client[c].entity]
  IN /\ client[c].at = "releasing2"
     /\ used' = [used EXCEPT !["storage"] =
                   client[c].used - (IF size < client[c].used THEN size ELSE client[c].used)]
     /\ Finish(c)
     /\ UNCHANGED <<usable, band, sent, entity, lost, twice, raced>>

\* At most what the snapshot held is taken off the counter as it is now.
Release(c) ==
  LET size == Size[client[c].entity]
      most == IF client[c].used > 0 THEN client[c].used ELSE 0
  IN /\ client[c].at = "releasing2"
     /\ used' = [used EXCEPT !["storage"] = @ - (IF size < most THEN size ELSE most)]
     /\ Finish(c)
     /\ UNCHANGED <<usable, band, sent, entity, lost, twice, raced>>

\* The plan is not usable, the release fails otherwise, or the process dies: a
\* file is counted for ever. A transaction that dies leaves nothing.
GiveUp(c) ==
  /\ client[c].at # "idle"
  /\ IF client[c].at \in {"uploading", "releasing", "releasing2"}
     THEN /\ lost' = lost \cup {client[c].entity}
          /\ entity' = [entity EXCEPT ![client[c].entity] = "gone"]
     ELSE UNCHANGED <<lost, entity>>
  /\ Finish(c)
  /\ UNCHANGED <<usable, used, band, sent, twice, raced>>

-----------------------------------------------------------------------------

Next ==
  \/ PlanChanges
  \/ \E c \in Clients, e \in Entities : ConsumeRead(c, e) \/ DeleteRead(c, e)
  \/ \E e \in Entities : DeleteStudent(e)
  \/ \E c \in Clients : \/ CreateStudent(c) \/ CountFile(c) \/ ConsumeAborts(c)
                        \/ StoreFile(c) \/ StoreFails(c) \/ MarkDeleted(c) \/ ReleaseRead(c)
                        \/ Release(c) \/ GiveUp(c)

Spec == Init /\ [][Next]_vars

-----------------------------------------------------------------------------
(* Properties *)

TypeOK ==
  /\ usable \in BOOLEAN /\ twice \in BOOLEAN
  /\ lost \subseteq Files /\ raced \subseteq Features
  /\ used \in [Features -> Int]
  /\ band \in [Features -> {NoRow, NoBand, 80, 90, 100}]
  /\ \A f \in Features : sent[f] \in Seq({80, 90, 100})
  /\ entity \in [Entities -> {"absent", "live", "gone"}]
  /\ client \in [Clients -> [at : {"idle", "consuming", "uploading", "deleting", "releasing",
                                   "releasing2"},
                             entity : Entities \cup {NoEntity}, used : Int,
                             band : {NoRow, NoBand, 80, 90, 100}, fresh : BOOLEAN]]

Sizes(es) == MapThenSumSet(LAMBDA e : Size[e], es)

\* The counters, incremented past every version and from stale snapshots, say
\* what exists: the students that are live, and, as long as no file was deleted
\* by two requests at once, the files that are live, those a request still has
\* to store or to release, and those that a failed release left counted.
CountsAreExplained ==
  /\ used["students"] = Sizes({e \in Students : entity[e] = "live"})
  /\ ~twice =>
       used["storage"] =
         Sizes({e \in Files :
           \/ entity[e] = "live" \/ e \in lost
           \/ \E c \in Clients : /\ client[c].entity = e
                                 /\ client[c].at \in {"uploading", "releasing", "releasing2"}})

\* A school is told of each band at most once and of higher bands only, however
\* many requests cross it together: UsageThresholdStateRepository.tryAdvanceBand.
BandsRise ==
  \A f \in Features :
    /\ \A i, j \in DOMAIN sent[f] : i < j => sent[f][i] < sent[f][j]
    /\ sent[f] # <<>> => sent[f][Len(sent[f])] = band[f]

\* The gate judges its snapshot and the increment passes it: a limit is exceeded only if
\* another request has moved the counter between the two.
OvershootIsRaced == \A f \in Features : used[f] > Limit[f] => f \in raced
=============================================================================
