------------------------------- MODULE Syllabus -------------------------------
(***************************************************************************)
(* The topics of one syllabus and the completion its header stores         *)
(* (src/backend/src/core/academic-content/syllabus).                       *)
(*                                                                         *)
(* Completing a topic, and deleting a completed one, recount all topics in *)
(* the snapshot of their transaction and overwrite the header, whatever    *)
(* its version. Nothing else recounts: topics are added, edited (a status  *)
(* is a field like others) and deleted, and the status of the header set,  *)
(* behind the back of the percentage. Units and chapters only arrange the  *)
(* topics and are left out.                                                *)
(***************************************************************************)
EXTENDS Integers, FiniteSets

CONSTANTS
  Topics,
  Requests,   \* transactions that recount
  MaxVersion  \* bound on edits of a topic

VARIABLES
  topic,    \* topic[t] : status of the node
  version,  \* version[t] : its version
  header,   \* status of the syllabus, and the counts behind its percentage
  request,  \* request[r] : an open transaction, with its snapshot of the topics
  touched,  \* has something that does not recount changed the topics or the status since
            \* the last recount? (history)
  overtook  \* did a transaction change a topic after the last recount's snapshot? (history)

vars == <<topic, version, header, request, touched, overtook>>

Away == [at |-> "away"]

Progress == {"NOT_STARTED", "IN_PROGRESS", "COMPLETED"}

Live(nodes) == {t \in Topics : nodes[t] \in Progress}
Done(nodes) == {t \in Topics : nodes[t] = "COMPLETED"}

\* Percentage and status follow from the two counts.
Completion(nodes) ==
  LET total == Cardinality(Live(nodes))
      done == Cardinality(Done(nodes))
  IN [done |-> done, total |-> total,
      status |-> IF done = 0 THEN "NOT_STARTED"
                 ELSE IF done = total THEN "COMPLETED" ELSE "IN_PROGRESS"]

\* The header says what it would say after a recount: the same percentage, and the status.
Agrees == LET now == Completion(topic)
          IN /\ header.done * now.total = now.done * header.total
             /\ (header.done = 0) = (now.done = 0)
             /\ header.status = now.status

Init ==
  /\ topic = [t \in Topics |-> "absent"]
  /\ version = [t \in Topics |-> 0]
  /\ header = [done |-> 0, total |-> 0, status |-> "NOT_STARTED"]
  /\ request = [r \in Requests |-> Away]
  /\ touched = FALSE /\ overtook = FALSE

-----------------------------------------------------------------------------
(* Transactions of one write                                               *)

Write(t, status) ==
  /\ version[t] < MaxVersion
  /\ topic' = [topic EXCEPT ![t] = status]
  /\ version' = [version EXCEPT ![t] = @ + 1]

\* A new topic is not started, which a header that is complete does not notice.
UpsertNode(t) ==
  /\ topic[t] = "absent" /\ Write(t, "NOT_STARTED")
  /\ touched' = TRUE
  /\ UNCHANGED <<header, request, overtook>>

UpdateNode(t, status) ==
  /\ t \in Live(topic) /\ Write(t, status)
  /\ touched' = (touched \/ status # topic[t])
  /\ UNCHANGED <<header, request, overtook>>

\* The status of the header is set by hand.
Update(status) ==
  /\ header' = [header EXCEPT !.status = status]
  /\ touched' = TRUE
  /\ UNCHANGED <<topic, version, request, overtook>>

\* A topic that is not completed goes without a recount.
DeleteOpen(t) ==
  /\ t \in Live(topic) \ Done(topic) /\ Write(t, "deleted")
  /\ touched' = TRUE
  /\ UNCHANGED <<header, request, overtook>>

-----------------------------------------------------------------------------
(* Transactions that recount                                               *)

\* The first read fixes the snapshot; the caller's version is that of the node read.
Begin(r, t, kind) ==
  /\ request[r] = Away
  /\ t \in IF kind = "complete" THEN Live(topic) ELSE Done(topic)
  /\ request' = [request EXCEPT ![r] = [at |-> kind, topic |-> t, version |-> version[t],
                                       snapshot |-> topic]]
  /\ UNCHANGED <<topic, version, header, touched, overtook>>

\* What the transaction sees of the topics once it has written its own.
Seen(r, status) ==
  [request[r].snapshot EXCEPT ![request[r].topic] = status]

Overtakes(r) == \E t \in Topics \ {request[r].topic} : topic[t] # request[r].snapshot[t]

\* FAULT: the percentage is moved by one topic, not recounted.
Recount_OneMore(r, status) ==
  LET t == request[r].topic seen == Seen(r, status)
  IN /\ version[t] = request[r].version /\ Write(t, status)
     /\ header' = [Completion(seen) EXCEPT !.done = header.done + 1]
     /\ touched' = FALSE
     /\ overtook' = Overtakes(r)
     /\ request' = [request EXCEPT ![r] = Away]

\* The versioned write of the node; the count in the snapshot; the header, whose row the
\* transaction waits for and overwrites.
Recount(r, status) ==
  LET t == request[r].topic seen == Seen(r, status)
  IN /\ version[t] = request[r].version /\ Write(t, status)
     /\ header' = Completion(seen)
     /\ touched' = FALSE
     /\ overtook' = Overtakes(r)
     /\ request' = [request EXCEPT ![r] = Away]

CompleteTopic(r) == request[r].at = "complete" /\ Recount(r, "COMPLETED")

DeleteNode(r) == request[r].at = "delete" /\ Recount(r, "deleted")

\* The version has changed, or a call throws: everything is rolled back.
Fail(r) ==
  /\ request[r] # Away
  /\ request' = [request EXCEPT ![r] = Away]
  /\ UNCHANGED <<topic, version, header, touched, overtook>>

Next ==
  \/ \E t \in Topics :
       \/ UpsertNode(t) \/ DeleteOpen(t)
       \/ \E status \in Progress : UpdateNode(t, status)
       \/ \E r \in Requests, kind \in {"complete", "delete"} : Begin(r, t, kind)
  \/ \E status \in Progress : Update(status)
  \/ \E r \in Requests : CompleteTopic(r) \/ DeleteNode(r) \/ Fail(r)

Spec == Init /\ [][Next]_vars

-----------------------------------------------------------------------------
(* Properties                                                              *)

TypeOK ==
  /\ topic \in [Topics -> Progress \cup {"absent", "deleted"}]
  /\ version \in [Topics -> 0 .. MaxVersion]
  /\ header.status \in Progress
  /\ header.done \in 0 .. header.total /\ header.total \in 0 .. Cardinality(Topics)
  /\ \A r \in Requests : request[r].at \in {"away", "complete", "delete"}
  /\ touched \in BOOLEAN /\ overtook \in BOOLEAN

\* The completion stored in the header is that of the topics, unless something that does
\* not recount came after the last recount, or two recounts crossed.
CompletionIsExplained == touched \/ overtook \/ Agrees
=============================================================================
