--------------------------- MODULE NotificationQuota ---------------------------
(***************************************************************************)
(* Dispatching notifications (src/backend/src/core/notifications): a       *)
(* business event, or the start of a campaign, creates one message per     *)
(* recipient and counts it against the monthly limit of the channel        *)
(* (CommunicationEntitlementService), which the first dispatch of a new    *)
(* period resets.                                                          *)
(*                                                                         *)
(* A dispatch is a transaction: its first query fixes the snapshot in      *)
(* which it sees the entitlement, its increment applies to the row as      *)
(* committed, and the limit is compared with what the increment returned.  *)
(* A dispatch of several recipients holds the row's lock from the first    *)
(* increment on, so one recipient per dispatch shows every interleaving.   *)
(***************************************************************************)
EXTENDS Integers, FiniteSets

CONSTANTS
  Keys,       \* dedupe keys: event, aggregate, recipient and channel
  Limit,      \* the monthly limit of the channel
  Dispatches, \* dispatching transactions
  MaxResets,  \* bound on the periods
  MaxUsed     \* bound on what is counted when a dispatch begins

VARIABLES
  elapsed,   \* has the period of the row ended?
  used,      \* messages counted since the reset
  period,    \* resets so far
  enabled,   \* is the channel enabled for the school?
  message,   \* message[k] : the period in which the message of k was created, or None
  dispatch   \* dispatch[d] : what the transaction saw of the entitlement

vars == <<elapsed, used, period, enabled, message, dispatch>>

None == -1

\* `fresh` says that the version of the row is still the one that was seen.
Idle == [at |-> "idle", key |-> None, elapsed |-> FALSE, used |-> 0, fresh |-> TRUE]

\* A new version of the row overtakes the dispatches ds.
Overtake(ds) ==
  [d \in Dispatches |-> IF ds[d].at = "read" THEN [ds[d] EXCEPT !.fresh = FALSE] ELSE ds[d]]

Init ==
  /\ elapsed = FALSE /\ used = 0 /\ period = 0 /\ enabled = TRUE
  /\ message = [k \in Keys |-> None]
  /\ dispatch = [d \in Dispatches |-> Idle]

PeriodEnds ==
  /\ ~elapsed /\ period < MaxResets
  /\ elapsed' = TRUE
  /\ UNCHANGED <<used, period, enabled, message, dispatch>>

\* An operator enables or disables the channel, or resets the usage.
SetEnabled ==
  /\ enabled' = ~enabled
  /\ dispatch' = Overtake(dispatch)
  /\ UNCHANGED <<elapsed, used, period, message>>

ResetUsage ==
  /\ period < MaxResets
  /\ period' = period + 1 /\ used' = 0 /\ elapsed' = FALSE
  /\ dispatch' = Overtake(dispatch)
  /\ UNCHANGED <<enabled, message>>

\* The snapshot: a channel that is disabled in it is skipped.
Read(d, k) ==
  /\ dispatch[d].at = "idle" /\ enabled /\ used < MaxUsed
  /\ dispatch' = [dispatch EXCEPT ![d] = [at |-> "read", key |-> k, elapsed |-> elapsed,
                                          used |-> used, fresh |-> TRUE]]
  /\ UNCHANGED <<elapsed, used, period, enabled, message>>

\* FAULT: the limit is compared with the snapshot.
WithinLimit_OfSnapshot(d, count) == dispatch[d].elapsed \/ dispatch[d].used < Limit

WithinLimit(d, count) == count <= Limit

\* A period that had ended is reset if the row still has the version that was
\* seen, one is counted, and a message is created unless the limit is passed or
\* a message of that key exists: then the count stays and there is none.
Commit(d) ==
  LET k     == dispatch[d].key
      roll  == dispatch[d].elapsed
      count == (IF roll THEN 0 ELSE used) + 1
      now   == period + (IF roll THEN 1 ELSE 0)
      idle  == [dispatch EXCEPT ![d] = Idle]
  IN /\ dispatch[d].at = "read"
     /\ roll => dispatch[d].fresh
     /\ period' = now /\ used' = count
     /\ elapsed' = (elapsed /\ ~roll)
     /\ message' = [message EXCEPT ![k] =
                      IF WithinLimit(d, count) /\ @ = None THEN now ELSE @]
     /\ dispatch' = IF roll THEN Overtake(idle) ELSE idle
     /\ UNCHANGED enabled

\* The transaction rolls back: another one has changed the row whose period it
\* resets, or anything in it fails.
Rollback(d) ==
  /\ dispatch[d].at = "read"
  /\ dispatch' = [dispatch EXCEPT ![d] = Idle]
  /\ UNCHANGED <<elapsed, used, period, enabled, message>>

Next ==
  \/ PeriodEnds \/ SetEnabled \/ ResetUsage
  \/ \E d \in Dispatches : (\E k \in Keys : Read(d, k)) \/ Commit(d) \/ Rollback(d)

Spec == Init /\ [][Next]_vars

-----------------------------------------------------------------------------

TypeOK ==
  /\ elapsed \in BOOLEAN /\ enabled \in BOOLEAN /\ used \in Nat /\ period \in 0 .. MaxResets
  /\ message \in [Keys -> {None} \cup 0 .. MaxResets]
  /\ dispatch \in [Dispatches -> [at : {"idle", "read"}, key : Keys \cup {None},
                                  elapsed : BOOLEAN, used : Nat, fresh : BOOLEAN]]

Created(p) == {k \in Keys : message[k] = p}

\* Between two resets no more messages are created than the limit allows, and
\* each of them is counted, however many dispatches run when the period turns
\* and though the increment asks for no version.
QuotaHolds ==
  /\ \A p \in 0 .. MaxResets : Cardinality(Created(p)) <= Limit
  /\ Cardinality(Created(period)) <= used
=============================================================================
