----------------------------- MODULE FeatureFlags -----------------------------
(***************************************************************************)
(* One feature flag of one school (src/backend/src/core/feature-flag): the *)
(* evaluation, which every process remembers, and the changes of the       *)
(* definition, the rollout and the school's override.                      *)
(*                                                                         *)
(* An evaluation reads three tables one after the other. A change writes   *)
(* an audit row and an event in a transaction; creations belong to it, but *)
(* updates and deletions are written by the base client and stand before   *)
(* the transaction commits, or without it. The event empties the cache of  *)
(* the process whose dispatcher handles it, and of no other.               *)
(*                                                                         *)
(* At most one rollout is active at a time and it covers the school or     *)
(* not; overrides do not expire, so that the unique index admits one.      *)
(***************************************************************************)
EXTENDS Integers

CONSTANTS
  Processes,  \* the API replicas
  Readers,    \* evaluations under way
  Requests,   \* changes
  PlanValue,  \* what the plan map says
  None

VARIABLES
  default,    \* defaultValue of the definition
  rollout,    \* what the active rollout says, or None
  override,   \* the override of the school, or None
  cache,      \* cache[p]  : what process p remembers, or None
  reader,     \* reader[q] : the evaluation
  change,     \* change[r] : the change, and how far it is
  missed,     \* processes whose entry no event will correct (history)
  wanted,     \* did the last finished change of the override set one? (history)
  torn        \* has a replacement of the override ended halfway? (history)

vars == <<default, rollout, override, cache, reader, change, missed, wanted, torn>>

tables == <<default, rollout, override>>

Maybe == BOOLEAN \cup {None}

Away == [at |-> "away"]

Init ==
  /\ default \in BOOLEAN /\ rollout = None /\ override = None
  /\ cache = [p \in Processes |-> None]
  /\ reader = [q \in Readers |-> Away]
  /\ change = [r \in Requests |-> Away]
  /\ missed = {} /\ wanted = FALSE /\ torn = FALSE

First(a, b) == IF a # None THEN a ELSE b

Effective == First(rollout, First(override, default))

-----------------------------------------------------------------------------
(* Evaluation                                                              *)

To(q, e) == reader' = [reader EXCEPT ![q] = e]

\* The cache has nothing: the definition is read. An operator who asks what would be with
\* some plan names the plan.
Look(q, p, plan) ==
  /\ reader[q] = Away /\ cache[p] = None
  /\ To(q, [at |-> "rollouts", process |-> p, plan |-> plan, default |-> default,
            value |-> None, overtaken |-> FALSE])
  /\ UNCHANGED <<tables, cache, change, missed, wanted, torn>>

ReadRollouts(q) ==
  /\ reader[q].at = "rollouts"
  /\ To(q, [reader[q] EXCEPT !.at = IF rollout # None THEN "known" ELSE "override",
                             !.value = rollout])
  /\ UNCHANGED <<tables, cache, change, missed, wanted, torn>>

ReadOverride(q) ==
  /\ reader[q].at = "override"
  /\ To(q, [reader[q] EXCEPT !.at = "known", !.value = override])
  /\ UNCHANGED <<tables, cache, change, missed, wanted, torn>>

\* The plan map counts before the default, and the key of the cache does not say so.
Remember(q) ==
  LET e == reader[q]
      borrowed == e.value = None /\ e.plan
  IN /\ e.at = "known"
     /\ cache' = [cache EXCEPT ![e.process] =
                    First(e.value, IF e.plan THEN PlanValue ELSE e.default)]
     /\ missed' = IF e.overtaken \/ borrowed THEN missed \cup {e.process}
                  ELSE missed \ {e.process}
     /\ To(q, Away)
     /\ UNCHANGED <<tables, change, wanted, torn>>

\* The time to live of an entry is over.
Expire(p) ==
  /\ cache[p] # None
  /\ cache' = [cache EXCEPT ![p] = None]
  /\ missed' = missed \ {p}
  /\ UNCHANGED <<tables, reader, change, wanted, torn>>

-----------------------------------------------------------------------------
(* Changes                                                                 *)

Goes(r, step) == change' = [change EXCEPT ![r] = step]

Announced == [at |-> "announced"]
Ended == [at |-> "ended"]

InTransaction(r) == change[r].at \in {"written", "recorded"}

Doing(r, kind) == InTransaction(r) /\ change[r].kind = kind

\* An override that a transaction has inserted is locked until the transaction ends.
Inserted(r) == \E s \in Requests \ {r} : Doing(s, "override") /\ change[s].at = "recorded"

\* A change begins. The first write is by the base client, unless it is a creation: that is
\* left for the transaction.
Begin(r, kind, p, v) ==
  /\ change[r] = Away
  /\ Goes(r, [at |-> "written", kind |-> kind, process |-> p, value |-> v,
              replaces |-> kind = "override" /\ override # None])
  /\ UNCHANGED <<cache, reader, missed, torn>>

UpdateDefinition(r, p, v) ==
  /\ Begin(r, "default", p, None)
  /\ default' = v
  /\ UNCHANGED <<rollout, override, wanted>>

CreateRollout(r, p, v) ==
  /\ rollout = None /\ \A s \in Requests : ~Doing(s, "roll out")
  /\ Begin(r, "roll out", p, v)
  /\ UNCHANGED <<tables, wanted>>

UpdateRollout(r, p, v) ==
  /\ rollout # None
  /\ Begin(r, "reroll", p, None)
  /\ rollout' = v
  /\ UNCHANGED <<default, override, wanted>>

DeleteRollout(r, p) ==
  /\ rollout # None
  /\ Begin(r, "roll back", p, None)
  /\ rollout' = None
  /\ UNCHANGED <<default, override, wanted>>

\* Begins with the deletion of the old override, which waits for the row of another.
UpsertOverride(r, p, v) ==
  /\ ~Inserted(r)
  /\ Begin(r, "override", p, v)
  /\ override' = None
  /\ UNCHANGED <<default, rollout, wanted>>

DeleteOverride(r, p) ==
  /\ override # None /\ ~Inserted(r)
  /\ Begin(r, "reset", p, None)
  /\ override' = None /\ wanted' = FALSE
  /\ UNCHANGED <<default, rollout>>

\* Creation, audit row and event in the transaction, which is still open when the cache
\* of the process is emptied. The unique index refuses a second override.
Record(r) ==
  LET c == change[r] IN
  /\ c.at = "written"
  /\ c.kind = "override" => override = None /\ ~Inserted(r)
  /\ cache' = [cache EXCEPT ![c.process] = None]
  /\ missed' = missed \ {c.process}
  /\ Goes(r, [c EXCEPT !.at = "recorded"])
  /\ UNCHANGED <<tables, reader, wanted, torn>>

Commit(r) ==
  LET c == change[r] IN
  /\ c.at = "recorded"
  /\ rollout' = IF c.kind = "roll out" THEN c.value ELSE rollout
  /\ override' = IF c.kind = "override" THEN c.value ELSE override
  /\ wanted' = (c.kind = "override" \/ wanted)
  /\ Goes(r, Announced)
  /\ UNCHANGED <<default, cache, reader, missed, torn>>

\* From now on no event corrects what these processes remember, or what is being evaluated.
Uncorrected(processes) ==
  /\ missed' = {p \in processes : cache[p] # None}
  /\ reader' = [q \in Readers |-> IF reader[q] = Away THEN Away
                                  ELSE [reader[q] EXCEPT !.overtaken = TRUE]]

\* The transaction is rolled back, or the process dies.
Abort(r) ==
  LET c == change[r] IN
  /\ c.at \in {"written", "recorded"}
  /\ IF c.kind # "roll out" THEN Uncorrected(Processes) ELSE UNCHANGED <<missed, reader>>
  /\ torn' = (torn \/ c.replaces)
  /\ Goes(r, Ended)
  /\ UNCHANGED <<tables, cache, wanted>>

\* FAULT: the event finds no subscriber.
Handle_Ignored(r, p) ==
  /\ change[r].at = "announced"
  /\ Uncorrected(Processes \ {p})
  /\ Goes(r, Ended)
  /\ UNCHANGED <<tables, cache, wanted, torn>>

\* The dispatcher of one process handles the event.
Handle(r, p) ==
  /\ change[r].at = "announced"
  /\ cache' = [cache EXCEPT ![p] = None]
  /\ Uncorrected(Processes \ {p})
  /\ Goes(r, Ended)
  /\ UNCHANGED <<tables, wanted, torn>>

Next ==
  \/ \E q \in Readers :
       \/ \E p \in Processes, plan \in BOOLEAN : Look(q, p, plan)
       \/ ReadRollouts(q) \/ ReadOverride(q) \/ Remember(q)
  \/ \E p \in Processes : Expire(p)
  \/ \E r \in Requests :
       \/ \E p \in Processes, v \in BOOLEAN :
            \/ UpdateDefinition(r, p, v) \/ CreateRollout(r, p, v) \/ UpdateRollout(r, p, v)
            \/ UpsertOverride(r, p, v)
       \/ \E p \in Processes : DeleteRollout(r, p) \/ DeleteOverride(r, p)
       \/ Record(r) \/ Commit(r) \/ Abort(r)
       \/ \E p \in Processes : Handle(r, p)

Spec == Init /\ [][Next]_vars

-----------------------------------------------------------------------------
(* Properties                                                              *)

UnderWay(r) == InTransaction(r) \/ change[r] = Announced

TypeOK ==
  /\ default \in BOOLEAN /\ rollout \in Maybe /\ override \in Maybe
  /\ cache \in [Processes -> Maybe]
  /\ \A q \in Readers : reader[q].at \in {"away", "rollouts", "override", "known"}
  /\ \A r \in Requests :
       change[r].at \in {"away", "written", "recorded", "announced", "ended"}
  /\ missed \subseteq Processes /\ wanted \in BOOLEAN /\ torn \in BOOLEAN

\* What a process remembers of a flag is what the database says, unless a change is under
\* way, or a change ended without an event, or its event went to another process or
\* overtook the evaluation, or the evaluation was for a plan.
StaleIsExplained ==
  \A p \in Processes :
    cache[p] \in {None, Effective} \/ p \in missed \/ \E r \in Requests : UnderWay(r)

\* An override disappears because it is reset, or for good because a replacement ended
\* halfway: the deletion of the old one is not part of the transaction.
OverrideIsKept ==
  wanted => override # None \/ torn
            \/ \E r \in Requests : Doing(r, "override")
=============================================================================
