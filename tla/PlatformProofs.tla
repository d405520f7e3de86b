---------------------------- MODULE PlatformProofs ----------------------------
(***************************************************************************)
(* Safety of the components of MCPlatform, for any values of their         *)
(* constants.  The components run side by side, and in a step each of them *)
(* takes a step of its own or stands still.  Every component has an        *)
(* inductive invariant of its own, one lemma that says the initial states  *)
(* have it and one that says every step keeps it.                          *)
(***************************************************************************)
EXTENDS MCPlatform, JobQueueProofs, PlatformBillingProofs

-----------------------------------------------------------------------------
(* The components side by side                                             *)

\* In a step of the platform each component takes a step of its own or stands still.
LEMMA ComponentsStep ==
  [PlatformNext]_PlatformVars =>
    /\ [BillingNext]_billingVars /\ [Plans!Next]_planVars /\ [Usage!Next]_usageVars
    /\ [Quota!Next]_quotaVars /\ [Delivery!Next]_deliveryVars /\ [Scheduler!Next]_schedulerVars
    /\ [Next]_vars /\ [Flags!Next]_flagVars /\ [Schools!Next]_schoolVars /\ [Portal!Next]_portalVars
    BY DEF PlatformNext, PlatformVars, Stays

-----------------------------------------------------------------------------
(* The scheduler fires once per minute                                     *)

\* At most one tick is under way; it began no later than now, and after whatever has fired.
OneTick ==
  /\ minute \in Nat /\ tick = [c \in Callbacks |-> tick[c]]
  /\ \A c \in Callbacks : tick[c] = [at |-> tick[c].at, now |-> tick[c].now]
  /\ \A c, d \in Callbacks : tick[c].at # "idle" /\ tick[d].at # "idle" => c = d
  /\ \A c \in Callbacks : tick[c].at # "idle" =>
       /\ draining /\ tick[c].now \in Nat /\ tick[c].now <= minute
       /\ tick[c].at = "enqueue" => lastFired # tick[c].now

\* What the memory of the scheduler does not cover threw after it took effect.
FiredIsCovered ==
  /\ fired \in Seq(Nat) /\ lastFired \in Nat \cup {-1} /\ lastFired <= minute
  /\ \A i \in DOMAIN fired : fired[i] <= minute /\ (fired[i] <= lastFired \/ fired[i] \in unsure)
  /\ \A c \in Callbacks : tick[c].at # "idle" =>
       /\ lastFired <= tick[c].now
       /\ \A i \in DOMAIN fired : fired[i] <= tick[c].now

SchedulerInv == OneTick /\ FiredIsCovered /\ Scheduler!FiresOncePerMinute

\* Nothing has fired at first.
LEMMA SchedulerBegins == Scheduler!Init => SchedulerInv
    BY DEF Scheduler!Init, Scheduler!IdleTick, Scheduler!Never, SchedulerInv, OneTick, FiredIsCovered,
           Scheduler!FiresOncePerMinute

\* A minute is appended to what has fired.
LEMMA MinuteAppended ==
  ASSUME SchedulerInv, NEW c \in Callbacks, tick[c].at = "enqueue",
         fired' = Append(fired, tick[c].now), unsure \subseteq unsure'
  PROVE  /\ fired' \in Seq(Nat) /\ Scheduler!FiresOncePerMinute'
         /\ \A i \in DOMAIN fired' : fired'[i] = tick[c].now \/ \E j \in DOMAIN fired : fired'[i] = fired[j]
<1> DEFINE now == tick[c].now
<1>1. /\ now \in Nat /\ fired \in Seq(Nat) /\ lastFired <= now /\ lastFired # now
      /\ \A i \in DOMAIN fired : fired[i] <= now /\ (fired[i] <= lastFired \/ fired[i] \in unsure)
    BY DEF SchedulerInv, OneTick, FiredIsCovered
<1>2. lastFired \in Int
    BY DEF SchedulerInv, FiredIsCovered
<1> HIDE DEF now
<1>3. /\ fired' \in Seq(Nat) /\ Len(fired') = Len(fired) + 1 /\ Len(fired) \in Nat
      /\ DOMAIN fired = 1 .. Len(fired) /\ DOMAIN fired' = 1 .. Len(fired')
      /\ fired'[Len(fired) + 1] = now /\ \A i \in DOMAIN fired : fired'[i] = fired[i] /\ fired[i] \in Nat
    BY <1>1 DEF now
<1>4. \A i \in DOMAIN fired : fired[i] < now \/ (fired[i] = now /\ now \in unsure')
    BY <1>1, <1>2, <1>3
<1>5. Scheduler!FiresOncePerMinute'
  <2> SUFFICES ASSUME NEW i \in DOMAIN fired', NEW j \in DOMAIN fired', i < j
               PROVE  fired'[i] < fired'[j] \/ (fired'[i] = fired'[j] /\ fired'[i] \in unsure')
      BY DEF Scheduler!FiresOncePerMinute
  <2>1. i \in DOMAIN fired /\ fired'[i] = fired[i]
      BY <1>3
  <2>2. CASE j \in DOMAIN fired
      BY <2>1, <2>2, <1>3 DEF SchedulerInv, Scheduler!FiresOncePerMinute
  <2>3. CASE j = Len(fired) + 1
      BY <2>1, <2>3, <1>3, <1>4
  <2> QED
      BY <2>2, <2>3, <1>3
<1> QED
    BY <1>3, <1>5 DEF now

\* Every step of the scheduler keeps its invariant.
LEMMA SchedulerKeeps == SchedulerInv /\ [Scheduler!Next]_schedulerVars => SchedulerInv'
<1> SUFFICES ASSUME SchedulerInv, [Scheduler!Next]_schedulerVars PROVE SchedulerInv'
    OBVIOUS
<1> USE DEF SchedulerInv, OneTick, FiredIsCovered
<1>1. CASE UNCHANGED schedulerVars
    BY <1>1 DEF schedulerVars, Scheduler!FiresOncePerMinute
<1>2. CASE Scheduler!TimePasses
    BY <1>2 DEF Scheduler!TimePasses, Scheduler!FiresOncePerMinute
<1>3. ASSUME NEW c \in Callbacks, Scheduler!Begin(c) PROVE SchedulerInv'
    BY <1>3 DEF Scheduler!Begin, Scheduler!FiresOncePerMinute
<1>4. ASSUME NEW c \in Callbacks, Scheduler!Skip(c) PROVE SchedulerInv'
    BY <1>4 DEF Scheduler!Skip, Scheduler!End, Scheduler!IdleTick, Scheduler!FiresOncePerMinute
<1>5. ASSUME NEW c \in Callbacks, Scheduler!Fire(c) PROVE SchedulerInv'
    BY <1>5 DEF Scheduler!Fire, Scheduler!ShouldFire, Scheduler!FiresOncePerMinute
<1>6. ASSUME NEW c \in Callbacks, Scheduler!Enqueued(c) \/ Scheduler!EnqueueThrows(c)
      PROVE  SchedulerInv'
  <2>1. /\ tick[c].at = "enqueue" /\ draining' = FALSE /\ minute' = minute
        /\ tick' = [tick EXCEPT ![c] = [at |-> "idle", now |-> 0]]
      BY <1>6 DEF Scheduler!Enqueued, Scheduler!EnqueueThrows, Scheduler!End, Scheduler!IdleTick
  <2>2. tick[c].now \in Nat /\ tick[c].now <= minute
      BY <2>1
  <2>3. \A d \in Callbacks : tick'[d].at = "idle"
      BY <2>1
  <2>4. OneTick'
      BY <2>1, <2>3
  <2>5. CASE Scheduler!Enqueued(c)
    <3>1. fired' = Append(fired, tick[c].now) /\ lastFired' = tick[c].now /\ unsure' = unsure
        BY <2>5 DEF Scheduler!Enqueued
    <3>2. /\ fired' \in Seq(Nat) /\ Scheduler!FiresOncePerMinute'
          /\ \A i \in DOMAIN fired' : fired'[i] = tick[c].now \/ \E j \in DOMAIN fired : fired'[i] = fired[j]
        BY <3>1, <2>1, MinuteAppended
    <3>3. \A i \in DOMAIN fired : fired[i] <= minute /\ fired[i] <= tick[c].now
        BY <2>1
    <3>4. \A i \in DOMAIN fired' : fired'[i] <= minute /\ fired'[i] <= tick[c].now
        BY <3>2, <3>3, <2>2
    <3>5. FiredIsCovered'
        BY <3>1, <3>2, <3>4, <2>1, <2>2, <2>3
    <3> QED
        BY <2>4, <3>2, <3>5
  <2>6. CASE UNCHANGED <<fired, unsure, lastFired>>
      BY <2>1, <2>3, <2>4, <2>6 DEF Scheduler!FiresOncePerMinute
  <2>7. CASE fired' = Append(fired, tick[c].now) /\ unsure' = unsure \cup {tick[c].now} /\ lastFired' = lastFired
    <3>2. /\ fired' \in Seq(Nat) /\ Scheduler!FiresOncePerMinute'
          /\ \A i \in DOMAIN fired' : fired'[i] = tick[c].now \/ \E j \in DOMAIN fired : fired'[i] = fired[j]
        BY <2>7, <2>1, MinuteAppended
    <3>3. \A i \in DOMAIN fired : fired[i] <= minute /\ (fired[i] <= lastFired \/ fired[i] \in unsure')
        BY <2>7
    <3>4. \A i \in DOMAIN fired' : fired'[i] <= minute /\ (fired'[i] <= lastFired \/ fired'[i] \in unsure')
        BY <3>2, <3>3, <2>2, <2>7
    <3>5. FiredIsCovered'
        BY <3>2, <3>4, <2>1, <2>3, <2>7
    <3> QED
        BY <2>4, <3>2, <3>5
  <2> QED
      BY <1>6, <2>5, <2>6, <2>7 DEF Scheduler!EnqueueThrows
<1> QED
    BY <1>1, <1>2, <1>3, <1>4, <1>5, <1>6 DEF Scheduler!Next

\* The scheduler fires once per matching minute, but for the minutes whose enqueueing threw
\* after it took effect; a dead letter stands for as many attempts as its job allows, and
\* a replayed one has a job that replaces it.
THEOREM JobsAlwaysTrue == PlatformSpec => []JobsAreTrue
<1>1. PlatformInit => SchedulerInv /\ IInv
    BY SchedulerBegins, InitEstablishes DEF PlatformInit
<1>2. SchedulerInv /\ IInv /\ [PlatformNext]_PlatformVars => SchedulerInv' /\ IInv'
    BY SchedulerKeeps, NextKeeps, ComponentsStep
<1>3. SchedulerInv /\ IInv => JobsAreTrue
    BY DEF SchedulerInv, IInv, JobsAreTrue
<1> QED
    BY <1>1, <1>2, <1>3, PTL DEF PlatformSpec

-----------------------------------------------------------------------------
(* Delivering a notification                                               *)

DeliveryTypes ==
  /\ message \in [status : Delivery!Status, version : Nat \ {0}, attempts : Nat]
  /\ event \in BOOLEAN /\ forgotten \in BOOLEAN
  /\ deliveries \in 0 .. MaxDeliveries /\ sends \in Nat /\ accepted \in Nat /\ faults \in 0 .. MaxFaults
  /\ sender \in [Senders -> [at : {"idle", "loaded", "sending", "accepted", "refused"},
                             version : Nat, attempts : Nat]]

\* A handler knows no version that is still to come, and none that was final.
VersionsLag ==
  \A w \in Senders : sender[w].at # "idle" =>
    /\ sender[w].version <= message.version
    /\ sender[w].version = message.version => message.status \notin Delivery!TERMINAL_STATUSES

\* Who has attempts left goes on, and who goes on has attempts left.
AttemptsLeft ==
  /\ message.attempts <= MaxTries
  /\ message.status \notin Delivery!TERMINAL_STATUSES => message.attempts < MaxTries
  /\ \A w \in Senders : /\ sender[w].attempts <= MaxTries
                        /\ sender[w].at # "idle" => sender[w].attempts < MaxTries

\* Nobody has begun to send a message that is queued or cancelled.
NobodyHasBegun ==
  message.status \in {"QUEUED", "CANCELLED"} =>
    accepted = 0 /\ \A w \in Senders : sender[w].at \in {"idle", "loaded"}

DeliveryInv == DeliveryTypes /\ VersionsLag /\ AttemptsLeft /\ NobodyHasBegun /\ Delivery!UnsentIsCarried

\* The row takes a status only while it is not final.
LEMMA TakesWhileOpen ==
  ASSUME VersionsLag, NEW w \in Senders, sender[w].at # "idle"
  PROVE  Delivery!Takes(sender[w].version) <=> message.status \notin Delivery!TERMINAL_STATUSES
    BY DEF VersionsLag, Delivery!Takes

\* A message is queued and its event is there at first.
LEMMA DeliveryBegins == MaxTries \in Nat \ {0} /\ MaxDeliveries \in Nat /\ MaxFaults \in Nat /\
                          Delivery!Init => DeliveryInv
<1> SUFFICES ASSUME MaxTries \in Nat \ {0}, MaxDeliveries \in Nat, MaxFaults \in Nat, Delivery!Init
             PROVE  DeliveryInv
    OBVIOUS
<1> USE DEF Delivery!Init, Delivery!Idle
<1>1. DeliveryTypes
  <2>1. event \in BOOLEAN /\ forgotten \in BOOLEAN
      OBVIOUS
  <2>2. /\ message \in [status : Delivery!Status, version : Nat \ {0}, attempts : Nat]
        /\ deliveries \in 0 .. MaxDeliveries /\ sends \in Nat /\ accepted \in Nat
        /\ faults \in 0 .. MaxFaults
      BY DEF Delivery!Status
  <2>3. sender \in [Senders -> [at : {"idle", "loaded", "sending", "accepted", "refused"},
                                 version : Nat, attempts : Nat]]
      OBVIOUS
  <2> QED
      BY <2>1, <2>2, <2>3 DEF DeliveryTypes
<1>2. VersionsLag /\ AttemptsLeft /\ NobodyHasBegun
    BY DEF VersionsLag, AttemptsLeft, NobodyHasBegun
<1>3. Delivery!UnsentIsCarried
    BY DEF Delivery!UnsentIsCarried
<1> QED
    BY <1>1, <1>2, <1>3 DEF DeliveryInv

\* Every step of the delivery keeps its invariant and leaves a cancelled message cancelled.
LEMMA DeliveryKeeps ==
  ASSUME MaxTries \in Nat \ {0}, MaxDeliveries \in Nat, MaxFaults \in Nat,
         DeliveryInv, [Delivery!Next]_deliveryVars
  PROVE  DeliveryInv' /\ (message.status = "CANCELLED" => message'.status = "CANCELLED")
<1> USE DEF DeliveryInv, Delivery!Status, Delivery!TERMINAL_STATUSES, Delivery!UnsentIsCarried
<1> DEFINE Goal == DeliveryInv' /\ (message.status = "CANCELLED" => message'.status = "CANCELLED")
<1>1. CASE UNCHANGED deliveryVars
    BY <1>1 DEF deliveryVars, DeliveryTypes, VersionsLag, AttemptsLeft, NobodyHasBegun
<1>2. CASE Delivery!Deliver
  <2>1. /\ deliveries < MaxDeliveries /\ deliveries' = deliveries + 1 /\ sends' = sends + 1
        /\ event' \in BOOLEAN
        /\ UNCHANGED <<message, sender, accepted, faults, forgotten>>
      BY <1>2 DEF Delivery!Deliver
  <2>2. DeliveryTypes'
      BY <2>1 DEF DeliveryTypes
  <2>3. sends' > 0
      BY <2>1 DEF DeliveryTypes
  <2>4. Delivery!UnsentIsCarried'
      BY <2>1, <2>3
  <2> QED
      BY <2>1, <2>2, <2>4 DEF VersionsLag, AttemptsLeft, NobodyHasBegun
<1>3. CASE Delivery!Cancel
    BY <1>3 DEF Delivery!Cancel, Delivery!Write, DeliveryTypes, VersionsLag, AttemptsLeft, NobodyHasBegun
<1>4. ASSUME NEW w \in Senders, Delivery!Load(w) PROVE Goal
    BY <1>4 DEF Delivery!Load, Delivery!Idle, DeliveryTypes, VersionsLag, AttemptsLeft, NobodyHasBegun
<1>5. ASSUME NEW w \in Senders, Delivery!ChannelDisabled(w) PROVE Goal
    BY <1>5, TakesWhileOpen
    DEF Delivery!ChannelDisabled, Delivery!Done, Delivery!Write, Delivery!Idle, DeliveryTypes, VersionsLag,
        AttemptsLeft, NobodyHasBegun
<1>6. ASSUME NEW w \in Senders, Delivery!StartSending(w) PROVE Goal
    BY <1>6, TakesWhileOpen
    DEF Delivery!StartSending, Delivery!Done, Delivery!Write, Delivery!Idle, DeliveryTypes, VersionsLag,
        AttemptsLeft, NobodyHasBegun
<1>7. ASSUME NEW w \in Senders, Delivery!Send(w) PROVE Goal
    BY <1>7 DEF Delivery!Send, DeliveryTypes, VersionsLag, AttemptsLeft, NobodyHasBegun
<1>8. ASSUME NEW w \in Senders, Delivery!RecordSuccess(w) PROVE Goal
    BY <1>8, TakesWhileOpen
    DEF Delivery!RecordSuccess, Delivery!Done, Delivery!Idle, DeliveryTypes, VersionsLag, AttemptsLeft,
        NobodyHasBegun
<1>9. ASSUME NEW w \in Senders, Delivery!RecordFailure(w) PROVE Goal
    BY <1>9, TakesWhileOpen
    DEF Delivery!RecordFailure, Delivery!Done, Delivery!Write, Delivery!Idle, DeliveryTypes, VersionsLag,
        AttemptsLeft, NobodyHasBegun
<1>10. ASSUME NEW w \in Senders, Delivery!Fault(w) PROVE Goal
  <2>1. /\ sender[w].at # "idle" /\ faults < MaxFaults /\ faults' = faults + 1
        /\ sender' = [sender EXCEPT ![w] = Delivery!Idle]
        /\ UNCHANGED <<message, event, deliveries, accepted>>
      BY <1>10 DEF Delivery!Fault, Delivery!Done
  <2>2. \/ forgotten' = TRUE /\ sends' \in {sends, sends + 1}
        \/ sends' = sends + 1 /\ forgotten' = forgotten /\ sender[w].at = "loaded"
      BY <1>10 DEF Delivery!Fault, DeliveryTypes
  <2>3. DeliveryTypes'
    <3>1. forgotten' \in BOOLEAN
        BY <2>2, Zenon DEF DeliveryTypes
    <3>2. sends' \in Nat
        BY <2>2 DEF DeliveryTypes
    <3> QED
        BY <2>1, <3>1, <3>2 DEF DeliveryTypes, Delivery!Idle
  <2>4. Delivery!UnsentIsCarried'
    <3>1. CASE forgotten' = TRUE
        BY <3>1
    <3>2. CASE sends' = sends + 1 /\ forgotten' = forgotten /\ sender[w].at = "loaded"
      <4>1. sends' > 0
          BY <3>2 DEF DeliveryTypes
      <4>2. \A v \in Senders : sender[v].at \notin {"idle", "loaded"} => sender'[v] = sender[v]
          BY <2>1, <3>2 DEF DeliveryTypes
      <4> QED
          BY <2>1, <3>2, <4>1, <4>2
    <3> QED
        BY <2>2, <3>1, <3>2
  <2> QED
      BY <2>1, <2>3, <2>4 DEF DeliveryTypes, VersionsLag, AttemptsLeft, NobodyHasBegun, Delivery!Idle
<1> QED
    BY <1>1, <1>2, <1>3, <1>4, <1>5, <1>6, <1>7, <1>8, <1>9, <1>10 DEF Delivery!Next

\* The inductive invariant of the delivery holds in every reachable state.
THEOREM DeliveryInvariantHolds == PlatformSpec => []DeliveryInv
<1>1. PlatformInit => DeliveryInv
    BY PlatformAssumption, DeliveryBegins DEF PlatformInit
<1>2. DeliveryInv /\ [PlatformNext]_PlatformVars => DeliveryInv'
    BY PlatformAssumption, ComponentsStep, DeliveryKeeps
<1> QED
    BY <1>1, <1>2, PTL DEF PlatformSpec

\* A message that is not settled has an event, a job or a handler that takes it further,
\* whatever is delivered twice, fails, crashes or is cancelled.
THEOREM UnsentAlwaysCarried == PlatformSpec => []UnsentIsCarried
<1>1. DeliveryInv => UnsentIsCarried
    BY DEF DeliveryInv, UnsentIsCarried
<1> QED
    BY <1>1, DeliveryInvariantHolds, PTL

\* A cancelled message stays cancelled, and no handler hands it to the provider.
THEOREM CancelledNeverSent == PlatformSpec => CancelledIsNeverSent
<1>1. DeliveryInv /\ DeliveryInv' /\ [PlatformNext]_PlatformVars =>
        [message.status = "CANCELLED" \/ message'.status = "CANCELLED" =>
           /\ message'.status = "CANCELLED" /\ accepted' = 0
           /\ \A w \in Senders : sender'[w].at \in {"idle", "loaded"}]_deliveryVars
  <2> SUFFICES ASSUME DeliveryInv, DeliveryInv', [PlatformNext]_PlatformVars,
                      message.status = "CANCELLED" \/ message'.status = "CANCELLED"
               PROVE  /\ message'.status = "CANCELLED" /\ accepted' = 0
                      /\ \A w \in Senders : sender'[w].at \in {"idle", "loaded"}
      OBVIOUS
  <2>1. message'.status = "CANCELLED"
      BY PlatformAssumption, ComponentsStep, DeliveryKeeps
  <2> QED
      BY <2>1 DEF DeliveryInv, NobodyHasBegun
<1>2. PlatformSpec => [][message.status = "CANCELLED" \/ message'.status = "CANCELLED" =>
           /\ message'.status = "CANCELLED" /\ accepted' = 0
           /\ \A w \in Senders : sender'[w].at \in {"idle", "loaded"}]_deliveryVars
    BY <1>1, DeliveryInvariantHolds, PTL DEF PlatformSpec
<1> QED
    BY <1>2 DEF CancelledIsNeverSent, Delivery!CancelledIsNeverSent, Delivery!vars, deliveryVars

-----------------------------------------------------------------------------
(* Feature flags                                                           *)

ReaderRows ==
  {Flags!Away} \cup [at : {"rollouts", "override", "known"}, process : Processes, plan : BOOLEAN,
                     default : BOOLEAN, value : Flags!Maybe, overtaken : BOOLEAN]

ChangeKinds == {"default", "roll out", "reroll", "roll back", "override", "reset"}

ChangeRows ==
  {Flags!Away, Flags!Announced, Flags!Ended} \cup
  [at : {"written", "recorded"}, kind : ChangeKinds, process : Processes, value : Flags!Maybe,
   replaces : BOOLEAN]

FlagTypes ==
  /\ default \in BOOLEAN /\ rollout \in Flags!Maybe /\ override \in Flags!Maybe
  /\ remembered \in [Processes -> Flags!Maybe]
  /\ reader \in [Readers -> ReaderRows] /\ change \in [Changes -> ChangeRows]
  /\ missed \subseteq Processes /\ wanted \in BOOLEAN /\ torn \in BOOLEAN

\* What a change that is under way writes is set or not, and an override is set to something.
ValuesAreSet ==
  \A r \in Changes : Flags!InTransaction(r) /\ change[r].kind \in {"override", "roll out"} =>
    change[r].value \in BOOLEAN

\* A change that may have written one of the tables. A rollout that is being created is not
\* written before it is announced.
Disturbing(r) ==
  \/ change[r].at = "announced"
  \/ change[r].at \in {"written", "recorded"} /\ change[r].kind # "roll out"

Disturbed == \E r \in Changes : Disturbing(r)

CachesAreTrue ==
  Disturbed \/ \A p \in Processes : remembered[p] \in {NoValue, Flags!Effective} \/ p \in missed

ReadersAreTrue ==
  Disturbed \/
  \A q \in Readers : reader[q].at # "away" =>
    \/ reader[q].overtaken
    \/ /\ reader[q].default = default
       /\ reader[q].at = "rollouts" => reader[q].value = NoValue
       /\ reader[q].at = "override" => rollout = NoValue
       /\ reader[q].at = "known" => reader[q].value = Flags!First(rollout, override)

\* A wanted override that is not there is being replaced, or its replacement was torn.
ReplacementUnderWay ==
  wanted /\ ~torn /\ override = NoValue =>
    \E r \in Changes : Flags!Doing(r, "override") /\ change[r].replaces

FlagInv == FlagTypes /\ ValuesAreSet /\ CachesAreTrue /\ ReadersAreTrue /\ ReplacementUnderWay

\* At first there is a default and nothing else.
LEMMA FlagsBegin == Flags!Init => FlagInv
<1> SUFFICES ASSUME Flags!Init PROVE FlagInv
    OBVIOUS
<1> USE DEF Flags!Init
<1>1. FlagTypes
  <2>1. wanted \in BOOLEAN /\ torn \in BOOLEAN
      OBVIOUS
  <2> QED
      BY <2>1 DEF FlagTypes, ReaderRows, ChangeRows, Flags!Maybe
<1>2. \A q \in Readers : reader[q].at = "away"
    BY DEF Flags!Away
<1>3. \A r \in Changes : change[r].at = "away"
    BY DEF Flags!Away
<1>4. ValuesAreSet /\ CachesAreTrue /\ ReadersAreTrue
    BY <1>2, <1>3 DEF ValuesAreSet, CachesAreTrue, ReadersAreTrue, Flags!InTransaction
<1>5. ReplacementUnderWay
    BY DEF ReplacementUnderWay
<1> QED
    BY <1>1, <1>4, <1>5 DEF FlagInv

\* Where a change and a reader can be.
LEMMA FlagStates ==
  ASSUME FlagTypes
  PROVE  /\ \A r \in Changes : change[r].at \in {"written", "recorded"} =>
              change[r] \in [at : {"written", "recorded"}, kind : ChangeKinds, process : Processes,
                             value : Flags!Maybe, replaces : BOOLEAN]
         /\ \A q \in Readers : reader[q].at # "away" =>
              reader[q] \in [at : {"rollouts", "override", "known"}, process : Processes, plan : BOOLEAN,
                             default : BOOLEAN, value : Flags!Maybe, overtaken : BOOLEAN]
         /\ \A q \in Readers : reader[q].at = "away" <=> reader[q] = Flags!Away
         /\ \A r \in Changes : change[r].at = "away" <=> change[r] = Flags!Away
    BY DEF FlagTypes, ReaderRows, ChangeRows, Flags!Away, Flags!Announced, Flags!Ended

\* A change begins.
FlagsBeginChange ==
  \E r \in Changes, kind \in ChangeKinds, p \in Processes, v \in Flags!Maybe :
    /\ kind \in {"override", "roll out"} => v \in BOOLEAN
    /\ Flags!Begin(r, kind, p, v)
    /\ \/ /\ kind = "roll out" /\ UNCHANGED <<default, rollout, override, wanted>>
       \/ /\ kind = "default" /\ default' \in BOOLEAN /\ UNCHANGED <<rollout, override, wanted>>
       \/ /\ kind \in {"reroll", "roll back"} /\ rollout' \in Flags!Maybe /\ UNCHANGED <<default, override, wanted>>
       \/ /\ kind = "override" /\ override' = NoValue /\ UNCHANGED <<default, rollout, wanted>>
       \/ /\ kind = "reset" /\ override' = NoValue /\ wanted' = FALSE /\ UNCHANGED <<default, rollout>>

\* What a step of the flags is: the time of a cache, a reader, or one of the steps of a change.
LEMMA FlagsSteps ==
  ASSUME Flags!Next
  PROVE  \/ \E q \in Readers : \/ \E p \in Processes, plan \in BOOLEAN : Flags!Look(q, p, plan)
                               \/ Flags!ReadRollouts(q) \/ Flags!ReadOverride(q) \/ Flags!Remember(q)
         \/ \E p \in Processes : Flags!Expire(p)
         \/ FlagsBeginChange
         \/ \E r \in Changes : Flags!Record(r) \/ Flags!Commit(r) \/ Flags!Abort(r)
         \/ \E r \in Changes, p \in Processes : Flags!Handle(r, p)
<1>1. ASSUME NEW r \in Changes, NEW p \in Processes, NEW v \in BOOLEAN,
             \/ Flags!UpdateDefinition(r, p, v) \/ Flags!CreateRollout(r, p, v)
             \/ Flags!UpdateRollout(r, p, v) \/ Flags!UpsertOverride(r, p, v)
      PROVE  FlagsBeginChange
  <2>1. CASE Flags!UpdateDefinition(r, p, v)
    <3>1. Flags!Begin(r, "default", p, NoValue) /\ default' \in BOOLEAN /\ UNCHANGED <<rollout, override, wanted>>
        BY <2>1 DEF Flags!UpdateDefinition
    <3> QED
        BY <3>1 DEF FlagsBeginChange, ChangeKinds, Flags!Maybe
  <2>2. CASE Flags!CreateRollout(r, p, v)
    <3>1. Flags!Begin(r, "roll out", p, v) /\ UNCHANGED <<default, rollout, override, wanted>>
        BY <2>2 DEF Flags!CreateRollout, Flags!tables
    <3> QED
        BY <3>1 DEF FlagsBeginChange, ChangeKinds, Flags!Maybe
  <2>3. CASE Flags!UpdateRollout(r, p, v)
    <3>1. Flags!Begin(r, "reroll", p, NoValue) /\ rollout' \in Flags!Maybe /\
            UNCHANGED <<default, override, wanted>>
        BY <2>3 DEF Flags!UpdateRollout, Flags!Maybe
    <3> QED
        BY <3>1 DEF FlagsBeginChange, ChangeKinds, Flags!Maybe
  <2>4. CASE Flags!UpsertOverride(r, p, v)
    <3>1. Flags!Begin(r, "override", p, v) /\ override' = NoValue /\ UNCHANGED <<default, rollout, wanted>>
        BY <2>4 DEF Flags!UpsertOverride
    <3> QED
        BY <3>1 DEF FlagsBeginChange, ChangeKinds, Flags!Maybe
  <2> QED
      BY <1>1, <2>1, <2>2, <2>3, <2>4
<1>2. ASSUME NEW r \in Changes, NEW p \in Processes, Flags!DeleteRollout(r, p) \/ Flags!DeleteOverride(r, p)
      PROVE  FlagsBeginChange
  <2>1. CASE Flags!DeleteRollout(r, p)
    <3>1. Flags!Begin(r, "roll back", p, NoValue) /\ rollout' \in Flags!Maybe /\
            UNCHANGED <<default, override, wanted>>
        BY <2>1 DEF Flags!DeleteRollout, Flags!Maybe
    <3> QED
        BY <3>1 DEF FlagsBeginChange, ChangeKinds, Flags!Maybe
  <2>2. CASE Flags!DeleteOverride(r, p)
    <3>1. /\ Flags!Begin(r, "reset", p, NoValue) /\ override' = NoValue /\ wanted' = FALSE
          /\ UNCHANGED <<default, rollout>>
        BY <2>2 DEF Flags!DeleteOverride
    <3> QED
        BY <3>1 DEF FlagsBeginChange, ChangeKinds, Flags!Maybe
  <2> QED
      BY <1>2, <2>1, <2>2
<1> QED
    BY <1>1, <1>2 DEF Flags!Next

\* Every step keeps the types of the flags.
LEMMA FlagTypesStay ==
  ASSUME FlagTypes, ValuesAreSet, [Flags!Next]_flagVars
  PROVE  FlagTypes' /\ ValuesAreSet'
<1> USE DEF FlagTypes
<1>1. CASE UNCHANGED flagVars
    BY <1>1 DEF flagVars, ValuesAreSet, Flags!InTransaction
<1>2. ASSUME NEW q \in Readers, NEW p \in Processes, NEW plan \in BOOLEAN, Flags!Look(q, p, plan)
      PROVE  FlagTypes' /\ ValuesAreSet'
  <2>1. PICK e \in ReaderRows : reader' = [reader EXCEPT ![q] = e]
      BY <1>2 DEF Flags!Look, Flags!To, ReaderRows, Flags!Maybe
  <2>2. UNCHANGED <<default, rollout, override, remembered, change, missed, wanted, torn>>
      BY <1>2 DEF Flags!Look, Flags!tables
  <2> QED
      BY <2>1, <2>2 DEF ValuesAreSet, Flags!InTransaction
<1>3. ASSUME NEW q \in Readers, Flags!ReadRollouts(q) \/ Flags!ReadOverride(q)
      PROVE  FlagTypes' /\ ValuesAreSet'
  <2>1. PICK e \in ReaderRows : reader' = [reader EXCEPT ![q] = e]
    <3>1. reader[q] \in [at : {"rollouts", "override", "known"}, process : Processes, plan : BOOLEAN,
                         default : BOOLEAN, value : Flags!Maybe, overtaken : BOOLEAN]
        BY <1>3, FlagStates DEF Flags!ReadRollouts, Flags!ReadOverride
    <3>2. \A at \in {"known", "override"}, v \in Flags!Maybe : [reader[q] EXCEPT !.at = at,
            !.value = v] \in ReaderRows
        BY <3>1 DEF ReaderRows
    <3>3. CASE Flags!ReadRollouts(q)
        BY <3>2, <3>3 DEF Flags!ReadRollouts, Flags!To
    <3>4. CASE Flags!ReadOverride(q)
        BY <3>2, <3>4 DEF Flags!ReadOverride, Flags!To
    <3> QED
        BY <1>3, <3>3, <3>4
  <2>2. UNCHANGED <<default, rollout, override, remembered, change, missed, wanted, torn>>
      BY <1>3 DEF Flags!ReadRollouts, Flags!ReadOverride, Flags!tables
  <2> QED
      BY <2>1, <2>2 DEF ValuesAreSet, Flags!InTransaction
<1>4. ASSUME NEW q \in Readers, Flags!Remember(q)
      PROVE  FlagTypes' /\ ValuesAreSet'
  <2>1. reader[q] \in [at : {"rollouts", "override", "known"}, process : Processes, plan : BOOLEAN,
                       default : BOOLEAN, value : Flags!Maybe, overtaken : BOOLEAN]
      BY <1>4, FlagStates DEF Flags!Remember
  <2>2. PICK v \in Flags!Maybe : remembered' = [remembered EXCEPT ![reader[q].process] = v]
      BY <1>4, <2>1, PlatformAssumption DEF Flags!Remember, Flags!First, Flags!Maybe
  <2>3. missed' \subseteq Processes /\ reader' \in [Readers -> ReaderRows]
      BY <1>4, <2>1 DEF Flags!Remember, Flags!To, ReaderRows
  <2>4. UNCHANGED <<default, rollout, override, change, wanted, torn>>
      BY <1>4 DEF Flags!Remember, Flags!tables
  <2> QED
      BY <2>1, <2>2, <2>3, <2>4 DEF ValuesAreSet, Flags!InTransaction
<1>5. ASSUME NEW p \in Processes, Flags!Expire(p) PROVE FlagTypes' /\ ValuesAreSet'
    BY <1>5 DEF Flags!Expire, Flags!tables, Flags!Maybe, ValuesAreSet, Flags!InTransaction
<1>6. CASE FlagsBeginChange
  <2>1. PICK r \in Changes, kind \in ChangeKinds, p \in Processes, v \in Flags!Maybe :
          /\ kind \in {"override", "roll out"} => v \in BOOLEAN
          /\ Flags!Begin(r, kind, p, v)
          /\ \/ UNCHANGED <<default, rollout, override, wanted>>
             \/ default' \in BOOLEAN /\ UNCHANGED <<rollout, override, wanted>>
             \/ rollout' \in Flags!Maybe /\ UNCHANGED <<default, override, wanted>>
             \/ override' = NoValue /\ UNCHANGED <<default, rollout>> /\ wanted' \in {wanted, FALSE}
      BY <1>6 DEF FlagsBeginChange
  <2> DEFINE replaced == kind = "override" /\ override # NoValue
             c == [at |-> "written", kind |-> kind, process |-> p, value |-> v, replaces |-> replaced]
  <2>2. /\ change' = [change EXCEPT ![r] = c]
        /\ UNCHANGED <<remembered, reader, missed, torn>>
      BY <2>1 DEF Flags!Begin, Flags!Goes
  <2>3. replaced \in BOOLEAN
      OBVIOUS
  <2>7. default' \in BOOLEAN /\ rollout' \in Flags!Maybe /\ override' \in Flags!Maybe
      BY <2>1 DEF Flags!Maybe
  <2>8. wanted' \in BOOLEAN
      BY <2>1, Zenon
  <2> HIDE DEF replaced
  <2>9. c \in ChangeRows /\ c.kind = kind /\ c.value = v /\ c.at = "written"
      BY <2>3 DEF ChangeRows
  <2> HIDE DEF c
  <2>5. FlagTypes'
      BY <2>2, <2>7, <2>8, <2>9
  <2>6. ValuesAreSet'
      BY <2>1, <2>2, <2>9 DEF ValuesAreSet, Flags!InTransaction
  <2> QED
      BY <2>5, <2>6
<1>7. ASSUME NEW r \in Changes, change[r].at \in {"written", "recorded"},
             \/ change' = [change EXCEPT ![r] = Flags!Announced]
             \/ change' = [change EXCEPT ![r] = Flags!Ended]
             \/ change' = [change EXCEPT ![r] = [change[r] EXCEPT !.at = "recorded"]]
      PROVE  change' \in [Changes -> ChangeRows] /\ ValuesAreSet'
  <2>1. change[r] \in [at : {"written", "recorded"}, kind : ChangeKinds, process : Processes,
                       value : Flags!Maybe, replaces : BOOLEAN]
      BY <1>7, FlagStates
  <2>2. [change[r] EXCEPT !.at = "recorded"] \in ChangeRows
      BY <2>1 DEF ChangeRows
  <2>3. change' \in [Changes -> ChangeRows]
      BY <1>7, <2>2 DEF ChangeRows
  <2>4. \/ change'[r].at \in {"announced", "ended"}
        \/ change'[r].kind = change[r].kind /\ change'[r].value = change[r].value
      BY <1>7, <2>1 DEF Flags!Announced, Flags!Ended
  <2>5. \A s \in Changes \ {r} : change'[s] = change[s]
      BY <1>7
  <2>6. ValuesAreSet'
      BY <1>7, <2>4, <2>5 DEF ValuesAreSet, Flags!InTransaction
  <2> QED
      BY <2>3, <2>6
<1>8. ASSUME NEW r \in Changes, Flags!Record(r) PROVE FlagTypes' /\ ValuesAreSet'
  <2>1. change[r] \in [at : {"written", "recorded"}, kind : ChangeKinds, process : Processes,
                       value : Flags!Maybe, replaces : BOOLEAN]
      BY <1>8, FlagStates DEF Flags!Record
  <2>2. /\ change' \in [Changes -> ChangeRows] /\ ValuesAreSet'
      BY <1>7, <1>8 DEF Flags!Record, Flags!Goes
  <2> QED
      BY <1>8, <2>1, <2>2 DEF Flags!Record, Flags!tables, Flags!Maybe
<1>9. ASSUME NEW r \in Changes, Flags!Commit(r) PROVE FlagTypes' /\ ValuesAreSet'
  <2>1. change[r] \in [at : {"written", "recorded"}, kind : ChangeKinds, process : Processes,
                       value : Flags!Maybe, replaces : BOOLEAN]
      BY <1>9, FlagStates DEF Flags!Commit
  <2>2. change' \in [Changes -> ChangeRows] /\ ValuesAreSet'
      BY <1>7, <1>9 DEF Flags!Commit, Flags!Goes
  <2>3. wanted' \in BOOLEAN
      BY <1>9, Zenon DEF Flags!Commit
  <2>4. rollout' \in Flags!Maybe /\ override' \in Flags!Maybe
      BY <1>9, <2>1 DEF Flags!Commit
  <2>5. UNCHANGED <<default, remembered, reader, missed, torn>>
      BY <1>9 DEF Flags!Commit
  <2> QED
      BY <2>2, <2>3, <2>4, <2>5
<1>10. ASSUME NEW processes \in SUBSET Processes, Flags!Uncorrected(processes)
       PROVE  missed' \subseteq Processes /\ reader' \in [Readers -> ReaderRows]
  <2>1. \A q \in Readers : reader[q] # Flags!Away => [reader[q] EXCEPT !.overtaken = TRUE] \in ReaderRows
    <3> SUFFICES ASSUME NEW q \in Readers, reader[q] # Flags!Away
                 PROVE  [reader[q] EXCEPT !.overtaken = TRUE] \in ReaderRows
        OBVIOUS
    <3>1. reader[q] \in [at : {"rollouts", "override", "known"}, process : Processes, plan : BOOLEAN,
                         default : BOOLEAN, value : Flags!Maybe, overtaken : BOOLEAN]
        BY FlagStates
    <3> QED
        BY <3>1 DEF ReaderRows
  <2> QED
      BY <1>10, <2>1 DEF Flags!Uncorrected, ReaderRows
<1>11. ASSUME NEW r \in Changes, Flags!Abort(r) PROVE FlagTypes' /\ ValuesAreSet'
  <2>1. change' \in [Changes -> ChangeRows] /\ ValuesAreSet'
      BY <1>7, <1>11 DEF Flags!Abort, Flags!Goes
  <2>2. missed' \subseteq Processes /\ reader' \in [Readers -> ReaderRows]
      BY <1>10, <1>11 DEF Flags!Abort
  <2>3. torn' \in BOOLEAN
      BY <1>11, Zenon DEF Flags!Abort
  <2> QED
      BY <1>11, <2>1, <2>2, <2>3 DEF Flags!Abort, Flags!tables
<1>12. ASSUME NEW r \in Changes, NEW p \in Processes, Flags!Handle(r, p) PROVE FlagTypes' /\ ValuesAreSet'
  <2>1. missed' \subseteq Processes /\ reader' \in [Readers -> ReaderRows]
      BY <1>10, <1>12 DEF Flags!Handle
  <2> QED
      BY <1>12, <2>1
      DEF Flags!Handle, Flags!tables, Flags!Goes, Flags!Ended, Flags!Maybe, ChangeRows, ValuesAreSet,
          Flags!InTransaction
<1> QED
    BY <1>1, <1>2, <1>3, <1>4, <1>5, <1>6, <1>8, <1>9, <1>11, <1>12, FlagsSteps

\* A change that writes a table is disturbing from then on.
LEMMA WritesDisturb ==
  ASSUME FlagTypes
  PROVE  /\ FlagsBeginChange => Disturbed' \/ UNCHANGED <<default, rollout, override>>
         /\ \A r \in Changes : Flags!Commit(r) => Disturbed'
<1>1. ASSUME FlagsBeginChange PROVE Disturbed' \/ UNCHANGED <<default, rollout, override>>
  <2>1. PICK r \in Changes, kind \in ChangeKinds, p \in Processes, v \in Flags!Maybe :
          /\ Flags!Begin(r, kind, p, v)
          /\ kind = "roll out" => UNCHANGED <<default, rollout, override>>
      BY <1>1 DEF FlagsBeginChange
  <2>2. change'[r].at = "written" /\ change'[r].kind = kind
      BY <2>1 DEF FlagTypes, Flags!Begin, Flags!Goes
  <2> QED
      BY <2>1, <2>2 DEF Disturbed, Disturbing
<1>2. ASSUME NEW r \in Changes, Flags!Commit(r) PROVE Disturbed'
  <2>1. change'[r].at = "announced"
      BY <1>2 DEF FlagTypes, Flags!Commit, Flags!Goes, Flags!Announced
  <2> QED
      BY <2>1 DEF Disturbed, Disturbing
<1> QED
    BY <1>1, <1>2

\* What is remembered and what is being evaluated stays true when no table is written.
LEMMA QuietTables ==
  ASSUME FlagTypes, CachesAreTrue, ReadersAreTrue, UNCHANGED <<default, rollout, override>>,
         Disturbed => Disturbed'
  PROVE  /\ (\A p \in Processes : \/ remembered'[p] = NoValue
                                  \/ remembered'[p] = remembered[p] /\ (p \in missed => p \in missed'))
              => CachesAreTrue'
         /\ reader' = reader => ReadersAreTrue'
<1>1. Flags!Effective' = Flags!Effective /\ Flags!First(rollout, override)' = Flags!First(rollout, override)
    BY DEF Flags!Effective, Flags!First
<1> QED
    BY <1>1 DEF CachesAreTrue, ReadersAreTrue

\* After a change nothing corrects what is remembered, and every evaluation is overtaken.
LEMMA UncorrectedTold ==
  ASSUME FlagTypes, NEW ps \in SUBSET Processes, Flags!Uncorrected(ps),
         \A p \in Processes : IF p \in ps THEN remembered'[p] = remembered[p]
                              ELSE remembered'[p] = NoValue
  PROVE  CachesAreTrue' /\ ReadersAreTrue'
<1>1. \A p \in Processes : remembered'[p] = NoValue \/ p \in missed'
    BY DEF Flags!Uncorrected
<1>2. \A q \in Readers : reader'[q].at # "away" => reader'[q].overtaken
  <2> SUFFICES ASSUME NEW q \in Readers, reader'[q].at # "away" PROVE reader'[q].overtaken
      OBVIOUS
  <2>1. reader[q] # Flags!Away /\ reader'[q] = [reader[q] EXCEPT !.overtaken = TRUE]
      BY DEF Flags!Uncorrected, Flags!Away
  <2>2. reader[q] \in [at : {"rollouts", "override", "known"}, process : Processes, plan : BOOLEAN,
                       default : BOOLEAN, value : Flags!Maybe, overtaken : BOOLEAN]
      BY <2>1, FlagStates
  <2> QED
      BY <2>1, <2>2
<1> QED
    BY <1>1, <1>2 DEF CachesAreTrue, ReadersAreTrue

\* What is remembered and what a reader holds stay true, unless a change is under way.
LEMMA FlagsStayTrue ==
  ASSUME FlagTypes, CachesAreTrue, ReadersAreTrue, [Flags!Next]_flagVars
  PROVE  CachesAreTrue' /\ ReadersAreTrue'
<1> DEFINE Row == [at : {"rollouts", "override", "known"}, process : Processes, plan : BOOLEAN,
                   default : BOOLEAN, value : Flags!Maybe, overtaken : BOOLEAN]
<1>0. ASSUME UNCHANGED change PROVE Disturbed' = Disturbed
    BY <1>0 DEF Disturbed, Disturbing
<1>1. CASE UNCHANGED flagVars
    BY <1>0, <1>1, QuietTables DEF flagVars
<1>2. ASSUME NEW q \in Readers, NEW p \in Processes, NEW plan \in BOOLEAN, Flags!Look(q, p, plan)
      PROVE  CachesAreTrue' /\ ReadersAreTrue'
  <2>1. UNCHANGED <<default, rollout, override, remembered, change, missed>>
      BY <1>2 DEF Flags!Look, Flags!tables
  <2>2. CachesAreTrue'
      BY <2>1, <1>0, QuietTables
  <2>3. /\ \A x \in Readers \ {q} : reader'[x] = reader[x]
        /\ reader'[q].at = "rollouts" /\ reader'[q].default = default /\ reader'[q].value = NoValue
      BY <1>2 DEF FlagTypes, Flags!Look, Flags!To
  <2>4. ReadersAreTrue'
      BY <2>1, <2>3, <1>0 DEF ReadersAreTrue, Flags!First
  <2> QED
      BY <2>2, <2>4
<1>3. ASSUME NEW q \in Readers, Flags!ReadRollouts(q) \/ Flags!ReadOverride(q)
      PROVE  CachesAreTrue' /\ ReadersAreTrue'
  <2>1. UNCHANGED <<default, rollout, override, remembered, change, missed>>
      BY <1>3 DEF Flags!ReadRollouts, Flags!ReadOverride, Flags!tables
  <2>2. CachesAreTrue'
      BY <2>1, <1>0, QuietTables
  <2>3. reader[q] \in Row
      BY <1>3, FlagStates DEF Flags!ReadRollouts, Flags!ReadOverride
  <2>4. \A x \in Readers \ {q} : reader'[x] = reader[x]
      BY <1>3 DEF FlagTypes, Flags!ReadRollouts, Flags!ReadOverride, Flags!To
  <2>9. ASSUME ~Disturbed /\ ~reader'[q].overtaken =>
                 /\ reader'[q].default = default
                 /\ reader'[q].at = "rollouts" => reader'[q].value = NoValue
                 /\ reader'[q].at = "override" => rollout = NoValue
                 /\ reader'[q].at = "known" => reader'[q].value = Flags!First(rollout, override)
        PROVE  ReadersAreTrue'
      BY <2>1, <2>4, <2>9, <1>0 DEF ReadersAreTrue, Flags!First
  <2>5. CASE Flags!ReadRollouts(q)
    <3> DEFINE at == IF rollout # NoValue THEN "known" ELSE "override"
    <3>1. reader[q].at = "rollouts" /\ at \in {"override", "known"} /\ (rollout = NoValue <=> at = "override")
        BY <2>5 DEF Flags!ReadRollouts
    <3>2. reader'[q] = [reader[q] EXCEPT !.at = at, !.value = rollout]
        BY <2>5 DEF FlagTypes, Flags!ReadRollouts, Flags!To
    <3> HIDE DEF at
    <3>3. /\ reader'[q].at = at /\ reader'[q].value = rollout
          /\ reader'[q].default = reader[q].default /\ reader'[q].overtaken = reader[q].overtaken
        BY <2>3, <3>2
    <3>4. ~Disturbed => \/ reader[q].overtaken
                        \/ reader[q].default = default
        BY <2>3 DEF ReadersAreTrue
    <3>5. rollout # NoValue => Flags!First(rollout, override) = rollout
        BY DEF Flags!First
    <3>6. ~Disturbed /\ ~reader'[q].overtaken => reader'[q].default = default
        BY <3>3, <3>4
    <3>7. reader'[q].at = "known" => reader'[q].value = Flags!First(rollout, override)
        BY <3>1, <3>3, <3>5
    <3>8. /\ reader'[q].at # "rollouts"
          /\ reader'[q].at = "override" => rollout = NoValue
        BY <3>1, <3>3
    <3> QED
        BY <2>2, <3>6, <3>7, <3>8, <2>9
  <2>6. CASE Flags!ReadOverride(q)
    <3>1. reader[q].at = "override"
        BY <2>6 DEF Flags!ReadOverride
    <3>2. reader'[q] = [reader[q] EXCEPT !.at = "known", !.value = override]
        BY <2>6 DEF FlagTypes, Flags!ReadOverride, Flags!To
    <3>3. /\ reader'[q].at = "known" /\ reader'[q].value = override
          /\ reader'[q].default = reader[q].default /\ reader'[q].overtaken = reader[q].overtaken
        BY <2>3, <3>2
    <3>4. ~Disturbed => \/ reader[q].overtaken
                        \/ reader[q].default = default /\ rollout = NoValue
        BY <2>3, <3>1 DEF ReadersAreTrue
    <3>5. rollout = NoValue => Flags!First(rollout, override) = override
        BY DEF Flags!First
    <3>6. ~Disturbed /\ ~reader'[q].overtaken =>
            reader'[q].default = default /\ reader'[q].value = Flags!First(rollout, override)
        BY <3>3, <3>4, <3>5
    <3>7. reader'[q].at \notin {"rollouts", "override"}
        BY <3>3
    <3> QED
        BY <2>2, <3>6, <3>7, <2>9
  <2>7. CachesAreTrue' /\ ReadersAreTrue'
      BY <1>3, <2>5, <2>6
  <2> QED
      BY <2>2, <2>7
<1>4. ASSUME NEW q \in Readers, Flags!Remember(q)
      PROVE  CachesAreTrue' /\ ReadersAreTrue'
  <2>1. UNCHANGED <<default, rollout, override, change>>
      BY <1>4 DEF Flags!Remember, Flags!tables
  <2>2. reader[q] \in Row /\ reader[q].at = "known"
      BY <1>4, FlagStates DEF Flags!Remember
  <2>3. PICK p \in Processes : p = reader[q].process
      BY <2>2
  <2>4. /\ \A x \in Processes \ {p} : remembered'[x] = remembered[x] /\ (x \in missed => x \in missed')
        /\ \A x \in Readers \ {q} : reader'[x] = reader[x]
        /\ reader'[q].at = "away"
      BY <1>4, <2>3 DEF FlagTypes, Flags!Remember, Flags!To, Flags!Away
  <2>5. ReadersAreTrue'
      BY <2>1, <2>4, <1>0 DEF ReadersAreTrue, Flags!First
  <2>6. p \in missed' \/ Disturbed \/ remembered'[p] = Flags!Effective
    <3> SUFFICES ASSUME p \notin missed', ~Disturbed PROVE remembered'[p] = Flags!Effective
        OBVIOUS
    <3>1. ~reader[q].overtaken /\ (reader[q].value = NoValue => ~reader[q].plan)
        BY <1>4, <2>3 DEF Flags!Remember
    <3>2. reader[q].default = default /\ reader[q].value = Flags!First(rollout, override)
        BY <2>2, <3>1 DEF ReadersAreTrue
    <3>3. remembered'[p] = Flags!First(reader[q].value, IF reader[q].plan THEN PlanValue ELSE reader[q].default)
        BY <1>4, <2>3 DEF FlagTypes, Flags!Remember
    <3> QED
        BY <3>1, <3>2, <3>3 DEF Flags!Effective, Flags!First
  <2>7. Flags!Effective' = Flags!Effective
      BY <2>1 DEF Flags!Effective, Flags!First
  <2>8. CachesAreTrue'
      BY <2>1, <2>4, <2>6, <2>7, <1>0 DEF CachesAreTrue
  <2> QED
      BY <2>5, <2>8
<1>5. ASSUME NEW p \in Processes, Flags!Expire(p) PROVE CachesAreTrue' /\ ReadersAreTrue'
  <2>1. UNCHANGED <<default, rollout, override, change, reader>>
      BY <1>5 DEF Flags!Expire, Flags!tables
  <2>2. \A x \in Processes : \/ remembered'[x] = NoValue
                             \/ remembered'[x] = remembered[x] /\ (x \in missed => x \in missed')
      BY <1>5 DEF FlagTypes, Flags!Expire
  <2> QED
      BY <2>1, <2>2, <1>0, QuietTables
<1>6. CASE FlagsBeginChange
  <2>1. CASE Disturbed'
      BY <2>1 DEF CachesAreTrue, ReadersAreTrue
  <2>2. CASE UNCHANGED <<default, rollout, override>>
    <3>1. PICK r \in Changes, kind \in ChangeKinds, p \in Processes, v \in Flags!Maybe :
            Flags!Begin(r, kind, p, v)
        BY <1>6 DEF FlagsBeginChange
    <3>2. change[r].at = "away" /\ \A s \in Changes \ {r} : change'[s] = change[s]
        BY <3>1 DEF FlagTypes, Flags!Begin, Flags!Goes, Flags!Away
    <3>3. Disturbed => Disturbed'
        BY <3>2 DEF Disturbed, Disturbing
    <3>4. UNCHANGED <<remembered, reader, missed>>
        BY <3>1 DEF Flags!Begin
    <3> QED
        BY <2>2, <3>3, <3>4, QuietTables
  <2> QED
      BY <1>6, <2>1, <2>2, WritesDisturb
<1>7. ASSUME NEW r \in Changes, Flags!Record(r) PROVE CachesAreTrue' /\ ReadersAreTrue'
  <2>1. change[r] \in [at : {"written", "recorded"}, kind : ChangeKinds, process : Processes,
                       value : Flags!Maybe, replaces : BOOLEAN] /\ change[r].at = "written"
      BY <1>7, FlagStates DEF Flags!Record
  <2>2. /\ \A s \in Changes \ {r} : change'[s] = change[s]
        /\ change'[r].at = "recorded" /\ change'[r].kind = change[r].kind
      BY <1>7, <2>1 DEF FlagTypes, Flags!Record, Flags!Goes
  <2>3. Disturbed => Disturbed'
      BY <2>1, <2>2 DEF Disturbed, Disturbing
  <2>4. UNCHANGED <<default, rollout, override, reader>>
      BY <1>7 DEF Flags!Record, Flags!tables
  <2>5. \A x \in Processes : \/ remembered'[x] = NoValue
                             \/ remembered'[x] = remembered[x] /\ (x \in missed => x \in missed')
      BY <1>7, <2>1 DEF FlagTypes, Flags!Record
  <2> QED
      BY <2>3, <2>4, <2>5, QuietTables
<1>8. ASSUME NEW r \in Changes, Flags!Commit(r) PROVE CachesAreTrue' /\ ReadersAreTrue'
    BY <1>8, WritesDisturb DEF CachesAreTrue, ReadersAreTrue
<1>9. ASSUME NEW r \in Changes, Flags!Abort(r) PROVE CachesAreTrue' /\ ReadersAreTrue'
  <2>1. CASE change[r].kind # "roll out"
    <3>1. Flags!Uncorrected(Processes) /\ remembered' = remembered
        BY <1>9, <2>1 DEF Flags!Abort
    <3> QED
        BY <3>1, UncorrectedTold
  <2>2. CASE change[r].kind = "roll out"
    <3>1. UNCHANGED <<default, rollout, override, reader, missed, remembered>>
        BY <1>9, <2>2 DEF Flags!Abort, Flags!tables
    <3>2. \A s \in Changes \ {r} : change'[s] = change[s]
        BY <1>9 DEF FlagTypes, Flags!Abort, Flags!Goes
    <3>3. Disturbed => Disturbed'
        BY <1>9, <2>2, <3>2 DEF Disturbed, Disturbing, Flags!Abort
    <3> QED
        BY <3>1, <3>3, QuietTables
  <2> QED
      BY <2>1, <2>2
<1>10. ASSUME NEW r \in Changes, NEW p \in Processes, Flags!Handle(r, p)
       PROVE  CachesAreTrue' /\ ReadersAreTrue'
  <2>1. Flags!Uncorrected(Processes \ {p}) /\ remembered' = [remembered EXCEPT ![p] = NoValue]
      BY <1>10 DEF Flags!Handle
  <2> QED
      BY <2>1, UncorrectedTold DEF FlagTypes
<1> QED
    BY <1>1, <1>2, <1>3, <1>4, <1>5, <1>6, <1>7, <1>8, <1>9, <1>10, FlagsSteps

\* An override that is wanted stays, or its replacement goes on, or it is torn.
LEMMA ReplacementStays ==
  ASSUME FlagTypes, ValuesAreSet, ReplacementUnderWay, [Flags!Next]_flagVars
  PROVE  ReplacementUnderWay'
<1> DEFINE Replacing(r) == Flags!Doing(r, "override") /\ change[r].replaces
<1>0. ASSUME NEW r \in Changes, \A s \in Changes \ {r} : change'[s] = change[s], torn => torn', wanted' => wanted,
             override' = NoValue => override = NoValue,
             Replacing(r) => Replacing(r)' \/ torn' \/ override' # NoValue
      PROVE  ReplacementUnderWay'
    BY <1>0 DEF ReplacementUnderWay, Flags!Doing, Flags!InTransaction
<1>1. ASSUME UNCHANGED <<change, torn, wanted, override>> PROVE ReplacementUnderWay'
    BY <1>1 DEF ReplacementUnderWay, Flags!Doing, Flags!InTransaction
<1>2. CASE UNCHANGED flagVars
    BY <1>1, <1>2 DEF flagVars
<1>3. ASSUME NEW q \in Readers,
             \/ \E p \in Processes, plan \in BOOLEAN : Flags!Look(q, p, plan)
             \/ Flags!ReadRollouts(q) \/ Flags!ReadOverride(q) \/ Flags!Remember(q)
      PROVE  ReplacementUnderWay'
    BY <1>1, <1>3 DEF Flags!Look, Flags!ReadRollouts, Flags!ReadOverride, Flags!Remember, Flags!tables
<1>4. ASSUME NEW p \in Processes, Flags!Expire(p) PROVE ReplacementUnderWay'
    BY <1>1, <1>4 DEF Flags!Expire, Flags!tables
<1>5. CASE FlagsBeginChange
  <2>1. PICK r \in Changes, kind \in ChangeKinds, p \in Processes, v \in Flags!Maybe :
          /\ Flags!Begin(r, kind, p, v)
          /\ \/ kind # "override" /\ UNCHANGED <<override, wanted>>
             \/ kind = "override" /\ override' = NoValue /\ UNCHANGED wanted
             \/ wanted' = FALSE
      BY <1>5 DEF FlagsBeginChange
  <2> DEFINE replaced == kind = "override" /\ override # NoValue
  <2>2. /\ change[r].at = "away" /\ UNCHANGED torn
        /\ change'[r] = [at |-> "written", kind |-> kind, process |-> p, value |-> v, replaces |-> replaced]
        /\ \A s \in Changes \ {r} : change'[s] = change[s]
      BY <2>1 DEF FlagTypes, Flags!Begin, Flags!Goes, Flags!Away
  <2>3. CASE kind # "override" /\ UNCHANGED <<override, wanted>>
      BY <2>2, <2>3, <1>0 DEF Flags!Doing, Flags!InTransaction
  <2>4. CASE kind = "override" /\ override' = NoValue /\ UNCHANGED wanted
    <3>1. CASE override # NoValue
      <4>1. replaced
          BY <2>4, <3>1
      <4> HIDE DEF replaced
      <4>2. change'[r].at = "written" /\ change'[r].kind = "override" /\ change'[r].replaces = replaced
          BY <2>2, <2>4
      <4> QED
          BY <4>1, <4>2 DEF ReplacementUnderWay, Flags!Doing, Flags!InTransaction
    <3>2. CASE override = NoValue
        BY <2>2, <2>4, <3>2, <1>0 DEF Flags!Doing, Flags!InTransaction
    <3> QED
        BY <3>1, <3>2
  <2>5. CASE wanted' = FALSE
      BY <2>5 DEF ReplacementUnderWay
  <2> QED
      BY <2>1, <2>3, <2>4, <2>5
<1>6. ASSUME NEW r \in Changes, Flags!Record(r) PROVE ReplacementUnderWay'
  <2>1. change[r] \in [at : {"written", "recorded"}, kind : ChangeKinds, process : Processes,
                       value : Flags!Maybe, replaces : BOOLEAN]
      BY <1>6, FlagStates DEF Flags!Record
  <2>2. /\ change'[r] = [change[r] EXCEPT !.at = "recorded"]
        /\ \A s \in Changes \ {r} : change'[s] = change[s]
        /\ UNCHANGED <<override, wanted, torn>>
      BY <1>6 DEF FlagTypes, Flags!Record, Flags!Goes, Flags!tables
  <2>3. /\ change'[r].at = "recorded" /\ change'[r].kind = change[r].kind
        /\ change'[r].replaces = change[r].replaces
      BY <2>1, <2>2
  <2> QED
      BY <2>2, <2>3, <1>0 DEF Flags!Doing, Flags!InTransaction
<1>7. ASSUME NEW r \in Changes, Flags!Commit(r) PROVE ReplacementUnderWay'
  <2>1. \A s \in Changes \ {r} : change'[s] = change[s]
      BY <1>7 DEF FlagTypes, Flags!Commit, Flags!Goes
  <2>2. CASE change[r].kind = "override"
    <3>1. override' \in BOOLEAN
        BY <1>7, <2>2 DEF Flags!Commit, ValuesAreSet, Flags!InTransaction
    <3> QED
        BY <3>1, PlatformAssumption DEF ReplacementUnderWay
  <2>3. CASE change[r].kind # "override"
      BY <1>7, <2>1, <2>3, <1>0 DEF Flags!Commit, Flags!Doing
  <2> QED
      BY <2>2, <2>3
<1>8. ASSUME NEW r \in Changes, Flags!Abort(r) PROVE ReplacementUnderWay'
  <2>1. \A s \in Changes \ {r} : change'[s] = change[s]
      BY <1>8 DEF FlagTypes, Flags!Abort, Flags!Goes
  <2>2. UNCHANGED <<override, wanted>> /\ torn' = (torn \/ change[r].replaces)
      BY <1>8 DEF Flags!Abort, Flags!tables
  <2> QED
      BY <2>1, <2>2, <1>0
<1>9. ASSUME NEW r \in Changes, NEW p \in Processes, Flags!Handle(r, p) PROVE ReplacementUnderWay'
  <2>1. \A s \in Changes \ {r} : change'[s] = change[s]
      BY <1>9 DEF FlagTypes, Flags!Handle, Flags!Goes
  <2> QED
      BY <1>9, <2>1, <1>0 DEF Flags!Handle, Flags!tables, Flags!Doing, Flags!InTransaction
<1> QED
    BY <1>2, <1>3, <1>4, <1>5, <1>6, <1>7, <1>8, <1>9, FlagsSteps

\* Every step of the flags keeps their invariant.
LEMMA FlagsKeep ==
  ASSUME FlagInv, [Flags!Next]_flagVars
  PROVE  FlagInv'
    BY FlagTypesStay, FlagsStayTrue, ReplacementStays DEF FlagInv

\* The invariant of the flags says what the component promises.
LEMMA FlagsExplained ==
  ASSUME FlagInv
  PROVE  Flags!StaleIsExplained /\ Flags!OverrideIsKept /\ Flags!TypeOK
<1>1. Disturbed => \E r \in Changes : Flags!UnderWay(r)
  <2>1. \A r \in Changes : change[r].at = "announced" => change[r] = Flags!Announced
      BY DEF FlagInv, FlagTypes, ChangeRows, Flags!Away, Flags!Announced, Flags!Ended
  <2> QED
      BY <2>1 DEF Disturbed, Disturbing, Flags!UnderWay, Flags!InTransaction
<1>2. Flags!StaleIsExplained
    BY <1>1 DEF FlagInv, CachesAreTrue, Flags!StaleIsExplained
<1>3. Flags!OverrideIsKept
    BY DEF FlagInv, ReplacementUnderWay, Flags!OverrideIsKept
<1>4. \A q \in Readers : reader[q].at \in {"away", "rollouts", "override", "known"}
    BY DEF FlagInv, FlagTypes, ReaderRows, Flags!Away
<1>5. \A r \in Changes : change[r].at \in {"away", "written", "recorded", "announced", "ended"}
    BY DEF FlagInv, FlagTypes, ChangeRows, Flags!Away, Flags!Announced, Flags!Ended
<1>6. Flags!TypeOK
    BY <1>4, <1>5 DEF FlagInv, FlagTypes, Flags!TypeOK
<1> QED
    BY <1>2, <1>3, <1>6

\* The inductive invariant of the flag holds in every reachable state.
THEOREM FlagInvariantHolds == PlatformSpec => []FlagInv
<1>1. PlatformInit => FlagInv
    BY FlagsBegin DEF PlatformInit
<1>2. FlagInv /\ [PlatformNext]_PlatformVars => FlagInv'
    BY ComponentsStep, FlagsKeep
<1> QED
    BY <1>1, <1>2, PTL DEF PlatformSpec

\* What a process remembers of a flag is what the tables say, unless the code has lost the
\* change, and an override that is wanted is there, is being replaced, or was torn.
THEOREM FlagsAlwaysExplained == PlatformSpec => []FlagsAreExplained
<1>1. FlagInv => FlagsAreExplained
    BY FlagsExplained DEF FlagsAreExplained
<1> QED
    BY <1>1, FlagInvariantHolds, PTL

-----------------------------------------------------------------------------
(* The monthly quota                                                       *)

DispatchRows ==
  [at : {"idle", "read"}, key : Keys \cup {-1}, elapsed : BOOLEAN, used : Nat, fresh : BOOLEAN]

\* Nobody creates messages of a period to come; whether a period has ended is seen as it is
\* by every dispatch whose version of the row is still the one it read.
QuotaLinks ==
  /\ elapsed => period < MaxResets
  /\ \A k \in Keys : created[k] <= period
  /\ \A d \in Dispatches : dispatch[d].at = "read" =>
       /\ dispatch[d].key \in Keys
       /\ dispatch[d].elapsed /\ dispatch[d].fresh => elapsed

QuotaInv == Quota!TypeOK /\ QuotaLinks /\ Quota!QuotaHolds

\* Nothing is counted at first.
LEMMA QuotaBegins == Quota!Init => QuotaInv
<1> SUFFICES ASSUME Quota!Init PROVE QuotaInv
    OBVIOUS
<1> USE DEF Quota!Init, Quota!Idle, Quota!None
<1>1. Quota!TypeOK
  <2>1. elapsed \in BOOLEAN /\ enabled \in BOOLEAN
      OBVIOUS
  <2>2. /\ counted \in Nat /\ period \in 0 .. MaxResets
        /\ created \in [Keys -> {-1} \cup 0 .. MaxResets]
      BY PlatformAssumption
  <2>3. dispatch \in [Dispatches -> DispatchRows]
      BY DEF DispatchRows
  <2> QED
      BY <2>1, <2>2, <2>3 DEF Quota!TypeOK, DispatchRows
<1>2. QuotaLinks
    BY DEF QuotaLinks
<1>3. \A p \in 0 .. MaxResets : Quota!Created(p) = {}
    BY DEF Quota!Created
<1>4. Quota!QuotaHolds
  <2>1. Quota!Cardinality({}) = 0
      BY FS_EmptySet DEF Quota!Cardinality, Cardinality
  <2>2. period \in 0 .. MaxResets /\ counted = 0 /\ 0 <= MonthlyLimit
      BY PlatformAssumption
  <2> QED
      BY <1>3, <2>1, <2>2 DEF Quota!QuotaHolds
<1> QED
    BY <1>1, <1>2, <1>4 DEF QuotaInv

\* A new version of the row is noticed by every dispatch that has read another.
LEMMA Overtaken ==
  ASSUME NEW ds \in [Dispatches -> DispatchRows]
  PROVE  /\ Quota!Overtake(ds) \in [Dispatches -> DispatchRows]
         /\ \A d \in Dispatches : /\ Quota!Overtake(ds)[d].at = ds[d].at
                                  /\ Quota!Overtake(ds)[d].key = ds[d].key
                                  /\ ds[d].at = "read" => ~Quota!Overtake(ds)[d].fresh
<1>1. \A d \in Dispatches : [ds[d] EXCEPT !.fresh = FALSE] \in DispatchRows
    BY DEF DispatchRows
<1>2. Quota!Overtake(ds) \in [Dispatches -> DispatchRows]
    BY <1>1 DEF Quota!Overtake
<1> QED
    BY <1>2 DEF Quota!Overtake, DispatchRows

\* The messages of a period, counted.
LEMMA CreatedCount ==
  ASSUME NEW p
  PROVE  /\ IsFiniteSet(Quota!Created(p))
         /\ Quota!Cardinality(Quota!Created(p)) = Cardinality(Quota!Created(p))
         /\ Cardinality(Quota!Created(p)) \in Nat
<1>1. Quota!Created(p) \subseteq Keys
    BY DEF Quota!Created
<1>2. IsFiniteSet(Quota!Created(p))
    BY <1>1, FS_Subset, PlatformAssumption
<1>3. \A S : Quota!Cardinality(S) = Cardinality(S)
    BY DEF Quota!Cardinality, Cardinality
<1> QED
    BY <1>2, <1>3, FS_CardinalityType

\* One message of a key that had none makes one more of its period, and of no other.
LEMMA OneMore ==
  ASSUME Quota!TypeOK, NEW k \in Keys, NEW now \in 0 .. MaxResets, created[k] = -1,
         created' = [created EXCEPT ![k] = now]
  PROVE  /\ Cardinality(Quota!Created(now)') = Cardinality(Quota!Created(now)) + 1
         /\ \A p \in 0 .. MaxResets : p # now => Quota!Created(p)' = Quota!Created(p)
<1>0. -1 \notin 0 .. MaxResets
    OBVIOUS
<1>1. created \in [Keys -> {-1} \cup 0 .. MaxResets]
    BY DEF Quota!TypeOK, Quota!None
<1>2. Quota!Created(now)' = Quota!Created(now) \cup {k} /\ k \notin Quota!Created(now)
    BY <1>0, <1>1 DEF Quota!Created
<1>3. \A p \in 0 .. MaxResets : p # now => Quota!Created(p)' = Quota!Created(p)
    BY <1>0, <1>1 DEF Quota!Created
<1> QED
    BY <1>2, <1>3, CreatedCount, FS_AddElement

\* Every step of the quota keeps its invariant.
LEMMA QuotaKeeps == QuotaInv /\ [Quota!Next]_quotaVars => QuotaInv'
<1> SUFFICES ASSUME QuotaInv, [Quota!Next]_quotaVars PROVE QuotaInv'
    OBVIOUS
<1> USE DEF QuotaInv
<1>1. /\ elapsed \in BOOLEAN /\ enabled \in BOOLEAN /\ counted \in Nat /\ period \in 0 .. MaxResets
      /\ created \in [Keys -> {-1} \cup 0 .. MaxResets] /\ dispatch \in [Dispatches -> DispatchRows]
    BY DEF Quota!TypeOK, DispatchRows, Quota!None
<1>2. ASSUME /\ elapsed' \in BOOLEAN /\ enabled' \in BOOLEAN /\ counted' \in Nat
             /\ period' \in 0 .. MaxResets /\ created' \in [Keys -> {-1} \cup 0 .. MaxResets]
             /\ dispatch' \in [Dispatches -> DispatchRows]
      PROVE  Quota!TypeOK'
    BY <1>2 DEF Quota!TypeOK, DispatchRows, Quota!None
<1>3. /\ \A p \in 0 .. MaxResets : Cardinality(Quota!Created(p)) <= MonthlyLimit
      /\ Cardinality(Quota!Created(period)) <= counted
    BY <1>1, CreatedCount DEF Quota!QuotaHolds
<1>4. ASSUME /\ \A p \in 0 .. MaxResets : Cardinality(Quota!Created(p)') <= MonthlyLimit
             /\ Cardinality(Quota!Created(period)') <= counted'
      PROVE  Quota!QuotaHolds'
  <2>1. \A S : Quota!Cardinality(S) = Cardinality(S)
      BY DEF Quota!Cardinality, Cardinality
  <2> QED
      BY <1>4, <2>1 DEF Quota!QuotaHolds
<1>5. ASSUME created' = created, period' = period, counted' = counted PROVE Quota!QuotaHolds'
    BY <1>5 DEF Quota!QuotaHolds, Quota!Created
<1>6. CASE UNCHANGED quotaVars
    BY <1>1, <1>2, <1>5, <1>6 DEF quotaVars, QuotaLinks
<1>7. CASE Quota!PeriodEnds
    BY <1>1, <1>2, <1>5, <1>7 DEF Quota!PeriodEnds, QuotaLinks
<1>8. CASE Quota!SetEnabled
  <2>1. enabled' \in BOOLEAN
      BY <1>8, <1>1, Zenon DEF Quota!SetEnabled
  <2> QED
      BY <1>1, <1>2, <1>5, <1>8, <2>1, Overtaken DEF Quota!SetEnabled, QuotaLinks
<1>9. CASE Quota!ResetUsage
  <2>1. /\ period' = period + 1 /\ period < MaxResets /\ counted' = 0 /\ elapsed' = FALSE
        /\ dispatch' = Quota!Overtake(dispatch) /\ UNCHANGED <<enabled, created>>
      BY <1>9 DEF Quota!ResetUsage
  <2>2. period' \in 0 .. MaxResets
      BY <2>1, <1>1, PlatformAssumption
  <2>3. Quota!TypeOK'
      BY <2>1, <2>2, <1>1, <1>2, Overtaken
  <2>4. QuotaLinks'
      BY <2>1, <1>1, Overtaken DEF QuotaLinks
  <2>5. \A p : Quota!Created(p)' = Quota!Created(p)
      BY <2>1 DEF Quota!Created
  <2>6. Quota!Created(period)' = {}
      BY <2>1, <1>1 DEF Quota!Created, QuotaLinks
  <2>7. Cardinality(Quota!Created(period)') = 0
      BY <2>6, FS_EmptySet
  <2> QED
      BY <2>1, <2>3, <2>4, <2>5, <2>7, <1>3, <1>4
<1>10. ASSUME NEW d \in Dispatches, NEW k \in Keys, Quota!Read(d, k) PROVE QuotaInv'
  <2>1. [at |-> "read", key |-> k, elapsed |-> elapsed, used |-> counted, fresh |-> TRUE] \in DispatchRows
      BY <1>1 DEF DispatchRows
  <2> QED
      BY <1>1, <1>2, <1>5, <1>10, <2>1 DEF Quota!Read, QuotaLinks
<1>11. ASSUME NEW d \in Dispatches, Quota!Rollback(d) PROVE QuotaInv'
  <2>1. Quota!Idle \in DispatchRows /\ Quota!Idle.at = "idle"
      BY DEF DispatchRows, Quota!Idle, Quota!None
  <2> QED
      BY <1>1, <1>2, <1>5, <1>11, <2>1 DEF Quota!Rollback, QuotaLinks
<1>12. ASSUME NEW d \in Dispatches, Quota!Commit(d) PROVE QuotaInv'
  <2>1. PICK k \in Keys, roll \in BOOLEAN : k = dispatch[d].key /\ roll = dispatch[d].elapsed
      BY <1>1, <1>12 DEF Quota!Commit, QuotaLinks, DispatchRows
  <2>2. dispatch[d].at = "read" /\ (roll => elapsed /\ period < MaxResets)
      BY <1>12, <2>1 DEF Quota!Commit, QuotaLinks
  <2>3. PICK now \in 0 .. MaxResets : now = period + (IF roll THEN 1 ELSE 0)
      BY <1>1, <2>2, PlatformAssumption
  <2>4. PICK base \in Nat : base = IF roll THEN 0 ELSE counted
      BY <1>1
  <2> DEFINE idle == [dispatch EXCEPT ![d] = Quota!Idle]
  <2>5. /\ period' = now /\ counted' = base + 1 /\ enabled' = enabled
        /\ elapsed' = (elapsed /\ ~roll)
        /\ dispatch' = IF roll THEN Quota!Overtake(idle) ELSE idle
      BY <1>12, <2>1, <2>3, <2>4 DEF Quota!Commit
  <2>6. \/ created' = created
        \/ created[k] = -1 /\ counted' <= MonthlyLimit /\ created' = [created EXCEPT ![k] = now]
      BY <1>1, <1>12, <2>1, <2>3, <2>4, <2>5 DEF Quota!Commit, Quota!WithinLimit, Quota!None
  <2>7. idle \in [Dispatches -> DispatchRows] /\ idle[d].at = "idle" /\
          \A e \in Dispatches \ {d} : idle[e] = dispatch[e]
      BY <1>1 DEF Quota!Idle, DispatchRows, Quota!None
  <2> HIDE DEF idle
  <2>8. created' \in [Keys -> {-1} \cup 0 .. MaxResets]
      BY <1>1, <2>6
  <2>9. elapsed' \in BOOLEAN
      BY <2>5, Zenon
  <2>10. Quota!TypeOK'
      BY <1>1, <1>2, <2>5, <2>7, <2>8, <2>9, Overtaken
  <2>11. QuotaLinks'
    <3>1. \A l \in Keys : created'[l] <= period'
        BY <1>1, <2>3, <2>5, <2>6 DEF QuotaLinks
    <3>2. CASE roll
      <4>1. \A e \in Dispatches : /\ dispatch'[e].at = idle[e].at /\ dispatch'[e].key = idle[e].key
                                  /\ idle[e].at = "read" => ~dispatch'[e].fresh
          BY <3>2, <2>5, <2>7, Overtaken
      <4>2. \A e \in Dispatches : dispatch'[e].at = "read" => dispatch'[e].key \in Keys /\ ~dispatch'[e].fresh
          BY <4>1, <2>7 DEF QuotaLinks
      <4>3. elapsed' = FALSE
          BY <3>2, <2>5
      <4> QED
          BY <3>1, <4>2, <4>3 DEF QuotaLinks
    <3>3. CASE ~roll
        BY <3>1, <3>3, <1>1, <2>3, <2>5, <2>7 DEF QuotaLinks
    <3> QED
        BY <3>2, <3>3
  <2>12. Cardinality(Quota!Created(now)) <= base
    <3>1. CASE roll
      <4>1. Quota!Created(now) = {}
          BY <3>1, <1>1, <2>3 DEF Quota!Created, QuotaLinks
      <4> QED
          BY <4>1, <3>1, <2>4, FS_EmptySet
    <3>2. CASE ~roll
        BY <3>2, <1>1, <1>3, <2>3, <2>4
    <3> QED
        BY <3>1, <3>2
  <2>13. Quota!Created(period)' = Quota!Created(now)'
      BY <2>5 DEF Quota!Created
  <2>14. Cardinality(Quota!Created(now)) \in Nat
      BY CreatedCount
  <2>15. CASE created' = created
    <3>1. \A p : Quota!Created(p)' = Quota!Created(p)
        BY <2>15 DEF Quota!Created
    <3> QED
        BY <3>1, <2>5, <2>12, <2>13, <2>14, <1>3, <1>4, <2>10, <2>11
  <2>16. CASE created[k] = -1 /\ counted' <= MonthlyLimit /\ created' = [created EXCEPT ![k] = now]
    <3>1. /\ Cardinality(Quota!Created(now)') = Cardinality(Quota!Created(now)) + 1
          /\ \A p \in 0 .. MaxResets : p # now => Quota!Created(p)' = Quota!Created(p)
        BY <2>16, OneMore
    <3>2. Cardinality(Quota!Created(now)') <= counted'
        BY <3>1, <2>5, <2>12, <2>14
    <3>3. Cardinality(Quota!Created(now)') <= MonthlyLimit
        BY <3>1, <3>2, <2>5, <2>14, <2>16, PlatformAssumption
    <3>4. \A p \in 0 .. MaxResets : Cardinality(Quota!Created(p)') <= MonthlyLimit
        BY <3>1, <3>3, <1>3
    <3> QED
        BY <3>2, <3>4, <2>13, <1>4, <2>10, <2>11
  <2> QED
      BY <2>6, <2>15, <2>16
<1> QED
    BY <1>6, <1>7, <1>8, <1>9, <1>10, <1>11, <1>12 DEF Quota!Next

-----------------------------------------------------------------------------
(* What a school uses                                                      *)

ClientRows ==
  [at : {"idle", "consuming", "uploading", "deleting", "releasing", "releasing2"},
   entity : Students \cup Files \cup {NoEntity}, used : Int, band : {-1, 0, 80, 90, 100},
   fresh : BOOLEAN]

UsageTypes ==
  /\ usable \in BOOLEAN /\ twice \in BOOLEAN
  /\ lost \subseteq Files /\ raced \subseteq Usage!Features
  /\ used \in [Usage!Features -> Int]
  /\ entity \in [Usage!Entities -> {"absent", "live", "gone"}]
  /\ client \in [Clients -> ClientRows]

BandTypes ==
  /\ band \in [Usage!Features -> {-1, 80, 90, 100}]
  /\ sent = [f \in Usage!Features |-> sent[f]]
  /\ \A f \in Usage!Features : sent[f] \in Seq({80, 90, 100}) /\ (sent[f] = <<>> <=> band[f] = -1)

\* Whose file a request has counted and not yet stored or released.
Owing(c) == client[c].at \in {"uploading", "releasing", "releasing2"}
Releasing(c) == client[c].at \in {"releasing", "releasing2"}

\* A request that creates is alone with its row, which is not there yet; rows that are to be
\* released are gone, and so are those nobody will release.
RowsFollow ==
  /\ \A c \in Clients :
       /\ client[c].at # "idle" => client[c].entity \in Usage!Entities
       /\ client[c].at \notin {"idle", "consuming"} => client[c].entity \in Files
       /\ client[c].at \in {"consuming", "uploading"} =>
            /\ entity[client[c].entity] = "absent"
            /\ \A d \in Clients \ {c} : client[d].at = "idle" \/ client[d].entity # client[c].entity
       /\ client[c].at = "deleting" => entity[client[c].entity] # "absent"
       /\ Releasing(c) => entity[client[c].entity] = "gone"
       /\ client[c].at = "consuming" =>
            client[c].used + Size[client[c].entity] <= Limit[Usage!FeatureOf(client[c].entity)]
  /\ \A e \in lost : entity[e] = "gone"

\* Unless a file was deleted twice, one request at most releases it, or none ever will, and
\* what it takes off the counter was in its snapshot.
ReleasedOnce ==
  ~twice => \A c \in Clients : Releasing(c) =>
    /\ client[c].entity \notin lost
    /\ \A d \in Clients \ {c} : Releasing(d) => client[d].entity # client[c].entity
    /\ client[c].at = "releasing2" => Size[client[c].entity] <= client[c].used

\* The rows that are counted.
StudentCounts == {e \in Students : entity[e] = "live"}
FileCounted(e) == \/ entity[e] = "live" \/ e \in lost
           \/ \E c \in Clients : client[c].entity = e /\ Owing(c)
FileCounts == {e \in Files : FileCounted(e)}

CountsAdd ==
  /\ used["students"] = SumFunctionOnSet(Size, StudentCounts)
  /\ ~twice => used["storage"] = SumFunctionOnSet(Size, FileCounts)

UsageInv == /\ UsageTypes /\ BandTypes /\ RowsFollow /\ ReleasedOnce /\ CountsAdd
            /\ Usage!OvershootIsRaced /\ Usage!BandsRise

\* The sum of the model and the sum of the theory are one.
LEMMA UsageSum == ASSUME NEW T PROVE Usage!Sizes(T) = SumFunctionOnSet(Size, T)
<1>1. Usage!Sizes(T) = (CHOOSE g : Accumulates(g, Size, T))[T]
    BY DEF Usage!Sizes, Usage!MapThenSumSet, Usage!MapThenFoldSet, Accumulates, Some
<1> QED
    BY <1>1, SumByChoice

\* A row that is counted, and one that is no longer.
LEMMA SumGains ==
  ASSUME NEW S, IsFiniteSet(S), NEW x \in S, NEW f, \A y \in S : f[y] \in Nat,
         NEW T \in SUBSET S
  PROVE  /\ SumFunctionOnSet(f, T) \in Nat
         /\ x \notin T => SumFunctionOnSet(f, T \cup {x}) = SumFunctionOnSet(f, T) + f[x]
         /\ x \in T => SumFunctionOnSet(f, T \ {x}) = SumFunctionOnSet(f, T) - f[x]
                       /\ f[x] <= SumFunctionOnSet(f, T)
<1>1. ASSUME NEW U \in SUBSET S
      PROVE  /\ SumFunctionOnSet(f, U) \in Nat /\ \A y \in U : f[y] <= SumFunctionOnSet(f, U)
             /\ \A y \in U : SumFunctionOnSet(f, U) = f[y] + SumFunctionOnSet(f, U \ {y})
  <2>1. IsFiniteSet(U) /\ \A y \in U : f[y] \in Nat
      BY FS_Subset
  <2>2. SumFunctionOnSet(f, U) \in Nat /\ \A y \in U : f[y] <= SumFunctionOnSet(f, U)
      BY <2>1, SumBounds
  <2>3. \A y \in U : f[y] \in Int
      BY <2>1
  <2> QED
      BY <2>1, <2>2, <2>3, SumRemoves
<1>2. x \notin T => (T \cup {x}) \ {x} = T
    OBVIOUS
<1>3. T \cup {x} \in SUBSET S /\ T \ {x} \in SUBSET S
    OBVIOUS
<1>4. SumFunctionOnSet(f, T) \in Nat /\ SumFunctionOnSet(f, T \ {x}) \in Nat /\ f[x] \in Nat
    BY <1>1, <1>3
<1>5. ASSUME x \notin T PROVE SumFunctionOnSet(f, T \cup {x}) = SumFunctionOnSet(f, T) + f[x]
  <2>1. SumFunctionOnSet(f, T \cup {x}) = f[x] + SumFunctionOnSet(f, (T \cup {x}) \ {x})
      BY <1>1, <1>3
  <2> QED
      BY <2>1, <1>2, <1>4, <1>5
<1>6. ASSUME x \in T
      PROVE  SumFunctionOnSet(f, T) = f[x] + SumFunctionOnSet(f, T \ {x}) /\ f[x] <= SumFunctionOnSet(f, T)
    BY <1>1, <1>6
<1> QED
    BY <1>4, <1>5, <1>6

\* Sizes and limits are numbers; a file counts for the storage, a student for the students.
LEMMA SizesAndLimits ==
  /\ \A e \in Usage!Entities : Size[e] \in Nat
  /\ \A f \in Usage!Features : Limit[f] \in Nat
  /\ \A e : Usage!FeatureOf(e) \in Usage!Features
  /\ \A e \in Files : e \in Usage!Entities /\ e \notin Students /\ Usage!FeatureOf(e) = "storage"
  /\ \A e \in Students : e \in Usage!Entities /\ Usage!FeatureOf(e) = "students"
    BY PlatformAssumption DEF Usage!Entities, Usage!Features, Usage!FeatureOf

\* At first nothing exists and nothing is counted.
LEMMA UsageBegins == Usage!Init => UsageInv
<1> SUFFICES ASSUME Usage!Init PROVE UsageInv
    OBVIOUS
<1> USE DEF Usage!Init, Usage!Idle, Usage!NoRow
<1>1. UsageTypes
  <2>1. usable \in BOOLEAN /\ twice \in BOOLEAN
      OBVIOUS
  <2>2. client \in [Clients -> ClientRows]
      BY DEF ClientRows
  <2>3. /\ lost \subseteq Files /\ raced \subseteq Usage!Features
        /\ used \in [Usage!Features -> Int]
        /\ entity \in [Usage!Entities -> {"absent", "live", "gone"}]
      OBVIOUS
  <2> QED
      BY <2>1, <2>2, <2>3 DEF UsageTypes
<1>2. BandTypes
    BY DEF BandTypes
<1>3. RowsFollow /\ ReleasedOnce
    BY DEF RowsFollow, ReleasedOnce, Releasing
<1>4. CountsAdd
  <2>1. StudentCounts = {} /\ FileCounts = {}
      BY SizesAndLimits DEF StudentCounts, FileCounts, FileCounted, Owing
  <2>2. SumFunctionOnSet(Size, {}) = 0
      BY SumBegins, FS_EmptySet
  <2> QED
      BY <2>1, <2>2 DEF CountsAdd, Usage!Features
<1>5. Usage!OvershootIsRaced
    BY SizesAndLimits DEF Usage!OvershootIsRaced
<1>6. Usage!BandsRise
    BY DEF Usage!BandsRise
<1> QED
    BY <1>1, <1>2, <1>3, <1>4, <1>5, <1>6 DEF UsageInv

\* A band is only followed by a higher one.
LEMMA BandMoves ==
  ASSUME BandTypes, Usage!BandsRise, NEW c, NEW f \in Usage!Features, NEW new \in {0, 80, 90, 100},
         NEW after, Usage!AdvanceBand(c, f, new, after)
  PROVE  BandTypes' /\ Usage!BandsRise'
<1>1. CASE UNCHANGED <<band, sent>>
    BY <1>1 DEF BandTypes, Usage!BandsRise
<1>2. CASE new # 0 /\ band' = [band EXCEPT ![f] = IF new > @ THEN new ELSE @]
           /\ sent' = [sent EXCEPT ![f] = IF new > band[f] THEN Append(@, new) ELSE @]
  <2>1. band[f] \in Int /\ new \in Int
      BY DEF BandTypes
  <2>2. CASE ~(new > band[f])
    <3>1. \A g \in Usage!Features : band'[g] = band[g] /\ sent'[g] = sent[g]
        BY <1>2, <2>2 DEF BandTypes
    <3>2. BandTypes'
        BY <1>2, <2>2, <3>1 DEF BandTypes
    <3> QED
        BY <3>1, <3>2 DEF Usage!BandsRise
  <2>3. CASE new > band[f]
    <3>1. /\ band' = [band EXCEPT ![f] = new] /\ sent' = [sent EXCEPT ![f] = Append(sent[f], new)]
        BY <1>2, <2>3
    <3>2. /\ sent[f] \in Seq({80, 90, 100}) /\ new \in {80, 90, 100}
          /\ sent'[f] = Append(sent[f], new) /\ band'[f] = new
          /\ \A g \in Usage!Features \ {f} : sent'[g] = sent[g] /\ band'[g] = band[g]
        BY <1>2, <3>1 DEF BandTypes
    <3>3. /\ Len(sent[f]) \in Nat /\ sent'[f] \in Seq({80, 90, 100}) /\ sent'[f] # <<>>
          /\ DOMAIN sent[f] = 1 .. Len(sent[f]) /\ DOMAIN sent'[f] = 1 .. Len(sent[f]) + 1
          /\ Len(sent'[f]) = Len(sent[f]) + 1 /\ sent'[f][Len(sent[f]) + 1] = new
          /\ \A i \in 1 .. Len(sent[f]) : sent'[f][i] = sent[f][i] /\ sent[f][i] \in {80, 90, 100}
        BY <3>2
    <3>4. BandTypes'
      <4>1. band' \in [Usage!Features -> {-1, 80, 90, 100}]
          BY <3>1, <3>2 DEF BandTypes
      <4>2. sent' = [g \in Usage!Features |-> sent'[g]]
          BY <3>1 DEF BandTypes
      <4>3. \A g \in Usage!Features \ {f} : sent'[g] \in Seq({80, 90, 100}) /\ (sent'[g] = <<>> <=> band'[g] = -1)
          BY <3>2 DEF BandTypes
      <4>4. band'[f] # -1
          BY <3>2
      <4> QED
          BY <4>1, <4>2, <4>3, <4>4, <3>3 DEF BandTypes
    <3>5. \A i \in 1 .. Len(sent[f]) : sent[f][i] <= band[f]
      <4> SUFFICES ASSUME NEW i \in 1 .. Len(sent[f]) PROVE sent[f][i] <= band[f]
          OBVIOUS
      <4>1. sent[f] # <<>> /\ Len(sent[f]) \in 1 .. Len(sent[f])
          BY <3>3
      <4>2. sent[f][Len(sent[f])] = band[f]
          BY <4>1 DEF Usage!BandsRise
      <4>3. i = Len(sent[f]) \/ (i < Len(sent[f]) /\ sent[f][i] < sent[f][Len(sent[f])])
          BY <4>1, <3>3 DEF Usage!BandsRise
      <4>4. sent[f][i] \in {80, 90, 100} /\ sent[f][Len(sent[f])] \in {80, 90, 100}
          BY <3>3, <4>1
      <4> QED
          BY <4>2, <4>3, <4>4
    <3>6. \A i, j \in DOMAIN sent'[f] : i < j => sent'[f][i] < sent'[f][j]
      <4> SUFFICES ASSUME NEW i \in DOMAIN sent'[f], NEW j \in DOMAIN sent'[f], i < j
                   PROVE  sent'[f][i] < sent'[f][j]
          OBVIOUS
      <4>1. i \in 1 .. Len(sent[f])
          BY <3>3
      <4>2. CASE j \in 1 .. Len(sent[f])
          BY <4>1, <4>2, <3>3 DEF Usage!BandsRise
      <4>3. CASE j = Len(sent[f]) + 1
        <5>1. sent'[f][i] = sent[f][i] /\ sent[f][i] \in Int
            BY <4>1, <3>3
        <5>2. sent'[f][j] = new
            BY <4>3, <3>3
        <5>3. sent[f][i] <= band[f]
            BY <4>1, <3>5
        <5> QED
            BY <5>1, <5>2, <5>3, <2>1, <2>3
      <4> QED
          BY <4>2, <4>3, <3>3
    <3>7. Usage!BandsRise'
      <4>1. sent'[f] # <<>> => sent'[f][Len(sent'[f])] = band'[f]
          BY <3>2, <3>3
      <4>2. \A g \in Usage!Features \ {f} :
              /\ \A i, j \in DOMAIN sent'[g] : i < j => sent'[g][i] < sent'[g][j]
              /\ sent'[g] # <<>> => sent'[g][Len(sent'[g])] = band'[g]
          BY <3>2 DEF Usage!BandsRise
      <4> QED
          BY <3>6, <4>1, <4>2 DEF Usage!BandsRise
    <3> QED
        BY <3>4, <3>7
  <2> QED
      BY <2>2, <2>3
<1> QED
    BY <1>1, <1>2 DEF Usage!AdvanceBand, Usage!NoBand

\* Requests other than c are as they were, but for the freshness of what they have read.
OthersStay(c) ==
  \A d \in Clients \ {c} : /\ client'[d].at = client[d].at /\ client'[d].entity = client[d].entity
                           /\ client'[d].used = client[d].used

\* A request that is counted keeps its types and leaves the other requests alone.
LEMMA CountMoves ==
  ASSUME UsageTypes, NEW c \in Clients, NEW after \in ClientRows, Usage!Count(c, after)
  PROVE  client' \in [Clients -> ClientRows] /\ client'[c] = after /\ OthersStay(c)
<1> DEFINE all == [client EXCEPT ![c] = after]
<1>1. all \in [Clients -> ClientRows] /\ all[c] = after /\ \A d \in Clients \ {c} : all[d] = client[d]
    BY DEF UsageTypes
<1> HIDE DEF all
<1>2. ASSUME NEW d \in Clients PROVE [all[d] EXCEPT !.fresh = FALSE] \in ClientRows
  <2>1. all[d] \in ClientRows
      BY <1>1
  <2> QED
      BY <2>1 DEF ClientRows
<1>3. \/ client' = all
      \/ \E f : client' = [d \in Clients |->
                       IF d # c /\ client[d].at = "consuming" /\ Usage!FeatureOf(client[d].entity) = f
                       THEN [all[d] EXCEPT !.fresh = FALSE] ELSE all[d]]
    BY DEF all, Usage!Count, Usage!AdvanceBand
<1>4. \A d \in Clients : client'[d] = all[d] \/ (d # c /\ client'[d] = [all[d] EXCEPT !.fresh = FALSE])
    BY <1>3, <1>1
<1>5. client' \in [Clients -> ClientRows]
    BY <1>1, <1>2, <1>3
<1>6. OthersStay(c)
  <2> SUFFICES ASSUME NEW d \in Clients \ {c}
               PROVE  /\ client'[d].at = client[d].at /\ client'[d].entity = client[d].entity
                      /\ client'[d].used = client[d].used
      BY DEF OthersStay
  <2>1. client[d] \in ClientRows /\ all[d] = client[d]
      BY <1>1 DEF UsageTypes
  <2>2. client'[d] = client[d] \/ client'[d] = [client[d] EXCEPT !.fresh = FALSE]
      BY <2>1, <1>4
  <2> QED
      BY <2>1, <2>2 DEF ClientRows
<1> QED
    BY <1>1, <1>4, <1>5, <1>6

\* What a step leaves alone when it moves no counter and no band.
LEMMA CountersStay ==
  ASSUME BandTypes, CountsAdd, Usage!OvershootIsRaced, Usage!BandsRise,
         UNCHANGED <<used, band, sent, raced>>
  PROVE  /\ BandTypes' /\ Usage!OvershootIsRaced' /\ Usage!BandsRise'
         /\ StudentCounts' = StudentCounts /\ (~twice' => ~twice /\ FileCounts' = FileCounts) => CountsAdd'
<1>1. BandTypes'
    BY DEF BandTypes
<1>2. Usage!OvershootIsRaced' /\ Usage!BandsRise'
    BY DEF Usage!OvershootIsRaced, Usage!BandsRise
<1>3. ASSUME StudentCounts' = StudentCounts, ~twice' => ~twice /\ FileCounts' = FileCounts PROVE CountsAdd'
    BY <1>3 DEF CountsAdd
<1> QED
    BY <1>1, <1>2, <1>3

\* The set of files that are counted depends on who owes what.
LEMMA FilesStay ==
  ASSUME UsageTypes, UNCHANGED lost,
         \A e \in Files : entity'[e] = "live" <=> entity[e] = "live",
         \A c \in Clients : /\ Owing(c)' <=> Owing(c)
                            /\ Owing(c) => client'[c].entity = client[c].entity
  PROVE  FileCounts' = FileCounts
<1>1. \A e \in Files : FileCounted(e)' <=> FileCounted(e)
    BY DEF FileCounted
<1> QED
    BY <1>1 DEF FileCounts

\* A request counts its row.
LEMMA Counting ==
  ASSUME UsageInv, NEW c \in Clients, NEW after \in ClientRows, Usage!Count(c, after)
  PROVE  /\ client[c].at = "consuming" /\ client[c].entity \in Usage!Entities
         /\ client' \in [Clients -> ClientRows] /\ client'[c] = after /\ OthersStay(c)
         /\ used' = [used EXCEPT ![Usage!FeatureOf(client[c].entity)] = @ + Size[client[c].entity]]
         /\ used' \in [Usage!Features -> Int] /\ raced' \subseteq Usage!Features
         /\ UNCHANGED <<usable, lost, twice>>
         /\ BandTypes' /\ Usage!BandsRise' /\ Usage!OvershootIsRaced'
<1> USE DEF UsageInv
<1>1. client[c].at = "consuming" /\ UNCHANGED <<usable, lost, twice>>
    BY DEF Usage!Count
<1>2. PICK e \in Usage!Entities : e = client[c].entity
    BY <1>1 DEF RowsFollow
<1>3. PICK f \in Usage!Features : f = Usage!FeatureOf(e)
    BY SizesAndLimits
<1>4. /\ used' = [used EXCEPT ![f] = @ + Size[e]]
      /\ raced' = IF used[f] # client[c].used THEN raced \cup {f} ELSE raced
    BY <1>2, <1>3 DEF Usage!Count
<1>5. BandTypes' /\ Usage!BandsRise'
  <2>1. PICK new \in {0, 80, 90, 100} : Usage!AdvanceBand(c, f, new, [client EXCEPT ![c] = after])
    <3>1. Usage!Band(f, used[f] + Size[e]) \in {0, 80, 90, 100}
        BY DEF Usage!Band, Usage!NoBand
    <3> QED
        BY <3>1, <1>2, <1>3 DEF Usage!Count
  <2> QED
      BY <2>1, BandMoves
<1>6. used' \in [Usage!Features -> Int] /\ raced' \subseteq Usage!Features
    BY <1>4, SizesAndLimits DEF UsageTypes
<1>7. Usage!OvershootIsRaced'
  <2> SUFFICES ASSUME NEW g \in Usage!Features, used'[g] > Limit[g] PROVE g \in raced'
      BY DEF Usage!OvershootIsRaced
  <2>1. CASE g # f
      BY <2>1, <1>4 DEF Usage!OvershootIsRaced, UsageTypes
  <2>2. CASE g = f
    <3>1. client[c].used + Size[e] <= Limit[f]
        BY <1>1, <1>2, <1>3 DEF RowsFollow
    <3>2. used'[f] = used[f] + Size[e]
        BY <1>4 DEF UsageTypes
    <3>3. used[f] # client[c].used
      <4>1. used[f] \in Int /\ Size[e] \in Nat /\ Limit[f] \in Nat
          BY SizesAndLimits DEF UsageTypes
      <4> QED
          BY <4>1, <3>1, <3>2, <2>2
    <3> QED
        BY <3>3, <2>2, <1>4
  <2> QED
      BY <2>1, <2>2
<1>8. client' \in [Clients -> ClientRows] /\ client'[c] = after /\ OthersStay(c)
    BY CountMoves
<1> QED
    BY <1>1, <1>2, <1>3, <1>4, <1>5, <1>6, <1>7, <1>8

\* Creating a student counts its row.
LEMMA StudentIsCreated ==
  ASSUME UsageInv, NEW c \in Clients, Usage!CreateStudent(c)
  PROVE  UsageInv'
<1> USE DEF UsageInv
<1>1. Usage!Idle \in ClientRows /\ Usage!Idle.at = "idle"
    BY DEF Usage!Idle, Usage!NoRow, ClientRows
<1>2. PICK e \in Students : e = client[c].entity
    BY DEF Usage!CreateStudent
<1>3. /\ client[c].at = "consuming"
      /\ client' \in [Clients -> ClientRows] /\ client'[c] = Usage!Idle /\ OthersStay(c)
      /\ used' = [used EXCEPT !["students"] = @ + Size[e]]
      /\ used' \in [Usage!Features -> Int] /\ raced' \subseteq Usage!Features
      /\ UNCHANGED <<usable, lost, twice>>
      /\ BandTypes' /\ Usage!BandsRise' /\ Usage!OvershootIsRaced'
    BY <1>1, <1>2, Counting, SizesAndLimits DEF Usage!CreateStudent
<1>4. entity' = [entity EXCEPT ![e] = "live"] /\ entity[e] = "absent" /\ e \notin Files
    BY <1>2, <1>3, SizesAndLimits DEF Usage!CreateStudent, RowsFollow
<1>5. UsageTypes'
    BY <1>3, <1>4 DEF UsageTypes
<1>6. \A x \in Usage!Entities \ {e} : entity'[x] = entity[x]
    BY <1>4 DEF UsageTypes
<1>7. entity'[e] = "live"
    BY <1>4, SizesAndLimits DEF UsageTypes
<1>8. \A d \in Clients \ {c} : /\ client'[d].at = client[d].at /\ client'[d].entity = client[d].entity
                               /\ client'[d].used = client[d].used
    BY <1>3 DEF OthersStay
<1>9. RowsFollow'
  <2>1. \A d \in Clients \ {c} : client[d].at = "idle" \/ client[d].entity # e
      BY <1>2, <1>3 DEF RowsFollow
  <2>2. \A x \in lost : entity'[x] = "gone"
      BY <1>4, <1>6, SizesAndLimits DEF RowsFollow, UsageTypes
  <2> QED
      BY <1>1, <1>3, <1>6, <1>8, <2>1, <2>2 DEF RowsFollow, Releasing
<1>10. ReleasedOnce'
    BY <1>1, <1>3, <1>8 DEF ReleasedOnce, Releasing
<1>11. CountsAdd'
  <2>1. StudentCounts' = StudentCounts \cup {e} /\ e \notin StudentCounts /\ StudentCounts \subseteq Students
      BY <1>4, <1>6, <1>7, SizesAndLimits DEF StudentCounts
  <2>2. FileCounts' = FileCounts
    <3>1. \A x \in Files : entity'[x] = entity[x]
        BY <1>4, <1>6, SizesAndLimits
    <3>2. \A d \in Clients : /\ Owing(d)' <=> Owing(d)
                             /\ Owing(d) => client'[d].entity = client[d].entity
        BY <1>1, <1>3, <1>8 DEF Owing
    <3> QED
        BY <1>3, <3>1, <3>2, FilesStay
  <2>3. SumFunctionOnSet(Size, StudentCounts') = SumFunctionOnSet(Size, StudentCounts) + Size[e]
      BY <2>1, SumGains, PlatformAssumption, SizesAndLimits
  <2>4. used'["students"] = used["students"] + Size[e] /\ used'["storage"] = used["storage"]
      BY <1>3 DEF UsageTypes, Usage!Features
  <2> QED
      BY <1>3, <2>2, <2>3, <2>4 DEF CountsAdd
<1> QED
    BY <1>3, <1>5, <1>9, <1>10, <1>11

\* Counting a file adds its size before its row exists.
LEMMA FileIsCounted ==
  ASSUME UsageInv, NEW c \in Clients, Usage!CountFile(c)
  PROVE  UsageInv'
<1> USE DEF UsageInv
<1> DEFINE after == [client[c] EXCEPT !.at = "uploading"]
<1>1. /\ after \in ClientRows /\ after.at = "uploading" /\ after.entity = client[c].entity
      /\ after.used = client[c].used
    BY DEF UsageTypes, ClientRows
<1>2. PICK e \in Files : e = client[c].entity
    BY DEF Usage!CountFile
<1>3. Usage!Count(c, after) /\ entity' = entity
    BY DEF Usage!CountFile
<1> HIDE DEF after
<1>4. /\ client[c].at = "consuming"
      /\ client' \in [Clients -> ClientRows] /\ client'[c] = after /\ OthersStay(c)
      /\ used' = [used EXCEPT !["storage"] = @ + Size[e]]
      /\ used' \in [Usage!Features -> Int] /\ raced' \subseteq Usage!Features
      /\ UNCHANGED <<usable, lost, twice>>
      /\ BandTypes' /\ Usage!BandsRise' /\ Usage!OvershootIsRaced'
    BY <1>1, <1>2, <1>3, Counting, SizesAndLimits
<1>5. UsageTypes'
    BY <1>3, <1>4 DEF UsageTypes
<1>6. \A d \in Clients \ {c} : /\ client'[d].at = client[d].at /\ client'[d].entity = client[d].entity
                               /\ client'[d].used = client[d].used
    BY <1>4 DEF OthersStay
<1>7. entity[e] = "absent" /\ \A d \in Clients \ {c} : client[d].at = "idle" \/ client[d].entity # e
    BY <1>2, <1>4 DEF RowsFollow
<1>8. RowsFollow'
    BY <1>1, <1>2, <1>3, <1>4, <1>6, <1>7 DEF RowsFollow, Releasing
<1>9. ReleasedOnce'
    BY <1>1, <1>4, <1>6 DEF ReleasedOnce, Releasing
<1>10. CountsAdd'
  <2>1. StudentCounts' = StudentCounts
      BY <1>3 DEF StudentCounts
  <2>2. FileCounts' = FileCounts \cup {e} /\ e \notin FileCounts
    <3>1. \A x \in Files \ {e} : FileCounted(x)' <=> FileCounted(x)
        BY <1>1, <1>2, <1>3, <1>4, <1>6 DEF FileCounted, Owing
    <3>2. ~FileCounted(e)
        BY <1>2, <1>4, <1>7 DEF FileCounted, Owing, RowsFollow
    <3>3. FileCounted(e)'
        BY <1>1, <1>2, <1>4 DEF FileCounted, Owing
    <3> QED
        BY <3>1, <3>2, <3>3 DEF FileCounts
  <2>3. FileCounts \subseteq Files
      BY DEF FileCounts
  <2>4. SumFunctionOnSet(Size, FileCounts') = SumFunctionOnSet(Size, FileCounts) + Size[e]
      BY <2>2, <2>3, SumGains, PlatformAssumption, SizesAndLimits
  <2>5. used'["storage"] = used["storage"] + Size[e] /\ used'["students"] = used["students"]
      BY <1>4 DEF UsageTypes, Usage!Features
  <2> QED
      BY <1>4, <2>1, <2>4, <2>5 DEF CountsAdd
<1> QED
    BY <1>4, <1>5, <1>8, <1>9, <1>10

\* A request that moves leaves the other requests alone.
LEMMA RequestMoves ==
  ASSUME UsageTypes, NEW c \in Clients, NEW row \in ClientRows, client' = [client EXCEPT ![c] = row]
  PROVE  /\ client' \in [Clients -> ClientRows] /\ client'[c] = row
         /\ \A d \in Clients \ {c} : client'[d] = client[d]
    BY DEF UsageTypes

\* Every step of the usage keeps its invariant.
LEMMA UsageKeeps == UsageInv /\ [Usage!Next]_usageVars => UsageInv'
<1> SUFFICES ASSUME UsageInv, [Usage!Next]_usageVars PROVE UsageInv'
    OBVIOUS
<1> USE DEF UsageInv
<1>0. Usage!Idle \in ClientRows /\ Usage!Idle.at = "idle"
    BY DEF Usage!Idle, Usage!NoRow, ClientRows
<1>1. CASE UNCHANGED usageVars
  <2>1. UNCHANGED <<usable, used, band, sent, entity, client, lost, twice, raced>>
      BY <1>1 DEF usageVars
  <2>2. StudentCounts' = StudentCounts /\ FileCounts' = FileCounts
      BY <2>1 DEF StudentCounts, FileCounts, FileCounted, Owing
  <2> QED
      BY <2>1, <2>2, CountersStay DEF UsageTypes, RowsFollow, ReleasedOnce, Releasing
<1>2. CASE Usage!PlanChanges
  <2>1. UNCHANGED <<used, band, sent, entity, client, lost, twice, raced>>
      BY <1>2 DEF Usage!PlanChanges
  <2>2. usable' \in BOOLEAN
      BY <1>2, Zenon DEF Usage!PlanChanges
  <2>3. StudentCounts' = StudentCounts /\ FileCounts' = FileCounts
      BY <2>1 DEF StudentCounts, FileCounts, FileCounted, Owing
  <2> QED
      BY <2>1, <2>2, <2>3, CountersStay DEF UsageTypes, RowsFollow, ReleasedOnce, Releasing
<1>3. ASSUME NEW c \in Clients, NEW e \in Usage!Entities, Usage!ConsumeRead(c, e) PROVE UsageInv'
  <2>1. /\ client[c].at = "idle" /\ entity[e] = "absent" /\ \A d \in Clients : client[d].entity # e
        /\ used[Usage!FeatureOf(e)] + Size[e] <= Limit[Usage!FeatureOf(e)]
        /\ UNCHANGED <<usable, used, band, sent, entity, lost, twice, raced>>
      BY <1>3 DEF Usage!ConsumeRead
  <2>2. PICK row \in ClientRows : /\ row.at = "consuming" /\ row.entity = e /\ row.used = used[Usage!FeatureOf(e)]
                                  /\ client' = [client EXCEPT ![c] = row]
    <3>1. /\ used[Usage!FeatureOf(e)] \in Int /\ band[Usage!FeatureOf(e)] \in {-1, 0, 80, 90, 100}
          /\ e \in Students \cup Files \cup {NoEntity}
        BY SizesAndLimits DEF UsageTypes, BandTypes, Usage!Entities
    <3>2. [at |-> "consuming", entity |-> e, used |-> used[Usage!FeatureOf(e)],
           band |-> band[Usage!FeatureOf(e)], fresh |-> TRUE] \in ClientRows
        BY <3>1 DEF ClientRows
    <3> QED
        BY <1>3, <3>2 DEF Usage!ConsumeRead
  <2>3. /\ client' \in [Clients -> ClientRows] /\ client'[c] = row
        /\ \A d \in Clients \ {c} : client'[d] = client[d]
      BY <2>2, RequestMoves
  <2>4. UsageTypes'
      BY <2>1, <2>3 DEF UsageTypes
  <2>5. RowsFollow'
      BY <2>1, <2>2, <2>3 DEF RowsFollow, Releasing
  <2>6. ReleasedOnce'
      BY <2>1, <2>2, <2>3 DEF ReleasedOnce, Releasing
  <2>7. StudentCounts' = StudentCounts
      BY <2>1 DEF StudentCounts
  <2>8. FileCounts' = FileCounts
      BY <2>1, <2>2, <2>3, FilesStay DEF Owing
  <2> QED
      BY <2>1, <2>4, <2>5, <2>6, <2>7, <2>8, CountersStay
<1>4. ASSUME NEW c \in Clients, NEW e \in Usage!Entities, Usage!DeleteRead(c, e) PROVE UsageInv'
  <2>1. /\ client[c].at = "idle" /\ entity[e] = "live" /\ e \in Files
        /\ UNCHANGED <<usable, used, band, sent, entity, lost, twice, raced>>
      BY <1>4 DEF Usage!DeleteRead
  <2>2. PICK row \in ClientRows : row.at = "deleting" /\ row.entity = e /\ client' = [client EXCEPT ![c] = row]
    <3>1. [Usage!Idle EXCEPT !.at = "deleting", !.entity = e] \in ClientRows
        BY <2>1, <1>0 DEF ClientRows
    <3>2. /\ [Usage!Idle EXCEPT !.at = "deleting", !.entity = e].at = "deleting"
          /\ [Usage!Idle EXCEPT !.at = "deleting", !.entity = e].entity = e
        BY <1>0 DEF ClientRows
    <3> QED
        BY <1>4, <3>1, <3>2 DEF Usage!DeleteRead
  <2>3. /\ client' \in [Clients -> ClientRows] /\ client'[c] = row
        /\ \A d \in Clients \ {c} : client'[d] = client[d]
      BY <2>2, RequestMoves
  <2>4. UsageTypes'
      BY <2>1, <2>3 DEF UsageTypes
  <2>5. RowsFollow'
      BY <2>1, <2>2, <2>3 DEF RowsFollow, Releasing, Usage!Entities
  <2>6. ReleasedOnce'
      BY <2>1, <2>2, <2>3 DEF ReleasedOnce, Releasing
  <2>7. StudentCounts' = StudentCounts
      BY <2>1 DEF StudentCounts
  <2>8. FileCounts' = FileCounts
      BY <2>1, <2>2, <2>3, FilesStay DEF Owing
  <2> QED
      BY <2>1, <2>4, <2>5, <2>6, <2>7, <2>8, CountersStay
<1>5. ASSUME NEW e \in Usage!Entities, Usage!DeleteStudent(e) PROVE UsageInv'
  <2>1. /\ entity[e] = "live" /\ e \in Students /\ entity' = [entity EXCEPT ![e] = "gone"]
        /\ UNCHANGED <<usable, band, sent, client, lost, twice, raced>>
      BY <1>5 DEF Usage!DeleteStudent
  <2>2. /\ entity'[e] = "gone" /\ \A x \in Usage!Entities \ {e} : entity'[x] = entity[x]
      BY <2>1 DEF UsageTypes
  <2>3. e \in StudentCounts /\ StudentCounts \subseteq Students /\ StudentCounts' = StudentCounts \ {e}
      BY <2>1, <2>2, SizesAndLimits DEF StudentCounts
  <2>4. /\ SumFunctionOnSet(Size, StudentCounts') = SumFunctionOnSet(Size, StudentCounts) - Size[e]
        /\ Size[e] <= used["students"] /\ used["students"] \in Nat /\ Size[e] \in Nat
      BY <2>1, <2>3, SumGains, PlatformAssumption, SizesAndLimits DEF CountsAdd
  <2>5. used' = [used EXCEPT !["students"] = used["students"] - Size[e]]
    <3>1. (IF Size[e] < used["students"] THEN Size[e] ELSE used["students"]) = Size[e]
        BY <2>4
    <3> QED
        BY <1>5, <3>1 DEF Usage!DeleteStudent
  <2>6. /\ used'["students"] = used["students"] - Size[e] /\ used'["storage"] = used["storage"]
        /\ used' \in [Usage!Features -> Int]
      BY <2>4, <2>5 DEF UsageTypes, Usage!Features
  <2>7. UsageTypes'
      BY <2>1, <2>6 DEF UsageTypes
  <2>8. RowsFollow'
      BY <2>1, <2>2 DEF RowsFollow, Releasing, UsageTypes
  <2>9. ReleasedOnce'
      BY <2>1 DEF ReleasedOnce, Releasing
  <2>10. FileCounts' = FileCounts
    <3>1. \A x \in Files : entity'[x] = entity[x]
        BY <2>1, <2>2, SizesAndLimits
    <3> QED
        BY <2>1, <3>1, FilesStay DEF Owing
  <2>11. CountsAdd'
      BY <2>1, <2>4, <2>6, <2>10 DEF CountsAdd
  <2>12. Usage!OvershootIsRaced'
    <3>1. \A f \in Usage!Features : used'[f] <= used[f] /\ used[f] \in Int /\ used'[f] \in Int /\ Limit[f] \in Nat
        BY <2>4, <2>6, SizesAndLimits DEF Usage!Features, UsageTypes
    <3> QED
        BY <2>1, <3>1 DEF Usage!OvershootIsRaced
  <2>13. BandTypes' /\ Usage!BandsRise'
      BY <2>1 DEF BandTypes, Usage!BandsRise
  <2> QED
      BY <2>7, <2>8, <2>9, <2>11, <2>12, <2>13
<1>6. ASSUME NEW c \in Clients, Usage!ConsumeAborts(c) PROVE UsageInv'
  <2>1. /\ client[c].at = "consuming" /\ client' = [client EXCEPT ![c] = Usage!Idle]
        /\ UNCHANGED <<usable, used, band, sent, entity, lost, twice, raced>>
      BY <1>6 DEF Usage!ConsumeAborts, Usage!Finish
  <2>2. /\ client' \in [Clients -> ClientRows] /\ client'[c] = Usage!Idle
        /\ \A d \in Clients \ {c} : client'[d] = client[d]
      BY <2>1, <1>0, RequestMoves
  <2>3. UsageTypes'
      BY <2>1, <2>2 DEF UsageTypes
  <2>4. RowsFollow'
      BY <2>1, <2>2, <1>0 DEF RowsFollow, Releasing
  <2>5. ReleasedOnce'
      BY <2>1, <2>2, <1>0 DEF ReleasedOnce, Releasing
  <2>6. StudentCounts' = StudentCounts
      BY <2>1 DEF StudentCounts
  <2>7. FileCounts' = FileCounts
      BY <2>1, <2>2, <1>0, FilesStay DEF Owing
  <2> QED
      BY <2>1, <2>3, <2>4, <2>5, <2>6, <2>7, CountersStay
<1>7. ASSUME NEW c \in Clients, Usage!StoreFile(c) PROVE UsageInv'
  <2>1. PICK e \in Files : e = client[c].entity
      BY <1>7 DEF Usage!StoreFile, RowsFollow
  <2>2. /\ client[c].at = "uploading" /\ client' = [client EXCEPT ![c] = Usage!Idle]
        /\ entity' = [entity EXCEPT ![e] = "live"]
        /\ UNCHANGED <<usable, used, band, sent, lost, twice, raced>>
      BY <1>7, <2>1 DEF Usage!StoreFile, Usage!Finish
  <2>3. /\ client' \in [Clients -> ClientRows] /\ client'[c] = Usage!Idle
        /\ \A d \in Clients \ {c} : client'[d] = client[d]
      BY <2>2, <1>0, RequestMoves
  <2>4. /\ entity'[e] = "live" /\ \A x \in Usage!Entities \ {e} : entity'[x] = entity[x]
      BY <2>2, SizesAndLimits DEF UsageTypes
  <2>5. /\ entity[e] = "absent" /\ e \notin lost
        /\ \A d \in Clients \ {c} : client[d].at = "idle" \/ client[d].entity # e
      BY <2>1, <2>2 DEF RowsFollow
  <2>6. UsageTypes'
      BY <2>2, <2>3 DEF UsageTypes
  <2>7. RowsFollow'
    <3>1. \A x \in lost : entity'[x] = "gone"
        BY <2>4, <2>5, SizesAndLimits DEF RowsFollow, UsageTypes
    <3> QED
        BY <2>2, <2>3, <2>4, <2>5, <3>1, <1>0 DEF RowsFollow, Releasing
  <2>8. ReleasedOnce'
      BY <2>2, <2>3, <1>0 DEF ReleasedOnce, Releasing
  <2>9. StudentCounts' = StudentCounts
      BY <2>1, <2>4, SizesAndLimits DEF StudentCounts
  <2>10. FileCounts' = FileCounts
    <3>1. \A x \in Files \ {e} : FileCounted(x)' <=> FileCounted(x)
        BY <2>1, <2>2, <2>3, <2>4, <1>0, SizesAndLimits DEF FileCounted, Owing
    <3>2. FileCounted(e) /\ FileCounted(e)'
        BY <2>1, <2>2, <2>4 DEF FileCounted, Owing
    <3> QED
        BY <3>1, <3>2 DEF FileCounts
  <2> QED
      BY <2>2, <2>6, <2>7, <2>8, <2>9, <2>10, CountersStay
<1>8. ASSUME NEW c \in Clients, Usage!StoreFails(c) PROVE UsageInv'
  <2>1. PICK e \in Files : e = client[c].entity
      BY <1>8 DEF Usage!StoreFails, RowsFollow
  <2>2. PICK row \in ClientRows : /\ row.at = "releasing" /\ row.entity = e
                                  /\ client' = [client EXCEPT ![c] = row]
    <3>1. [client[c] EXCEPT !.at = "releasing"] \in ClientRows
        BY DEF UsageTypes, ClientRows
    <3>2. /\ [client[c] EXCEPT !.at = "releasing"].at = "releasing"
          /\ [client[c] EXCEPT !.at = "releasing"].entity = e
        BY <2>1 DEF UsageTypes, ClientRows
    <3>3. client' = [client EXCEPT ![c] = [client[c] EXCEPT !.at = "releasing"]]
        BY <1>8 DEF Usage!StoreFails, Usage!Goto
    <3> QED
        BY <3>1, <3>2, <3>3
  <2>3. /\ client[c].at = "uploading" /\ entity' = [entity EXCEPT ![e] = "gone"]
        /\ UNCHANGED <<usable, used, band, sent, lost, twice, raced>>
      BY <1>8, <2>1 DEF Usage!StoreFails
  <2>4. /\ client' \in [Clients -> ClientRows] /\ client'[c] = row
        /\ \A d \in Clients \ {c} : client'[d] = client[d]
      BY <2>2, RequestMoves
  <2>5. /\ entity'[e] = "gone" /\ \A x \in Usage!Entities \ {e} : entity'[x] = entity[x]
      BY <2>3, SizesAndLimits DEF UsageTypes
  <2>6. /\ entity[e] = "absent" /\ e \notin lost
        /\ \A d \in Clients \ {c} : client[d].at = "idle" \/ client[d].entity # e
      BY <2>1, <2>3 DEF RowsFollow
  <2>7. UsageTypes'
      BY <2>3, <2>4 DEF UsageTypes
  <2>8. RowsFollow'
    <3>1. \A x \in lost : entity'[x] = "gone"
        BY <2>5, <2>6, SizesAndLimits DEF RowsFollow, UsageTypes
    <3> QED
        BY <2>2, <2>3, <2>4, <2>5, <2>6, <3>1, SizesAndLimits DEF RowsFollow, Releasing
  <2>9. ReleasedOnce'
    <3> SUFFICES ASSUME ~twice', NEW d \in Clients, Releasing(d)'
                 PROVE  /\ client'[d].entity \notin lost'
                        /\ \A b \in Clients \ {d} : Releasing(b)' => client'[b].entity # client'[d].entity
                        /\ client'[d].at = "releasing2" => Size[client'[d].entity] <= client'[d].used
        BY DEF ReleasedOnce
    <3>1. CASE d = c
        BY <3>1, <2>2, <2>3, <2>4, <2>6 DEF Releasing
    <3>2. CASE d # c
      <4>1. client'[d] = client[d] /\ client[d].entity # e
          BY <3>2, <2>4, <2>6 DEF Releasing
      <4> QED
          BY <4>1, <3>2, <2>2, <2>3, <2>4 DEF ReleasedOnce, Releasing
    <3> QED
        BY <3>1, <3>2
  <2>10. StudentCounts' = StudentCounts
      BY <2>1, <2>5, SizesAndLimits DEF StudentCounts
  <2>11. FileCounts' = FileCounts
    <3>1. \A x \in Files : entity'[x] = "live" <=> entity[x] = "live"
        BY <2>1, <2>5, <2>6, SizesAndLimits
    <3>2. \A d \in Clients : /\ Owing(d)' <=> Owing(d)
                             /\ Owing(d) => client'[d].entity = client[d].entity
        BY <2>1, <2>2, <2>3, <2>4 DEF Owing
    <3> QED
        BY <2>3, <3>1, <3>2, FilesStay
  <2> QED
      BY <2>3, <2>7, <2>8, <2>9, <2>10, <2>11, CountersStay
<1>9. ASSUME NEW c \in Clients, Usage!MarkDeleted(c) PROVE UsageInv'
  <2>1. PICK e \in Files : e = client[c].entity
      BY <1>9 DEF Usage!MarkDeleted, RowsFollow
  <2>2. PICK row \in ClientRows : /\ row.at = "releasing" /\ row.entity = e
                                  /\ client' = [client EXCEPT ![c] = row]
    <3>1. [client[c] EXCEPT !.at = "releasing"] \in ClientRows
        BY DEF UsageTypes, ClientRows
    <3>2. /\ [client[c] EXCEPT !.at = "releasing"].at = "releasing"
          /\ [client[c] EXCEPT !.at = "releasing"].entity = e
        BY <2>1 DEF UsageTypes, ClientRows
    <3>3. client' = [client EXCEPT ![c] = [client[c] EXCEPT !.at = "releasing"]]
        BY <1>9 DEF Usage!MarkDeleted, Usage!Goto
    <3> QED
        BY <3>1, <3>2, <3>3
  <2>3. /\ client[c].at = "deleting" /\ entity' = [entity EXCEPT ![e] = "gone"]
        /\ twice' = (twice \/ entity[e] = "gone")
        /\ UNCHANGED <<usable, used, band, sent, lost, raced>>
      BY <1>9, <2>1 DEF Usage!MarkDeleted
  <2>4. /\ client' \in [Clients -> ClientRows] /\ client'[c] = row
        /\ \A d \in Clients \ {c} : client'[d] = client[d]
      BY <2>2, RequestMoves
  <2>5. /\ entity'[e] = "gone" /\ \A x \in Usage!Entities \ {e} : entity'[x] = entity[x]
      BY <2>3, SizesAndLimits DEF UsageTypes
  <2>6. entity[e] \in {"live", "gone"}
      BY <2>1, <2>3, SizesAndLimits DEF RowsFollow, UsageTypes
  <2>7. ~twice' => ~twice /\ entity[e] = "live"
      BY <2>3, <2>6
  <2>8. twice' \in BOOLEAN
      BY <2>3, Zenon
  <2>9. UsageTypes'
      BY <2>3, <2>4, <2>8 DEF UsageTypes
  <2>10. RowsFollow'
    <3>1. \A x \in lost : entity'[x] = "gone"
        BY <2>5, SizesAndLimits DEF RowsFollow, UsageTypes
    <3>2. \A d \in Clients : client[d].at \in {"consuming", "uploading"} => client[d].entity # e
        BY <2>6 DEF RowsFollow
    <3> QED
        BY <2>2, <2>3, <2>4, <2>5, <3>1, <3>2, SizesAndLimits DEF RowsFollow, Releasing
  <2>11. ReleasedOnce'
    <3> SUFFICES ASSUME ~twice', NEW d \in Clients, Releasing(d)'
                 PROVE  /\ client'[d].entity \notin lost'
                        /\ \A b \in Clients \ {d} : Releasing(b)' => client'[b].entity # client'[d].entity
                        /\ client'[d].at = "releasing2" => Size[client'[d].entity] <= client'[d].used
        BY DEF ReleasedOnce
    <3>0. e \notin lost /\ \A b \in Clients : Releasing(b) => client[b].entity # e
        BY <2>7 DEF RowsFollow
    <3>1. CASE d = c
        BY <3>0, <3>1, <2>2, <2>3, <2>4 DEF Releasing
    <3>2. CASE d # c
      <4>1. client'[d] = client[d] /\ client[d].entity # e
          BY <3>0, <3>2, <2>4 DEF Releasing
      <4> QED
          BY <4>1, <3>2, <2>2, <2>3, <2>4, <2>7 DEF ReleasedOnce, Releasing
    <3> QED
        BY <3>1, <3>2
  <2>12. StudentCounts' = StudentCounts
      BY <2>1, <2>5, SizesAndLimits DEF StudentCounts
  <2>13. ~twice' => ~twice /\ FileCounts' = FileCounts
    <3> SUFFICES ASSUME ~twice' PROVE FileCounts' = FileCounts
        BY <2>7
    <3>1. \A x \in Files \ {e} : FileCounted(x)' <=> FileCounted(x)
        BY <2>1, <2>2, <2>3, <2>4, <2>5, SizesAndLimits DEF FileCounted, Owing
    <3>2. FileCounted(e)
        BY <2>7 DEF FileCounted
    <3>3. FileCounted(e)'
        BY <2>2, <2>4 DEF FileCounted, Owing
    <3> QED
        BY <3>1, <3>2, <3>3 DEF FileCounts
  <2> QED
      BY <2>3, <2>9, <2>10, <2>11, <2>12, <2>13, CountersStay
<1>10. ASSUME NEW c \in Clients, Usage!ReleaseRead(c) PROVE UsageInv'
  <2>1. PICK e \in Files : e = client[c].entity
      BY <1>10 DEF Usage!ReleaseRead, RowsFollow
  <2>2. PICK row \in ClientRows : /\ row.at = "releasing2" /\ row.entity = e /\ row.used = used["storage"]
                                  /\ client' = [client EXCEPT ![c] = row]
    <3> DEFINE row == [client[c] EXCEPT !.at = "releasing2", !.used = used["storage"]]
    <3>1. used["storage"] \in Int
        BY DEF UsageTypes, Usage!Features
    <3>2. row \in ClientRows /\ row.at = "releasing2" /\ row.entity = e /\ row.used = used["storage"]
      <4>1. client[c] \in ClientRows
          BY DEF UsageTypes
      <4>2. \A n \in Int : /\ [client[c] EXCEPT !.at = "releasing2", !.used = n] \in ClientRows
                          /\ [client[c] EXCEPT !.at = "releasing2", !.used = n].at = "releasing2"
                          /\ [client[c] EXCEPT !.at = "releasing2", !.used = n].entity = client[c].entity
                          /\ [client[c] EXCEPT !.at = "releasing2", !.used = n].used = n
          BY <4>1 DEF ClientRows
      <4> QED
          BY <2>1, <3>1, <4>2
    <3>3. client' = [client EXCEPT ![c] = row]
        BY <1>10 DEF Usage!ReleaseRead, UsageTypes
    <3> QED
        BY <3>2, <3>3
  <2>3. /\ client[c].at = "releasing"
        /\ UNCHANGED <<usable, used, band, sent, entity, lost, twice, raced>>
      BY <1>10 DEF Usage!ReleaseRead
  <2>4. /\ client' \in [Clients -> ClientRows] /\ client'[c] = row
        /\ \A d \in Clients \ {c} : client'[d] = client[d]
      BY <2>2, RequestMoves
  <2>5. UsageTypes'
      BY <2>3, <2>4 DEF UsageTypes
  <2>6. RowsFollow'
      BY <2>1, <2>2, <2>3, <2>4 DEF RowsFollow, Releasing
  <2>7. ~twice => Size[e] <= used["storage"]
    <3>1. e \in FileCounts /\ FileCounts \subseteq Files
        BY <2>1, <2>3 DEF FileCounts, FileCounted, Owing
    <3>2. Size[e] <= SumFunctionOnSet(Size, FileCounts)
        BY <3>1, SumGains, PlatformAssumption, SizesAndLimits
    <3> QED
        BY <3>2 DEF CountsAdd
  <2>8. ReleasedOnce'
      BY <2>1, <2>2, <2>3, <2>4, <2>7 DEF ReleasedOnce, Releasing
  <2>9. StudentCounts' = StudentCounts
      BY <2>3 DEF StudentCounts
  <2>10. FileCounts' = FileCounts
    <3>1. \A d \in Clients : /\ Owing(d)' <=> Owing(d)
                             /\ Owing(d) => client'[d].entity = client[d].entity
        BY <2>1, <2>2, <2>3, <2>4 DEF Owing
    <3> QED
        BY <2>3, <3>1, FilesStay
  <2> QED
      BY <2>3, <2>5, <2>6, <2>8, <2>9, <2>10, CountersStay
<1>11. ASSUME NEW c \in Clients, Usage!Release(c) PROVE UsageInv'
  <2>1. PICK e \in Files : e = client[c].entity
      BY <1>11 DEF Usage!Release, RowsFollow
  <2>2. PICK taken \in Nat : /\ taken <= Size[e] /\ (Size[e] <= client[c].used => taken = Size[e])
                             /\ used' = [used EXCEPT !["storage"] = used["storage"] - taken]
    <3>1. client[c].used \in Int /\ Size[e] \in Nat
        BY SizesAndLimits DEF UsageTypes, ClientRows
    <3> DEFINE most == IF client[c].used > 0 THEN client[c].used ELSE 0
               taken == IF Size[e] < most THEN Size[e] ELSE most
    <3>2. taken \in Nat /\ taken <= Size[e] /\ (Size[e] <= client[c].used => taken = Size[e])
        BY <3>1
    <3>3. used' = [used EXCEPT !["storage"] = used["storage"] - taken]
        BY <1>11, <2>1 DEF Usage!Release
    <3> QED
        BY <3>2, <3>3
  <2>3. /\ client[c].at = "releasing2" /\ client' = [client EXCEPT ![c] = Usage!Idle]
        /\ UNCHANGED <<usable, band, sent, entity, lost, twice, raced>>
      BY <1>11 DEF Usage!Release, Usage!Finish
  <2>4. /\ client' \in [Clients -> ClientRows] /\ client'[c] = Usage!Idle
        /\ \A d \in Clients \ {c} : client'[d] = client[d]
      BY <2>3, <1>0, RequestMoves
  <2>5. /\ used["storage"] \in Int /\ used' \in [Usage!Features -> Int]
        /\ used'["storage"] = used["storage"] - taken /\ used'["students"] = used["students"]
      BY <2>2 DEF UsageTypes, Usage!Features
  <2>6. UsageTypes'
      BY <2>3, <2>4, <2>5 DEF UsageTypes
  <2>7. RowsFollow'
      BY <2>3, <2>4, <1>0 DEF RowsFollow, Releasing
  <2>8. ReleasedOnce'
      BY <2>3, <2>4, <1>0 DEF ReleasedOnce, Releasing
  <2>9. StudentCounts' = StudentCounts
      BY <2>3 DEF StudentCounts
  <2>10. ASSUME ~twice PROVE used'["storage"] = SumFunctionOnSet(Size, FileCounts')
    <3>1. Releasing(c)
        BY <2>3 DEF Releasing
    <3>2. /\ entity[e] = "gone" /\ e \notin lost /\ Size[e] <= client[c].used
          /\ \A d \in Clients \ {c} : Releasing(d) => client[d].entity # e
        BY <2>1, <2>3, <2>10, <3>1 DEF RowsFollow, ReleasedOnce
    <3>3. \A d \in Clients \ {c} : Owing(d) => client[d].entity # e
        BY <3>2 DEF Owing, Releasing, RowsFollow
    <3>4. ~FileCounted(e)' /\ FileCounted(e)
        BY <2>1, <2>3, <2>4, <3>2, <3>3, <1>0 DEF FileCounted, Owing
    <3>5. \A x \in Files \ {e} : FileCounted(x)' <=> FileCounted(x)
        BY <2>1, <2>3, <2>4, <1>0 DEF FileCounted, Owing
    <3>6. FileCounts' = FileCounts \ {e} /\ e \in FileCounts /\ FileCounts \subseteq Files
        BY <3>4, <3>5 DEF FileCounts
    <3>7. SumFunctionOnSet(Size, FileCounts') = SumFunctionOnSet(Size, FileCounts) - Size[e]
        BY <3>6, SumGains, PlatformAssumption, SizesAndLimits
    <3> QED
        BY <3>2, <3>7, <2>2, <2>5, <2>10 DEF CountsAdd
  <2>11. CountsAdd'
      BY <2>3, <2>5, <2>9, <2>10 DEF CountsAdd
  <2>12. Usage!OvershootIsRaced'
    <3>1. \A f \in Usage!Features : used'[f] <= used[f] /\ used[f] \in Int /\ used'[f] \in Int /\ Limit[f] \in Nat
        BY <2>5, SizesAndLimits DEF Usage!Features, UsageTypes
    <3> QED
        BY <2>3, <3>1 DEF Usage!OvershootIsRaced
  <2>13. BandTypes' /\ Usage!BandsRise'
      BY <2>3 DEF BandTypes, Usage!BandsRise
  <2> QED
      BY <2>6, <2>7, <2>8, <2>11, <2>12, <2>13
<1>12. ASSUME NEW c \in Clients, Usage!GiveUp(c), Owing(c) PROVE UsageInv'
  <2>1. PICK e \in Files : e = client[c].entity
      BY <1>12 DEF Owing, RowsFollow
  <2>2. /\ client' = [client EXCEPT ![c] = Usage!Idle]
        /\ lost' = lost \cup {e} /\ entity' = [entity EXCEPT ![e] = "gone"]
        /\ UNCHANGED <<usable, used, band, sent, twice, raced>>
      BY <1>12, <2>1 DEF Usage!GiveUp, Usage!Finish, Owing
  <2>3. /\ client' \in [Clients -> ClientRows] /\ client'[c] = Usage!Idle
        /\ \A d \in Clients \ {c} : client'[d] = client[d]
      BY <2>2, <1>0, RequestMoves
  <2>4. /\ entity'[e] = "gone" /\ \A x \in Usage!Entities \ {e} : entity'[x] = entity[x]
      BY <2>2, SizesAndLimits DEF UsageTypes
  <2>5. entity[e] \in {"absent", "gone"} /\
          \A d \in Clients \ {c} : client[d].at \in {"consuming", "uploading"} => client[d].entity # e
      BY <2>1, <1>12 DEF Owing, Releasing, RowsFollow
  <2>6. UsageTypes'
      BY <2>2, <2>3 DEF UsageTypes
  <2>7. RowsFollow'
    <3>1. \A x \in lost' : entity'[x] = "gone"
        BY <2>2, <2>4, SizesAndLimits DEF RowsFollow, UsageTypes
    <3>2. \A d \in Clients : client'[d].at # "idle" =>
            d # c /\ client'[d] = client[d] /\ client[d].entity \in Usage!Entities
        BY <2>3, <1>0 DEF RowsFollow
    <3> QED
        BY <2>3, <2>4, <2>5, <3>1, <3>2, <1>0 DEF RowsFollow, Releasing
  <2>8. ReleasedOnce'
    <3> SUFFICES ASSUME ~twice, NEW d \in Clients \ {c}, Releasing(d)
                 PROVE  client[d].entity # e
        BY <2>2, <2>3, <1>0 DEF ReleasedOnce, Releasing
    <3>1. CASE client[c].at = "uploading"
        BY <3>1, <2>1 DEF RowsFollow, Releasing
    <3>2. CASE Releasing(c)
        BY <3>2, <2>1 DEF ReleasedOnce
    <3> QED
        BY <1>12, <3>1, <3>2 DEF Owing, Releasing
  <2>9. StudentCounts' = StudentCounts
      BY <2>1, <2>4, SizesAndLimits DEF StudentCounts
  <2>10. FileCounts' = FileCounts
    <3>1. \A x \in Files \ {e} : FileCounted(x)' <=> FileCounted(x)
        BY <2>1, <2>2, <2>3, <2>4, <1>0, SizesAndLimits DEF FileCounted, Owing
    <3>2. FileCounted(e) /\ FileCounted(e)'
        BY <1>12, <2>1, <2>2 DEF FileCounted
    <3> QED
        BY <3>1, <3>2 DEF FileCounts
  <2> QED
      BY <2>2, <2>6, <2>7, <2>8, <2>9, <2>10, CountersStay
<1>13. ASSUME NEW c \in Clients, Usage!GiveUp(c), ~Owing(c) PROVE UsageInv'
  <2>1. /\ client[c].at # "idle" /\ client' = [client EXCEPT ![c] = Usage!Idle]
        /\ UNCHANGED <<usable, used, band, sent, entity, lost, twice, raced>>
      BY <1>13 DEF Usage!GiveUp, Usage!Finish, Owing
  <2>2. /\ client' \in [Clients -> ClientRows] /\ client'[c] = Usage!Idle
        /\ \A d \in Clients \ {c} : client'[d] = client[d]
      BY <2>1, <1>0, RequestMoves
  <2>3. UsageTypes'
      BY <2>1, <2>2 DEF UsageTypes
  <2>4. RowsFollow'
      BY <2>1, <2>2, <1>0 DEF RowsFollow, Releasing
  <2>5. ReleasedOnce'
      BY <2>1, <2>2, <1>0 DEF ReleasedOnce, Releasing
  <2>6. StudentCounts' = StudentCounts
      BY <2>1 DEF StudentCounts
  <2>7. FileCounts' = FileCounts
    <3>1. \A d \in Clients : /\ Owing(d)' <=> Owing(d)
                             /\ Owing(d) => client'[d].entity = client[d].entity
        BY <1>13, <2>2, <1>0 DEF Owing
    <3> QED
        BY <2>1, <3>1, FilesStay
  <2> QED
      BY <2>1, <2>3, <2>4, <2>5, <2>6, <2>7, CountersStay
<1> QED
    BY <1>1, <1>2, <1>3, <1>4, <1>5, <1>6, <1>7, <1>8, <1>9, <1>10, <1>11, <1>12, <1>13,
       StudentIsCreated, FileIsCounted DEF Usage!Next

\* The invariant of the usage says what the component promises.
LEMMA UsageExplained ==
  ASSUME UsageInv
  PROVE  Usage!CountsAreExplained /\ Usage!OvershootIsRaced /\ Usage!BandsRise /\ Usage!TypeOK
<1> USE DEF UsageInv
<1>1. Usage!CountsAreExplained
  <2>1. {e \in Files : \/ entity[e] = "live" \/ e \in lost
                       \/ \E c \in Clients : /\ client[c].entity = e
                                             /\ client[c].at \in {"uploading", "releasing", "releasing2"}}
          = FileCounts
      BY DEF FileCounts, FileCounted, Owing
  <2> QED
      BY <2>1, UsageSum DEF CountsAdd, StudentCounts, Usage!CountsAreExplained
<1>2. Usage!TypeOK
    BY DEF Usage!TypeOK, UsageTypes, BandTypes, ClientRows, Usage!NoRow, Usage!NoBand, Usage!Entities
<1> QED
    BY <1>1, <1>2

\* The counters say what exists or what a request or a failure explains, a limit is exceeded
\* only by a race, bands rise, and no period creates more messages than its limit.
THEOREM LimitsAlwaysHold == PlatformSpec => []LimitsHold
<1>1. PlatformInit => UsageInv /\ QuotaInv
    BY UsageBegins, QuotaBegins DEF PlatformInit
<1>2. UsageInv /\ QuotaInv /\ [PlatformNext]_PlatformVars => UsageInv' /\ QuotaInv'
    BY ComponentsStep, UsageKeeps, QuotaKeeps
<1>3. UsageInv /\ QuotaInv => LimitsHold
    BY UsageExplained DEF LimitsHold, QuotaInv
<1> QED
    BY <1>1, <1>2, <1>3, PTL DEF PlatformSpec

-----------------------------------------------------------------------------
(* The plan subscriptions of a school                                      *)

PlanRows == [status : Plans!Status, expiry : Plans!Expiry]

PlanTypes ==
  /\ sub \in Seq(PlanRows) /\ Len(sub) <= MaxSubscriptions
  /\ held \subseteq [by : Assigners \cup {"scan"}, row : 0 .. MaxSubscriptions]
  /\ scan \in {"idle", "warn", "expire"}

\* What the scan has listed and not yet tried is still as it was when it was listed: who
\* changes the row takes it away from the scan.
ListedStays ==
  \A h \in held : h.by = "scan" =>
    /\ h.row \in Plans!Rows
    /\ scan = "warn" => /\ sub[h.row].status \in {"ACTIVE", "TRIAL"}
                        /\ sub[h.row].expiry \in {"near", "past"}
    /\ scan = "expire" => /\ sub[h.row].status \in {"ACTIVE", "TRIAL", "EXPIRING"}
                          /\ sub[h.row].expiry = "past"

PlanInv == PlanTypes /\ ListedStays

\* What a row may become in one step.
RowMoves(old, new) ==
  /\ new.status = "EXPIRED" /\ old.status # "EXPIRED" =>
       old.expiry = "past" /\ old.status \in {"TRIAL", "ACTIVE", "EXPIRING"}
  /\ new.status = "EXPIRING" /\ old.status # "EXPIRING" =>
       old.expiry \in {"near", "past"} /\ old.status = "ACTIVE"
  /\ old.status = "CANCELLED" => new.status = "CANCELLED"

PlansMove == \A s \in Plans!Rows : RowMoves(sub[s], sub'[s])

\* The bounds of the subscriptions.
LEMMA PlanBounds == MaxSubscriptions \in Nat /\ "scan" \notin Assigners
    BY PlatformAssumption

\* There is no subscription at first.
LEMMA PlansBegin == Plans!Init => PlanInv
<1> SUFFICES ASSUME Plans!Init PROVE PlanInv
    OBVIOUS
<1>1. sub = <<>> /\ held = {} /\ scan = "idle"
    BY DEF Plans!Init
<1>2. sub \in Seq(PlanRows) /\ Len(sub) = 0
    BY <1>1
<1>3. PlanTypes
    BY <1>1, <1>2, PlanBounds DEF PlanTypes
<1>4. ListedStays
    BY <1>1 DEF ListedStays
<1> QED
    BY <1>3, <1>4 DEF PlanInv

\* The row that is found current is one of the school's rows, or none.
LEMMA CurrentIsRow ==
  ASSUME PlanTypes
  PROVE  Plans!Current \in 0 .. Len(sub)
<1> DEFINE current == {s \in Plans!Rows : sub[s].status \in {"PENDING", "TRIAL", "ACTIVE", "EXPIRING"}}
           above == {m \in 0 .. Len(sub) : \A t \in current : t <= m}
<1>1. Len(sub) \in Nat /\ Plans!Rows = 1 .. Len(sub) /\ current \subseteq 1 .. Len(sub)
    BY DEF PlanTypes, Plans!Rows
<1>2. above \subseteq Nat /\ Len(sub) \in above
    BY <1>1
<1>3. PICK m \in above : \A n \in above : m <= n
    BY <1>2, LeastExists
<1>4. m \in 0 .. Len(sub) /\ \A t \in current : t <= m
    BY <1>3
<1>5. m \in current \cup {0}
  <2> SUFFICES ASSUME m # 0 PROVE m \in current
      OBVIOUS
  <2>1. m \in Int /\ m - 1 \in 0 .. Len(sub) /\ ~(m <= m - 1)
      BY <1>1, <1>4
  <2>2. m - 1 \notin above
      BY <1>3, <2>1
  <2>3. PICK t \in current : ~(t <= m - 1)
      BY <2>1, <2>2
  <2>4. t = m
      BY <1>1, <1>4, <2>3
  <2> QED
      BY <2>3, <2>4
<1>6. \E s \in current \cup {0} : \A t \in current : t <= s
    BY <1>4, <1>5
<1>7. Plans!Current \in current \cup {0}
    BY <1>6 DEF Plans!Current
<1> QED
    BY <1>1, <1>7

\* A row is written, and those that have read it lose it.
LEMMA RowWritten ==
  ASSUME PlanInv, NEW s \in Plans!Rows, NEW row \in PlanRows, RowMoves(sub[s], row),
         Plans!Update(s, row)
  PROVE  PlanInv' /\ PlansMove
<1> USE DEF PlanInv
<1>1. /\ sub' = [sub EXCEPT ![s] = row] /\ held' = {h \in held : h.row # s} /\ scan' = scan
    BY DEF Plans!Update
<1>2. /\ sub \in Seq(PlanRows) /\ Len(sub) \in Nat /\ Plans!Rows = 1 .. Len(sub) /\ s \in 1 .. Len(sub)
    BY DEF PlanTypes, Plans!Rows
<1>3. /\ sub' \in Seq(PlanRows) /\ Len(sub') = Len(sub) /\ sub'[s] = row
      /\ \A t \in 1 .. Len(sub) : t # s => sub'[t] = sub[t]
    BY <1>1, <1>2
<1>4. Plans!Rows' = Plans!Rows
    BY <1>3 DEF Plans!Rows
<1>5. PlanTypes'
    BY <1>1, <1>3 DEF PlanTypes
<1>6. ListedStays'
    BY <1>1, <1>2, <1>3, <1>4 DEF ListedStays
<1>7. PlansMove
    BY <1>2, <1>3 DEF PlansMove, RowMoves
<1> QED
    BY <1>5, <1>6, <1>7

\* A row moves as the transitions allow.
LEMMA RowMoved ==
  ASSUME PlanInv, NEW s \in Plans!Rows, NEW status \in Plans!Status, Plans!Move(s, status),
         status = "EXPIRED" => sub[s].expiry = "past",
         status = "EXPIRING" => sub[s].expiry \in {"near", "past"}
  PROVE  PlanInv' /\ PlansMove
<1>1. sub[s] \in PlanRows
    BY DEF PlanInv, PlanTypes, Plans!Rows
<1>2. [sub[s] EXCEPT !.status = status] \in PlanRows
    BY <1>1 DEF PlanRows
<1>3. RowMoves(sub[s], [sub[s] EXCEPT !.status = status])
  <2>1. status \in Plans!SUBSCRIPTION_TRANSITIONS[sub[s].status]
      BY DEF Plans!Move
  <2>2. \A old \in Plans!Status : \A new \in Plans!SUBSCRIPTION_TRANSITIONS[old] :
          /\ new = "EXPIRED" => old \in {"TRIAL", "ACTIVE", "EXPIRING"}
          /\ new = "EXPIRING" => old = "ACTIVE"
          /\ old # "CANCELLED"
      BY DEF Plans!Status, Plans!SUBSCRIPTION_TRANSITIONS
  <2>3. [sub[s] EXCEPT !.status = status].status = status /\ sub[s].status \in Plans!Status
      BY <1>1 DEF PlanRows
  <2> QED
      BY <2>1, <2>2, <2>3 DEF RowMoves
<1> QED
    BY <1>2, <1>3, RowWritten DEF Plans!Move

\* A row is cancelled, which takes it away from its readers, and another appended.
LEMMA RowReplaced ==
  ASSUME PlanInv, NEW s \in 0 .. Len(sub), NEW row \in PlanRows, Len(sub) < MaxSubscriptions,
         row.status \notin {"EXPIRED", "EXPIRING"},
         NEW rest \in Seq(PlanRows), Len(rest) = Len(sub),
         \A t \in 1 .. Len(sub) : rest[t] = IF t = s THEN [sub[t] EXCEPT !.status = "CANCELLED"] ELSE sub[t],
         sub' = Append(rest, row),
         held' \subseteq {h \in held : h.row \notin {s} \ {0}}, scan' = scan
  PROVE  PlanInv' /\ PlansMove
<1> USE DEF PlanInv
<1>1. /\ sub \in Seq(PlanRows) /\ Len(sub) \in Nat /\ Plans!Rows = 1 .. Len(sub)
      /\ \A t \in 1 .. Len(sub) : sub[t] \in PlanRows
    BY DEF PlanTypes, Plans!Rows
<1>2. /\ sub' \in Seq(PlanRows) /\ Len(sub') = Len(sub) + 1
      /\ \A t \in 1 .. Len(sub) : sub'[t] = rest[t]
    BY <1>1
<1>3. Plans!Rows' = 1 .. Len(sub) + 1
    BY <1>2 DEF Plans!Rows
<1>4. PlanTypes'
  <2>1. Len(sub') <= MaxSubscriptions
      BY <1>1, <1>2, PlanBounds
  <2> QED
      BY <1>2, <2>1 DEF PlanTypes
<1>5. ListedStays'
  <2> SUFFICES ASSUME NEW h \in held', h.by = "scan"
               PROVE  /\ h.row \in 1 .. Len(sub) + 1 /\ sub'[h.row] = sub[h.row] /\ h \in held
      BY <1>1, <1>3 DEF ListedStays
  <2>1. h \in held /\ h.row \notin {s} \ {0} /\ h.row \in 1 .. Len(sub)
      BY <1>1 DEF ListedStays
  <2>2. h.row # 0 /\ h.row # s /\ h.row \in 1 .. Len(sub) + 1
      BY <2>1, <1>1
  <2>3. sub'[h.row] = rest[h.row] /\ rest[h.row] = sub[h.row]
      BY <2>1, <2>2, <1>2
  <2> QED
      BY <2>1, <2>2, <2>3
<1>6. PlansMove
  <2> SUFFICES ASSUME NEW t \in 1 .. Len(sub) PROVE RowMoves(sub[t], sub'[t])
      BY <1>1 DEF PlansMove
  <2>1. sub[t] \in PlanRows /\ sub'[t] = rest[t]
      BY <1>1, <1>2
  <2>2. [sub[t] EXCEPT !.status = "CANCELLED"].status = "CANCELLED"
      BY <2>1 DEF PlanRows
  <2>3. sub'[t] = sub[t] \/ sub'[t].status = "CANCELLED"
      BY <2>1, <2>2
  <2> QED
      BY <2>3 DEF RowMoves
<1> QED
    BY <1>4, <1>5, <1>6

\* The scan lists rows for its next pass.
LEMMA RowsListed ==
  ASSUME PlanInv, NEW pass \in {"idle", "warn", "expire"}, NEW rows \in SUBSET Plans!Rows,
         Plans!List(pass, rows),
         pass = "warn" => \A s \in rows : sub[s].status \in {"ACTIVE", "TRIAL"} /\ sub[s].expiry = "near",
         pass = "expire" => \A s \in rows : /\ sub[s].status \in {"ACTIVE", "TRIAL", "EXPIRING"}
                                            /\ sub[s].expiry = "past"
  PROVE  PlanInv' /\ PlansMove
<1> USE DEF PlanInv
<1>1. /\ scan' = pass /\ sub' = sub
      /\ held' = {h \in held : h.by # "scan"} \cup {[by |-> "scan", row |-> s] : s \in rows}
    BY DEF Plans!List
<1>2. Plans!Rows' = Plans!Rows /\ Plans!Rows = 1 .. Len(sub) /\ Len(sub) \in Nat
    BY <1>1 DEF Plans!Rows, PlanTypes
<1>3. \A g \in held' : \/ g \in held /\ g.by # "scan"
                       \/ \E s \in rows : g = [by |-> "scan", row |-> s]
    BY <1>1
<1>4. PlanTypes'
  <2>1. \A s \in rows : s \in 0 .. MaxSubscriptions
      BY <1>2, PlanBounds DEF PlanTypes
  <2>2. held' \subseteq [by : Assigners \cup {"scan"}, row : 0 .. MaxSubscriptions]
      BY <1>3, <2>1 DEF PlanTypes
  <2> QED
      BY <1>1, <2>2 DEF PlanTypes
<1>5. ListedStays'
  <2> SUFFICES ASSUME NEW h \in held', h.by = "scan"
               PROVE  \E s \in rows : h.row = s
      BY <1>1, <1>2 DEF ListedStays
  <2> QED
      BY <1>3
<1>6. PlansMove
    BY <1>1 DEF PlansMove, RowMoves
<1> QED
    BY <1>4, <1>5, <1>6

\* Every step of the subscriptions keeps their invariant and moves the rows as it should.
LEMMA PlansKeep ==
  ASSUME PlanInv, [Plans!Next]_planVars
  PROVE  PlanInv' /\ PlansMove
<1> USE DEF PlanInv
<1>0. /\ Len(sub) \in Nat /\ Plans!Rows = 1 .. Len(sub) /\ sub \in Seq(PlanRows)
      /\ \A s \in Plans!Rows : sub[s] \in PlanRows
    BY DEF PlanTypes, Plans!Rows
<1>1. ASSUME sub' = sub, scan' = scan, held' \subseteq held PROVE PlanInv' /\ PlansMove
    BY <1>1 DEF PlanTypes, ListedStays, PlansMove, RowMoves, Plans!Rows
<1>2. CASE UNCHANGED planVars
    BY <1>1, <1>2 DEF planVars
<1>3. ASSUME NEW a \in Assigners, Plans!AssignRead(a) PROVE PlanInv' /\ PlansMove
  <2>1. sub' = sub /\ scan' = scan /\ held' = held \cup {[by |-> a, row |-> Plans!Current]}
      BY <1>3 DEF Plans!AssignRead
  <2>2. PICK s \in 0 .. Len(sub) : s = Plans!Current
      BY CurrentIsRow
  <2>3. PlanTypes'
    <3>1. s \in 0 .. MaxSubscriptions
        BY <2>2, <1>0, PlanBounds DEF PlanTypes
    <3>2. held' \subseteq [by : Assigners \cup {"scan"}, row : 0 .. MaxSubscriptions]
        BY <2>1, <2>2, <3>1 DEF PlanTypes
    <3> QED
        BY <2>1, <3>2 DEF PlanTypes
  <2>4. Plans!Rows' = Plans!Rows /\ a # "scan"
      BY <2>1, PlanBounds DEF Plans!Rows
  <2>5. ListedStays'
      BY <2>1, <2>4 DEF ListedStays
  <2>6. PlansMove
      BY <2>1 DEF PlansMove, RowMoves
  <2> QED
      BY <2>3, <2>5, <2>6
<1>4. ASSUME NEW a \in Assigners, Plans!Assign(a) PROVE PlanInv' /\ PlansMove
  <2>1. PICK h \in held, row \in [status : {"TRIAL"}, expiry : {"none", "far"}]
                                   \cup {[status |-> "PENDING", expiry |-> "none"]} :
          /\ Len(sub) < MaxSubscriptions
          /\ sub' = Append([s \in Plans!Rows |-> IF s = h.row THEN [sub[s] EXCEPT !.status = "CANCELLED"]
                                                 ELSE sub[s]], row)
          /\ held' = {g \in held : g.row \notin {h.row} \ {0} /\ g.by # a}
          /\ scan' = scan
      BY <1>4 DEF Plans!Assign
  <2> DEFINE rest == [s \in Plans!Rows |-> IF s = h.row THEN [sub[s] EXCEPT !.status = "CANCELLED"] ELSE sub[s]]
  <2>2. row \in PlanRows /\ row.status \notin {"EXPIRED", "EXPIRING"}
      BY <2>1 DEF PlanRows, Plans!Status, Plans!Expiry
  <2>3. \A s \in Plans!Rows : [sub[s] EXCEPT !.status = "CANCELLED"] \in PlanRows
      BY <1>0 DEF PlanRows, Plans!Status
  <2>4. rest \in Seq(PlanRows) /\ Len(rest) = Len(sub)
    <3>1. rest \in [1 .. Len(sub) -> PlanRows]
        BY <1>0, <2>3
    <3> QED
        BY <3>1, <1>0
  <2>5. \A t \in 1 .. Len(sub) : rest[t] = IF t = h.row THEN [sub[t] EXCEPT !.status = "CANCELLED"] ELSE sub[t]
      BY <1>0
  <2>6. h.row \in 0 .. MaxSubscriptions
      BY DEF PlanTypes
  <2>7. sub' = Append(rest, row)
      BY <2>1
  <2> HIDE DEF rest
  <2>8. CASE h.row \in 0 .. Len(sub)
      BY <2>1, <2>2, <2>4, <2>5, <2>7, <2>8, RowReplaced
  <2>9. CASE h.row \notin 0 .. Len(sub)
    <3>1. \A t \in 1 .. Len(sub) : t # h.row /\ t # 0
        BY <2>9, <1>0
    <3>2. \A t \in 1 .. Len(sub) : rest[t] = IF t = 0 THEN [sub[t] EXCEPT !.status = "CANCELLED"] ELSE sub[t]
        BY <2>5, <3>1
    <3>3. held' \subseteq {g \in held : g.row \notin {0} \ {0}} /\ 0 \in 0 .. Len(sub)
        BY <2>1, <1>0
    <3> QED
        BY <2>1, <2>2, <2>4, <2>7, <3>2, <3>3, RowReplaced
  <2> QED
      BY <2>8, <2>9
<1>5. ASSUME NEW s \in Plans!Rows, Plans!Activate(s) \/ Plans!Suspend(s) \/ Plans!Cancel(s)
      PROVE  PlanInv' /\ PlansMove
  <2>1. PICK status \in {"ACTIVE", "SUSPENDED", "CANCELLED"} : Plans!Move(s, status)
      BY <1>5 DEF Plans!Activate, Plans!Suspend, Plans!Cancel
  <2>2. status \in Plans!Status
      BY DEF Plans!Status
  <2> QED
      BY <2>1, <2>2, RowMoved
<1>6. ASSUME NEW s \in Plans!Rows, Plans!ChangePlan(s) PROVE PlanInv' /\ PlansMove
  <2> DEFINE rest == [sub EXCEPT ![s].status = "CANCELLED"]
             row == [status |-> "ACTIVE", expiry |-> sub[s].expiry]
  <2>1. /\ Len(sub) < MaxSubscriptions /\ sub' = Append(rest, row)
        /\ held' = {h \in held : h.row # s} /\ scan' = scan
      BY <1>6 DEF Plans!ChangePlan
  <2>2. row \in PlanRows /\ row.status = "ACTIVE"
      BY <1>0 DEF PlanRows, Plans!Status
  <2>3. rest = [sub EXCEPT ![s] = [sub[s] EXCEPT !.status = "CANCELLED"]]
      OBVIOUS
  <2>4. [sub[s] EXCEPT !.status = "CANCELLED"] \in PlanRows
      BY <1>0 DEF PlanRows, Plans!Status
  <2>5. /\ rest \in Seq(PlanRows) /\ Len(rest) = Len(sub)
        /\ \A t \in 1 .. Len(sub) : rest[t] = IF t = s THEN [sub[t] EXCEPT !.status = "CANCELLED"] ELSE sub[t]
      BY <2>3, <2>4, <1>0
  <2>6. s \in 0 .. Len(sub) /\ held' \subseteq {h \in held : h.row \notin {s} \ {0}}
      BY <2>1, <1>0
  <2> HIDE DEF rest, row
  <2> QED
      BY <2>1, <2>2, <2>5, <2>6, RowReplaced
<1>7. ASSUME NEW s \in Plans!Rows, Plans!Renew(s) PROVE PlanInv' /\ PlansMove
  <2> DEFINE lapsed == sub[s].status \in {"EXPIRING", "EXPIRED"}
             next == IF lapsed THEN "ACTIVE" ELSE sub[s].status
  <2>1. PICK e \in {"far", "near"} : Plans!Update(s, [status |-> next, expiry |-> e])
      BY <1>7 DEF Plans!Renew
  <2>2. sub[s].status # "CANCELLED"
      BY <1>7 DEF Plans!Renew
  <2>3. next \in Plans!Status /\ next \notin {"EXPIRING", "EXPIRED"}
      BY <1>0 DEF PlanRows, Plans!Status
  <2> HIDE DEF next
  <2>4. [status |-> next, expiry |-> e] \in PlanRows
      BY <2>3 DEF PlanRows, Plans!Expiry
  <2>5. RowMoves(sub[s], [status |-> next, expiry |-> e])
      BY <2>2, <2>3 DEF RowMoves
  <2> QED
      BY <2>1, <2>4, <2>5, RowWritten
<1>8. ASSUME NEW s \in Plans!Rows, Plans!MarkExpiring(s) PROVE PlanInv' /\ PlansMove
  <2>1. scan = "warn" /\ [by |-> "scan", row |-> s] \in held
      BY <1>8 DEF Plans!MarkExpiring
  <2>2. sub[s].expiry \in {"near", "past"}
      BY <2>1 DEF ListedStays
  <2>3. CASE Plans!Move(s, "EXPIRING")
      BY <2>2, <2>3, RowMoved DEF Plans!Status
  <2>4. CASE held' = held \ {[by |-> "scan", row |-> s]} /\ UNCHANGED <<sub, scan>>
      BY <2>4, <1>1
  <2> QED
      BY <1>8, <2>3, <2>4 DEF Plans!MarkExpiring
<1>9. ASSUME NEW s \in Plans!Rows, Plans!MarkExpired(s) PROVE PlanInv' /\ PlansMove
  <2>1. /\ scan = "expire" /\ [by |-> "scan", row |-> s] \in held /\ Plans!Move(s, "EXPIRED")
      BY <1>9 DEF Plans!MarkExpired
  <2>2. sub[s].expiry = "past"
      BY <2>1 DEF ListedStays
  <2> QED
      BY <2>1, <2>2, RowMoved DEF Plans!Status
<1>10. ASSUME NEW s \in Plans!Rows, Plans!TimePasses(s) PROVE PlanInv' /\ PlansMove
  <2>1. /\ held' = held /\ scan' = scan /\ sub[s].expiry \in {"far", "near"}
        /\ sub' = [sub EXCEPT ![s].expiry = IF @ = "far" THEN "near" ELSE "past"]
      BY <1>10 DEF Plans!TimePasses
  <2>2. PICK e \in {"near", "past"} : /\ e = IF sub[s].expiry = "far" THEN "near" ELSE "past"
                                      /\ sub' = [sub EXCEPT ![s] = [sub[s] EXCEPT !.expiry = e]]
      BY <2>1
  <2>3. /\ [sub[s] EXCEPT !.expiry = e] \in PlanRows
        /\ [sub[s] EXCEPT !.expiry = e].status = sub[s].status /\ [sub[s] EXCEPT !.expiry = e].expiry = e
      BY <1>0 DEF PlanRows, Plans!Expiry
  <2>4. /\ sub' \in Seq(PlanRows) /\ Len(sub') = Len(sub)
        /\ sub'[s].status = sub[s].status /\ sub'[s].expiry = e
        /\ \A t \in 1 .. Len(sub) : t # s => sub'[t] = sub[t]
      BY <2>2, <2>3, <1>0
  <2>5. Plans!Rows' = Plans!Rows
      BY <2>4 DEF Plans!Rows
  <2>6. PlanTypes'
      BY <2>1, <2>4 DEF PlanTypes
  <2>7. ListedStays'
      BY <2>1, <2>2, <2>4, <2>5, <1>0 DEF ListedStays
  <2>8. PlansMove
      BY <2>4, <1>0 DEF PlansMove, RowMoves
  <2> QED
      BY <2>6, <2>7, <2>8
<1>11. CASE Plans!ListUpcoming
  <2> DEFINE rows == {s \in Plans!Rows : sub[s].status \in {"ACTIVE", "TRIAL"} /\ sub[s].expiry = "near"}
  <2>1. Plans!List("warn", rows)
      BY <1>11 DEF Plans!ListUpcoming
  <2> QED
      BY <2>1, RowsListed
<1>12. CASE Plans!ListElapsed
  <2> DEFINE rows == {s \in Plans!Rows : /\ sub[s].status \in {"ACTIVE", "TRIAL", "EXPIRING"}
                                         /\ sub[s].expiry = "past"}
  <2>1. Plans!List("expire", rows)
      BY <1>12 DEF Plans!ListElapsed
  <2> QED
      BY <2>1, RowsListed
<1>13. CASE Plans!EndScan
  <2>1. Plans!List("idle", {})
      BY <1>13 DEF Plans!EndScan
  <2> QED
      BY <2>1, RowsListed
<1> QED
    BY <1>2, <1>3, <1>4, <1>5, <1>6, <1>7, <1>8, <1>9, <1>10, <1>11, <1>12, <1>13 DEF Plans!Next


\* The types of the subscriptions, as the proofs use them.
LEMMA PlansTyped == PlanTypes => Plans!TypeOK
    BY DEF PlanTypes, PlanRows, Plans!TypeOK

-----------------------------------------------------------------------------
(* How a school comes to the platform and leaves it                        *)

\* What has been read of a school is of an older version of it, or is still true.
AsRead(s, row) ==
  /\ Schools!Exists(s)
  /\ row.version <= school[s].version
  /\ row.version = school[s].version => row = school[s]

\* A request of the super-admin has read what it judges; the bound on changes leaves room
\* for one expiry, after which nothing more is read.
RequestsHaveRead ==
  /\ \A s \in Applicants : school[s].version > MaxChanges => school[s].status # "TRIAL"
  /\ \A a \in Deciders : request[a] # Schools!Waiting =>
       /\ AsRead(request[a].school, request[a].row)
       /\ Schools!Allowed(request[a].op, request[a].row)
       /\ request[a].row.version < MaxChanges

\* What the job has on its list was due, and is unless its trial was extended since.
ScansHaveRead ==
  /\ \A k \in Scanners : \A s \in expiry[k].list :
       Schools!Exists(s) /\ (school[s].end <= day \/ s \in overtaken)
  /\ \A k \in Scanners : \A e \in expiry[k].read :
       e[1] \in expiry[k].list /\ AsRead(e[1], e[2]) /\ e[2].status = "TRIAL"

\* Where an attempt is, and what it has done until then.
AttemptsAreKnown ==
  \A s \in Applicants :
    /\ attempt[s] = "idle" => journal[s].status = "none" /\ ~Schools!Exists(s)
    /\ attempt[s] = "create" => journal[s].status = "RUNNING" /\ ~Schools!Exists(s)
    /\ attempt[s] = "complete" => Schools!Exists(s)
    /\ attempt[s] = "fail" /\ Schools!Exists(s) => s \in unmarked

SchoolPromises ==
  Schools!SlugIsUnique /\ Schools!JournalIsTrue /\ Schools!TrialsAddUp /\ Schools!OnboardedOrReactivated

SchoolInv ==
  Schools!TypeOK /\ RequestsHaveRead /\ ScansHaveRead /\ AttemptsAreKnown /\ SchoolPromises

SchoolsMove ==
  \A s \in Applicants :
    Schools!Exists(s) /\ school'[s].status # school[s].status =>
      <<school[s].status, school'[s].status>> \in Schools!Moves

\* The bounds of the schools.
LEMMA SchoolBounds ==
  TrialDays \in Nat /\ ExtensionDays \in Nat /\ MaxExtensions \in Nat /\ LastDay \in Nat /\ MaxChanges \in Nat
    BY PlatformAssumption

\* There is no school at first.
LEMMA SchoolsBegin == Schools!Init => SchoolInv
<1> SUFFICES ASSUME Schools!Init PROVE SchoolInv
    OBVIOUS
<1>1. /\ school = [s \in Applicants |-> Schools!Absent]
      /\ attempt = [s \in Applicants |-> "idle"]
      /\ journal = [s \in Applicants |-> [status |-> "none", attached |-> FALSE]]
      /\ request = [a \in Deciders |-> Schools!Waiting]
      /\ expiry = [k \in Scanners |-> [list |-> {}, read |-> {}]]
      /\ day = 0 /\ unmarked = {} /\ died = {} /\ overtaken = {} /\ shortcut = {}
    BY DEF Schools!Init, Schools!IdleScan
<1>2. \A s \in Applicants : ~Schools!Exists(s) /\ school[s].status = "absent" /\ school[s].version = 0
    BY <1>1 DEF Schools!Exists, Schools!Absent
<1>3. Schools!TypeOK
    BY <1>1, SchoolBounds DEF Schools!TypeOK
<1>4. RequestsHaveRead /\ ScansHaveRead
    BY <1>1, <1>2, SchoolBounds DEF RequestsHaveRead, ScansHaveRead
<1>5. AttemptsAreKnown
    BY <1>1, <1>2 DEF AttemptsAreKnown
<1>6. SchoolPromises
  <2>1. Schools!SlugIsUnique /\ Schools!TrialsAddUp
      BY <1>2 DEF Schools!SlugIsUnique, Schools!TrialsAddUp
  <2>2. Schools!OnboardedOrReactivated
      BY <1>2 DEF Schools!OnboardedOrReactivated
  <2>3. \A s \in Applicants : journal[s].status = "none" /\ journal[s].attached = FALSE
      BY <1>1
  <2>4. Schools!JournalIsTrue
      BY <1>2, <2>3 DEF Schools!JournalIsTrue, Schools!Exists
  <2> QED
      BY <2>1, <2>2, <2>4 DEF SchoolPromises
<1> QED
    BY <1>3, <1>4, <1>5, <1>6 DEF SchoolInv

\* What an operation makes of the row that it was allowed to change.
LEMMA Outcome ==
  ASSUME NEW row \in Schools!Row, NEW op \in Schools!Operations \cup {"expire"},
         op # "expire" => Schools!Allowed(op, row),
         op = "expire" => row.status = "TRIAL",
         NEW new, new = Schools!Result(op, row)
  PROVE  /\ new \in Schools!Row /\ new.version = row.version
         /\ new.status # row.status => <<row.status, new.status>> \in Schools!Moves
         /\ new.status = "TRIAL" => row.status = "TRIAL"
         /\ op = "expire" => new.status = "EXPIRED"
         /\ new.status = "EXPIRED" => op = "expire" \/ (row.status = "EXPIRED" /\ op # "extend")
         /\ op # "extend" => new.end = row.end /\ new.extended = row.extended
         /\ op = "extend" => new.end = row.end + ExtensionDays /\ new.extended = row.extended + 1
         /\ new.status \in {"ACTIVE", "SUSPENDED"} /\ ~new.onboarded =>
              \/ row.status \in {"ACTIVE", "SUSPENDED"} /\ ~row.onboarded
                 /\ ~(op = "reactivate" /\ row.status # "SUSPENDED")
              \/ op = "reactivate" /\ row.status # "SUSPENDED"
<1> USE SchoolBounds DEF Schools!Row, Schools!Moves, Schools!Allowed, Schools!Result
<1>1. CASE op = "activate"
    BY <1>1
<1>2. CASE op = "reactivate"
    BY <1>2
<1>3. CASE op = "suspend"
    BY <1>3
<1>4. CASE op = "cancel"
    BY <1>4
<1>5. CASE op = "assign"
    BY <1>5
<1>6. CASE op = "extend"
  <2>1. row.status = "TRIAL" /\ row.extended < MaxExtensions
      BY <1>6
  <2>2. new = [row EXCEPT !.end = row.end + ExtensionDays, !.extended = row.extended + 1]
      BY <1>6
  <2>3. row.end \in Nat /\ row.extended \in Nat
      OBVIOUS
  <2>4. row.end + ExtensionDays \in Nat /\ row.extended + 1 \in 0 .. MaxExtensions
      BY <2>1, <2>3
  <2>5. PICK end \in Nat, extended \in 0 .. MaxExtensions :
          end = row.end + ExtensionDays /\ extended = row.extended + 1
      BY <2>4
  <2>6. new = [row EXCEPT !.end = end, !.extended = extended]
      BY <2>2, <2>5
  <2>7. new \in Schools!Row
      BY <2>6
  <2>8. /\ new.version = row.version /\ new.status = row.status
        /\ new.end = end /\ new.extended = extended
      BY <2>6
  <2> QED
      BY <1>6, <2>1, <2>5, <2>7, <2>8
<1>7. CASE op = "expire"
    BY <1>7
<1> QED
    BY <1>1, <1>2, <1>3, <1>4, <1>5, <1>6, <1>7 DEF Schools!Operations

\* One more extension, multiplied out.
LEMMA OneMoreExtension ==
  ASSUME NEW days \in Nat, NEW times \in Nat
  PROVE  days * (times + 1) = days * times + days
    OBVIOUS

\* The fields of a school that exists.
LEMMA SchoolExists ==
  ASSUME Schools!TypeOK, NEW s \in Applicants, Schools!Exists(s)
  PROVE  /\ school[s] \in Schools!Row /\ school[s].end \in Nat
         /\ school[s].extended \in Nat /\ school[s].version \in Nat
    BY SchoolBounds DEF Schools!TypeOK, Schools!Exists, Schools!Absent, Schools!Row

\* A school is changed by an operation that was allowed of the row as it is.
LEMMA SchoolRewritten ==
  ASSUME SchoolInv, NEW s \in Applicants, Schools!Exists(s),
         NEW op \in Schools!Operations \cup {"expire"},
         op # "expire" => Schools!Allowed(op, school[s]) /\ school[s].version < MaxChanges,
         op = "expire" => school[s].status = "TRIAL" /\ Schools!OnSomeList(s),
         Schools!Put(s, Schools!Result(op, school[s])),
         UNCHANGED <<attempt, journal, day, unmarked, died>>,
         request' = [a \in Deciders |-> request'[a]],
         \A a \in Deciders : request'[a] \in {request[a], Schools!Waiting},
         expiry' = [k \in Scanners |-> expiry'[k]],
         \A k \in Scanners : \/ expiry'[k] = expiry[k]
                             \/ \E list \in SUBSET expiry[k].list : expiry'[k] = [list |-> list, read |-> {}],
         overtaken' = IF op = "extend" /\ Schools!OnSomeList(s) THEN overtaken \cup {s} ELSE overtaken,
         shortcut' = IF op = "reactivate" /\ school[s].status # "SUSPENDED" THEN shortcut \cup {s} ELSE shortcut
  PROVE  SchoolInv' /\ SchoolsMove
<1>1. /\ school[s] \in Schools!Row /\ school[s].end \in Nat
      /\ school[s].extended \in Nat /\ school[s].version \in Nat
    BY SchoolExists DEF SchoolInv
<1>2. PICK new : new = Schools!Result(op, school[s])
    OBVIOUS
<1>3. /\ new \in Schools!Row /\ new.version = school[s].version
      /\ new.status # school[s].status => <<school[s].status, new.status>> \in Schools!Moves
      /\ new.status = "TRIAL" => school[s].status = "TRIAL"
      /\ op = "expire" => new.status = "EXPIRED"
      /\ new.status = "EXPIRED" => op = "expire" \/ (school[s].status = "EXPIRED" /\ op # "extend")
      /\ op # "extend" => new.end = school[s].end /\ new.extended = school[s].extended
      /\ op = "extend" => /\ new.end = school[s].end + ExtensionDays
                          /\ new.extended = school[s].extended + 1
      /\ new.status \in {"ACTIVE", "SUSPENDED"} /\ ~new.onboarded =>
           \/ school[s].status \in {"ACTIVE", "SUSPENDED"} /\ ~school[s].onboarded
              /\ ~(op = "reactivate" /\ school[s].status # "SUSPENDED")
           \/ op = "reactivate" /\ school[s].status # "SUSPENDED"
    BY <1>1, <1>2, Outcome
<1>4. PICK version \in Int : version = school[s].version + 1
    BY <1>1
<1>5. /\ version \in 0 .. MaxChanges + 1
      /\ version > MaxChanges => new.status # "TRIAL"
    BY <1>1, <1>3, <1>4, SchoolBounds DEF SchoolInv, RequestsHaveRead
<1>6. PICK row : row = [new EXCEPT !.version = version]
    OBVIOUS
<1>7. /\ row \in Schools!Row
      /\ row.status = new.status /\ row.version = version /\ row.end = new.end
      /\ row.extended = new.extended /\ row.onboarded = new.onboarded
    BY <1>3, <1>5, <1>6 DEF Schools!Row
<1>8. school' = [school EXCEPT ![s] = row]
    BY <1>2, <1>4, <1>6 DEF Schools!Put
<1>9. school \in [Applicants -> Schools!Row \cup {Schools!Absent}]
    BY DEF SchoolInv, Schools!TypeOK
<1>10. school'[s] = row /\ \A t \in Applicants : t # s => school'[t] = school[t]
    BY <1>8, <1>9
<1>11. row.status # "absent"
    BY <1>7 DEF Schools!Row
<1>12. \A t \in Applicants : Schools!Exists(t)' = Schools!Exists(t)
    BY <1>10, <1>11 DEF Schools!Exists
<1>13. Schools!TypeOK'
  <2>1. school' \in [Applicants -> Schools!Row \cup {Schools!Absent}]
      BY <1>7, <1>8, <1>9
  <2>2. request' \in [Deciders -> {Schools!Waiting}
                        \cup [op : Schools!Operations, school : Applicants, row : Schools!Row]]
    <3>1. \A a \in Deciders : request'[a] \in {Schools!Waiting}
                        \cup [op : Schools!Operations, school : Applicants, row : Schools!Row]
        BY DEF SchoolInv, Schools!TypeOK
    <3> QED
        BY <3>1
  <2>3. expiry' \in [Scanners -> [list : SUBSET Applicants, read : SUBSET (Applicants \X Schools!Row)]]
    <3>1. \A k \in Scanners : expiry[k] \in [list : SUBSET Applicants, read : SUBSET (Applicants \X Schools!Row)]
        BY DEF SchoolInv, Schools!TypeOK
    <3>2. \A k \in Scanners : expiry'[k] \in [list : SUBSET Applicants, read : SUBSET (Applicants \X Schools!Row)]
        BY <3>1
    <3> QED
        BY <3>2
  <2>4. overtaken' \subseteq Applicants /\ shortcut' \subseteq Applicants
      BY DEF SchoolInv, Schools!TypeOK
  <2> QED
      BY <2>1, <2>2, <2>3, <2>4 DEF SchoolInv, Schools!TypeOK
<1>14. \A t \in Applicants : \A old \in Schools!Row : AsRead(t, old) => AsRead(t, old)'
  <2> SUFFICES ASSUME NEW t \in Applicants, NEW old \in Schools!Row, AsRead(t, old)
               PROVE  AsRead(t, old)'
      OBVIOUS
  <2>1. old.version \in Nat
      BY SchoolBounds DEF Schools!Row
  <2>2. CASE t = s
      BY <1>1, <1>4, <1>7, <1>10, <1>12, <2>1, <2>2 DEF AsRead
  <2>3. CASE t # s
      BY <1>10, <1>12, <2>3 DEF AsRead
  <2> QED
      BY <2>2, <2>3
<1>15. RequestsHaveRead'
  <2>1. \A t \in Applicants : school'[t].version > MaxChanges => school'[t].status # "TRIAL"
      BY <1>5, <1>7, <1>10 DEF SchoolInv, RequestsHaveRead
  <2>2. \A a \in Deciders : request[a] # Schools!Waiting =>
          request[a].school \in Applicants /\ request[a].row \in Schools!Row
      BY DEF SchoolInv, Schools!TypeOK
  <2>3. \A a \in Deciders : request'[a] # Schools!Waiting =>
          /\ request'[a] = request[a] /\ request[a] # Schools!Waiting
          /\ \E t \in Applicants : \E old \in Schools!Row :
               t = request[a].school /\ old = request[a].row /\ AsRead(t, old)'
      BY <1>14, <2>2 DEF SchoolInv, RequestsHaveRead
  <2>4. \A a \in Deciders : request'[a] # Schools!Waiting =>
          /\ AsRead(request[a].school, request[a].row)'
          /\ Schools!Allowed(request'[a].op, request'[a].row)
          /\ request'[a].row.version < MaxChanges
    <3> SUFFICES ASSUME NEW a \in Deciders, request'[a] # Schools!Waiting
                 PROVE  /\ AsRead(request[a].school, request[a].row)'
                        /\ Schools!Allowed(request'[a].op, request'[a].row)
                        /\ request'[a].row.version < MaxChanges
        OBVIOUS
    <3>1. PICK t \in Applicants, old \in Schools!Row :
            t = request[a].school /\ old = request[a].row /\ AsRead(t, old)'
        BY <2>3
    <3>2. request'[a] = request[a] /\ request[a] # Schools!Waiting
        BY <2>3
    <3>3. AsRead(request[a].school, request[a].row)'
        BY <3>1, <3>2 DEF AsRead, Schools!Exists
    <3> QED
        BY <3>2, <3>3 DEF SchoolInv, RequestsHaveRead
  <2> QED
      BY <2>1, <2>4 DEF RequestsHaveRead
<1>16. ScansHaveRead'
  <2>1. \A k \in Scanners : expiry'[k].list \subseteq expiry[k].list /\ expiry[k].list \subseteq Applicants
      BY DEF SchoolInv, Schools!TypeOK
  <2>2. \A k \in Scanners : \A t \in expiry[k].list :
          Schools!Exists(t)' /\ (school'[t].end <= day \/ t \in overtaken')
    <3> SUFFICES ASSUME NEW k \in Scanners, NEW t \in expiry[k].list
                 PROVE  Schools!Exists(t)' /\ (school'[t].end <= day \/ t \in overtaken')
        OBVIOUS
    <3>1. /\ t \in Applicants /\ Schools!Exists(t) /\ (school[t].end <= day \/ t \in overtaken)
          /\ overtaken \subseteq overtaken'
        BY <2>1 DEF SchoolInv, ScansHaveRead
    <3>2. CASE t = s /\ op = "extend"
        BY <3>1, <3>2, <1>12 DEF Schools!OnSomeList
    <3>3. CASE t # s \/ op # "extend"
        BY <3>1, <3>3, <1>3, <1>7, <1>10, <1>12
    <3> QED
        BY <3>2, <3>3
  <2>3. \A k \in Scanners : \A e \in expiry'[k].read :
          e[1] \in expiry'[k].list /\ AsRead(e[1], e[2])' /\ e[2].status = "TRIAL"
    <3> SUFFICES ASSUME NEW k \in Scanners, NEW e \in expiry'[k].read
                 PROVE  e[1] \in expiry'[k].list /\ AsRead(e[1], e[2])' /\ e[2].status = "TRIAL"
        OBVIOUS
    <3>1. expiry'[k] = expiry[k]
        OBVIOUS
    <3>2. e \in expiry[k].read /\ expiry[k].read \subseteq Applicants \X Schools!Row
        BY <3>1 DEF SchoolInv, Schools!TypeOK
    <3>3. e[1] \in Applicants /\ e[2] \in Schools!Row
        BY <3>2
    <3>4. e[1] \in expiry[k].list /\ AsRead(e[1], e[2]) /\ e[2].status = "TRIAL"
        BY <3>2 DEF SchoolInv, ScansHaveRead
    <3> QED
        BY <3>1, <3>3, <3>4, <1>14
  <2> QED
      BY <2>1, <2>2, <2>3 DEF ScansHaveRead
<1>17. AttemptsAreKnown'
    BY <1>12 DEF SchoolInv, AttemptsAreKnown
<1>18. Schools!SlugIsUnique'
    BY <1>12 DEF SchoolInv, SchoolPromises, Schools!SlugIsUnique
<1>19. Schools!JournalIsTrue'
    BY <1>12 DEF SchoolInv, SchoolPromises, Schools!JournalIsTrue
<1>20. Schools!TrialsAddUp'
  <2> SUFFICES ASSUME NEW t \in Applicants, Schools!Exists(t)
               PROVE  /\ \E start \in 0 .. day : school'[t].end = start + TrialDays
                                                     + ExtensionDays * school'[t].extended
                      /\ school'[t].status = "EXPIRED" /\ school'[t].end > day => t \in overtaken'
      BY <1>12 DEF Schools!TrialsAddUp
  <2>1. /\ school[t].status = "EXPIRED" /\ school[t].end > day => t \in overtaken
        /\ overtaken \subseteq overtaken'
      BY DEF SchoolInv, SchoolPromises, Schools!TrialsAddUp
  <2>2. PICK start \in 0 .. day : school[t].end = start + TrialDays + ExtensionDays * school[t].extended
      BY DEF SchoolInv, SchoolPromises, Schools!TrialsAddUp
  <2>3. CASE t # s
      BY <1>10, <2>1, <2>2, <2>3
  <2>4. CASE t = s
    <3>1. school'[s].end = start + TrialDays + ExtensionDays * school'[s].extended
      <4>1. CASE op = "extend"
        <5>1. ExtensionDays * (school[s].extended + 1) = ExtensionDays * school[s].extended + ExtensionDays
            BY <1>1, SchoolBounds, OneMoreExtension
        <5>2. PICK days \in Int : days = ExtensionDays * school[s].extended
            BY <1>1, SchoolBounds
        <5>3. school'[s].end = school[s].end + ExtensionDays /\ school'[s].extended = school[s].extended + 1
            BY <4>1, <1>3, <1>7, <1>10
        <5>4. start \in Int /\ school[s].end = start + TrialDays + days
            BY <2>2, <2>4, <5>2
        <5>5. school'[s].end = start + TrialDays + (days + ExtensionDays)
            BY <5>2, <5>3, <5>4, SchoolBounds
        <5> QED
            BY <5>1, <5>2, <5>3, <5>5
      <4>2. CASE op # "extend"
          BY <4>2, <1>3, <1>7, <1>10, <2>2, <2>4
      <4> QED
          BY <4>1, <4>2
    <3>2. ASSUME school'[s].status = "EXPIRED", school'[s].end > day PROVE s \in overtaken'
      <4>1. new.status = "EXPIRED" /\ op # "extend"
          BY <3>2, <1>3, <1>7, <1>10 DEF Schools!Operations
      <4>2. school[s].end > day
          BY <3>2, <4>1, <1>3, <1>7, <1>10
      <4>3. CASE op = "expire"
        <5>1. school[s].end <= day \/ s \in overtaken
            BY <4>3 DEF SchoolInv, ScansHaveRead, Schools!OnSomeList
        <5>2. day \in Int
            BY DEF SchoolInv, Schools!TypeOK
        <5> QED
            BY <5>1, <5>2, <4>2, <1>1, <2>1
      <4>4. CASE op # "expire"
          BY <4>1, <4>2, <4>4, <1>3, <2>1, <2>4
      <4> QED
          BY <4>3, <4>4
    <3> QED
        BY <2>4, <3>1, <3>2
  <2> QED
      BY <2>3, <2>4
<1>21. Schools!OnboardedOrReactivated'
    BY <1>3, <1>7, <1>10 DEF SchoolInv, SchoolPromises, Schools!OnboardedOrReactivated
<1>22. SchoolsMove
    BY <1>3, <1>7, <1>10 DEF SchoolsMove
<1> QED
    BY <1>13, <1>15, <1>16, <1>17, <1>18, <1>19, <1>20, <1>21, <1>22 DEF SchoolInv, SchoolPromises

\* The journal is written, and what a provisioning request has come to; no school is.
LEMMA AttemptMoves ==
  ASSUME SchoolInv, NEW s \in Applicants,
         NEW at \in {"idle", "create", "complete", "fail", "done"},
         NEW status \in {"none", "RUNNING", "SUCCEEDED", "FAILED"},
         attempt' = [attempt EXCEPT ![s] = at],
         journal' = [journal EXCEPT ![s].status = status],
         unmarked \subseteq unmarked', unmarked' \subseteq unmarked \cup {s},
         died \subseteq died', died' \subseteq died \cup {s},
         UNCHANGED <<school, request, expiry, day, overtaken, shortcut>>,
         at = "create" => status = "RUNNING" /\ ~Schools!Exists(s),
         at = "complete" => Schools!Exists(s),
         at = "fail" /\ Schools!Exists(s) => s \in unmarked',
         at # "idle",
         status = "SUCCEEDED" => Schools!Exists(s),
         status = "FAILED" /\ Schools!Exists(s) => s \in unmarked',
         status = "RUNNING" /\ at = "done" => s \in died'
  PROVE  SchoolInv' /\ SchoolsMove
<1>1. /\ attempt \in [Applicants -> {"idle", "create", "complete", "fail", "done"}]
      /\ journal \in [Applicants -> [status : {"none", "RUNNING", "SUCCEEDED", "FAILED"}, attached : BOOLEAN]]
    BY DEF SchoolInv, Schools!TypeOK
<1>2. PICK row : row = [journal[s] EXCEPT !.status = status]
    OBVIOUS
<1>3. row \in [status : {"none", "RUNNING", "SUCCEEDED", "FAILED"}, attached : BOOLEAN]
    BY <1>1, <1>2
<1>4. row.status = status /\ row.attached = journal[s].attached
    BY <1>1, <1>2
<1>5. journal' = [journal EXCEPT ![s] = row]
    BY <1>2
<1>6. /\ journal' \in [Applicants -> [status : {"none", "RUNNING", "SUCCEEDED", "FAILED"}, attached : BOOLEAN]]
      /\ journal'[s] = row /\ \A t \in Applicants : t # s => journal'[t] = journal[t]
    BY <1>1, <1>3, <1>5
<1>7. /\ attempt' \in [Applicants -> {"idle", "create", "complete", "fail", "done"}]
      /\ attempt'[s] = at /\ \A t \in Applicants : t # s => attempt'[t] = attempt[t]
    BY <1>1
<1>8. \A t \in Applicants : Schools!Exists(t)' = Schools!Exists(t)
    BY DEF Schools!Exists
<1>9. Schools!TypeOK'
    BY <1>6, <1>7 DEF SchoolInv, Schools!TypeOK
<1>10. RequestsHaveRead' /\ ScansHaveRead'
    BY DEF SchoolInv, RequestsHaveRead, ScansHaveRead, AsRead, Schools!Exists
<1>11. AttemptsAreKnown'
    BY <1>4, <1>6, <1>7, <1>8 DEF SchoolInv, AttemptsAreKnown
<1>12. Schools!JournalIsTrue'
    BY <1>4, <1>6, <1>7, <1>8 DEF SchoolInv, SchoolPromises, Schools!JournalIsTrue
<1>13. Schools!SlugIsUnique' /\ Schools!TrialsAddUp' /\ Schools!OnboardedOrReactivated'
    BY DEF SchoolInv, SchoolPromises, Schools!SlugIsUnique, Schools!TrialsAddUp,
           Schools!OnboardedOrReactivated, Schools!Exists
<1>14. SchoolsMove
    BY DEF SchoolsMove
<1> QED
    BY <1>9, <1>10, <1>11, <1>12, <1>13, <1>14 DEF SchoolInv, SchoolPromises

\* Provisioning, up to the creation of the school.
LEMMA ProvisioningKeeps ==
  ASSUME SchoolInv, NEW s \in Applicants,
         \/ Schools!Start(s) \/ Schools!CreateFails(s) \/ Schools!MarkCompleted(s)
         \/ Schools!CompletionThrows(s) \/ Schools!MarkFailed(s) \/ Schools!Cut(s)
  PROVE  SchoolInv' /\ SchoolsMove
<1>1. /\ attempt[s] \in {"idle", "create", "complete", "fail", "done"}
      /\ journal \in [Applicants -> [status : {"none", "RUNNING", "SUCCEEDED", "FAILED"}, attached : BOOLEAN]]
    BY DEF SchoolInv, Schools!TypeOK
<1>2. PICK status \in {"none", "RUNNING", "SUCCEEDED", "FAILED"} : status = journal[s].status
    BY <1>1
<1>3. journal = [journal EXCEPT ![s].status = status]
  <2>1. journal[s] = [journal[s] EXCEPT !.status = status]
      BY <1>1, <1>2
  <2> QED
      BY <1>1, <2>1
<1>4. /\ attempt[s] = "idle" => journal[s].status = "none" /\ ~Schools!Exists(s)
      /\ attempt[s] = "create" => journal[s].status = "RUNNING" /\ ~Schools!Exists(s)
      /\ attempt[s] = "complete" => Schools!Exists(s)
      /\ attempt[s] = "fail" /\ Schools!Exists(s) => s \in unmarked
    BY DEF SchoolInv, AttemptsAreKnown
<1>5. /\ journal[s].status = "SUCCEEDED" => Schools!Exists(s)
      /\ journal[s].status = "FAILED" /\ Schools!Exists(s) => s \in unmarked
    BY DEF SchoolInv, SchoolPromises, Schools!JournalIsTrue
<1>6. CASE Schools!Start(s)
  <2>1. /\ attempt' = [attempt EXCEPT ![s] = "create"] /\ attempt[s] = "idle"
        /\ journal' = [journal EXCEPT ![s].status = "RUNNING"]
        /\ UNCHANGED <<school, request, expiry, day, unmarked, died, overtaken, shortcut>>
      BY <1>6 DEF Schools!Start
  <2> QED
      BY <2>1, <1>4, AttemptMoves
<1>7. CASE Schools!CreateFails(s)
  <2>1. /\ attempt' = [attempt EXCEPT ![s] = "fail"] /\ attempt[s] = "create"
        /\ journal' = [journal EXCEPT ![s].status = status]
        /\ UNCHANGED <<school, request, expiry, day, unmarked, died, overtaken, shortcut>>
      BY <1>3, <1>7 DEF Schools!CreateFails
  <2> QED
      BY <2>1, <1>2, <1>4, <1>5, AttemptMoves
<1>8. CASE Schools!MarkCompleted(s)
  <2>1. /\ attempt' = [attempt EXCEPT ![s] = "done"] /\ attempt[s] = "complete"
        /\ journal' = [journal EXCEPT ![s].status = "SUCCEEDED"]
        /\ UNCHANGED <<school, request, expiry, day, unmarked, died, overtaken, shortcut>>
      BY <1>8 DEF Schools!MarkCompleted
  <2> QED
      BY <2>1, <1>4, AttemptMoves
<1>9. CASE Schools!CompletionThrows(s)
  <2>1. /\ attempt' = [attempt EXCEPT ![s] = "fail"] /\ attempt[s] = "complete"
        /\ \/ journal' = [journal EXCEPT ![s].status = status]
           \/ journal' = [journal EXCEPT ![s].status = "SUCCEEDED"]
        /\ unmarked' = unmarked \cup {s}
        /\ UNCHANGED <<school, request, expiry, day, died, overtaken, shortcut>>
      BY <1>3, <1>9 DEF Schools!CompletionThrows
  <2>2. s \in unmarked' /\ Schools!Exists(s)
      BY <2>1, <1>4
  <2>3. CASE journal' = [journal EXCEPT ![s].status = status]
      BY <2>1, <2>2, <2>3, <1>2, AttemptMoves
  <2>4. CASE journal' = [journal EXCEPT ![s].status = "SUCCEEDED"]
      BY <2>1, <2>2, <2>4, AttemptMoves
  <2> QED
      BY <2>1, <2>3, <2>4
<1>10. CASE Schools!MarkFailed(s)
  <2>1. /\ attempt' = [attempt EXCEPT ![s] = "done"] /\ attempt[s] = "fail"
        /\ journal' = [journal EXCEPT ![s].status = "FAILED"]
        /\ UNCHANGED <<school, request, expiry, day, unmarked, died, overtaken, shortcut>>
      BY <1>10 DEF Schools!MarkFailed
  <2> QED
      BY <2>1, <1>4, AttemptMoves
<1>11. CASE Schools!Cut(s)
  <2>1. /\ attempt' = [attempt EXCEPT ![s] = "done"] /\ died' = died \cup {s}
        /\ journal' = [journal EXCEPT ![s].status = status]
        /\ UNCHANGED <<school, request, expiry, day, unmarked, overtaken, shortcut>>
      BY <1>3, <1>11 DEF Schools!Cut
  <2> QED
      BY <2>1, <1>2, <1>5, AttemptMoves
<1> QED
    BY <1>6, <1>7, <1>8, <1>9, <1>10, <1>11

\* The school is created, with its slug, and its trial begins.
LEMMA CreationKeeps ==
  ASSUME SchoolInv, NEW s \in Applicants, Schools!Create(s)
  PROVE  SchoolInv' /\ SchoolsMove
<1> DEFINE row == [Schools!Absent EXCEPT !.status = "TRIAL", !.plan = "ASSIGNED", !.end = day + TrialDays]
<1>1. /\ attempt[s] = "create" /\ Schools!SlugIsFree(s)
      /\ school' = [school EXCEPT ![s] = row]
      /\ journal' = [journal EXCEPT ![s].attached = TRUE]
      /\ attempt' = [attempt EXCEPT ![s] = "complete"]
      /\ UNCHANGED <<request, expiry, day, unmarked, died, overtaken, shortcut>>
    BY DEF Schools!Create
<1>2. day \in 0 .. LastDay
    BY DEF SchoolInv, Schools!TypeOK
<1>3. PICK end \in Nat : end = day + TrialDays
    BY <1>2, SchoolBounds
<1>4. row = [status |-> "TRIAL", plan |-> "ASSIGNED", onboarded |-> FALSE,
             end |-> end, extended |-> 0, version |-> 0]
  <2>1. PICK old : old = Schools!Absent
      OBVIOUS
  <2>2. old = [status |-> "absent", plan |-> "none", onboarded |-> FALSE,
               end |-> 0, extended |-> 0, version |-> 0]
      BY <2>1 DEF Schools!Absent
  <2>3. row = [old EXCEPT !.status = "TRIAL", !.plan = "ASSIGNED", !.end = end]
      BY <2>1, <1>3
  <2> HIDE DEF row
  <2> QED
      BY <2>2, <2>3
<1> HIDE DEF row
<1>5. row \in Schools!Row
    BY <1>4, SchoolBounds DEF Schools!Row
<1>6. /\ row.status = "TRIAL" /\ row.end = day + TrialDays /\ row.extended = 0
      /\ row.version = 0
    BY <1>3, <1>4
<1>7. /\ school' \in [Applicants -> Schools!Row \cup {Schools!Absent}]
      /\ school'[s] = row /\ \A t \in Applicants : t # s => school'[t] = school[t]
    BY <1>1, <1>5 DEF SchoolInv, Schools!TypeOK
<1>8. /\ attempt' \in [Applicants -> {"idle", "create", "complete", "fail", "done"}]
      /\ attempt'[s] = "complete" /\ \A t \in Applicants : t # s => attempt'[t] = attempt[t]
    BY <1>1 DEF SchoolInv, Schools!TypeOK
<1>9. journal \in [Applicants -> [status : {"none", "RUNNING", "SUCCEEDED", "FAILED"}, attached : BOOLEAN]]
    BY DEF SchoolInv, Schools!TypeOK
<1>10. PICK entry : entry = [journal[s] EXCEPT !.attached = TRUE]
    OBVIOUS
<1>11. /\ entry \in [status : {"none", "RUNNING", "SUCCEEDED", "FAILED"}, attached : BOOLEAN]
       /\ entry.status = journal[s].status /\ entry.attached = TRUE
    BY <1>9, <1>10
<1>12. /\ journal' \in [Applicants -> [status : {"none", "RUNNING", "SUCCEEDED", "FAILED"}, attached : BOOLEAN]]
       /\ journal'[s] = entry /\ \A t \in Applicants : t # s => journal'[t] = journal[t]
    BY <1>1, <1>9, <1>10, <1>11
<1>13. ~Schools!Exists(s) /\ journal[s].status = "RUNNING"
    BY <1>1 DEF SchoolInv, AttemptsAreKnown
<1>14. Schools!Exists(s)' /\ \A t \in Applicants : t # s => Schools!Exists(t)' = Schools!Exists(t)
    BY <1>6, <1>7 DEF Schools!Exists
<1>15. Schools!TypeOK'
    BY <1>1, <1>7, <1>8, <1>12 DEF SchoolInv, Schools!TypeOK
<1>16. \A t \in Applicants : Schools!Exists(t) => t # s
    BY <1>13
<1>17. RequestsHaveRead'
  <2>1. \A t \in Applicants : school'[t].version > MaxChanges => school'[t].status # "TRIAL"
      BY <1>6, <1>7, SchoolBounds DEF SchoolInv, RequestsHaveRead
  <2>2. \A a \in Deciders : request[a] # Schools!Waiting => request[a].school \in Applicants
      BY DEF SchoolInv, Schools!TypeOK
  <2> QED
      BY <2>1, <2>2, <1>1, <1>7, <1>14, <1>16 DEF SchoolInv, RequestsHaveRead, AsRead
<1>18. ScansHaveRead'
  <2>1. \A k \in Scanners : expiry[k].list \subseteq Applicants
      BY DEF SchoolInv, Schools!TypeOK
  <2> QED
      BY <2>1, <1>1, <1>7, <1>14, <1>16 DEF SchoolInv, ScansHaveRead, AsRead
<1>19. AttemptsAreKnown'
    BY <1>1, <1>8, <1>12, <1>14 DEF SchoolInv, AttemptsAreKnown
<1>20. Schools!SlugIsUnique'
    BY <1>1, <1>14 DEF SchoolInv, SchoolPromises, Schools!SlugIsUnique, Schools!SlugIsFree
<1>21. Schools!JournalIsTrue'
  <2>1. /\ journal'[s].attached = TRUE /\ journal'[s].status = "RUNNING" /\ attempt'[s] = "complete"
        /\ Schools!Exists(s)'
      BY <1>8, <1>11, <1>12, <1>13, <1>14
  <2>2. /\ journal'[s].attached = Schools!Exists(s)'
        /\ journal'[s].status = "SUCCEEDED" => Schools!Exists(s)'
        /\ journal'[s].status = "FAILED" /\ Schools!Exists(s)' => s \in unmarked'
        /\ journal'[s].status = "RUNNING" /\ attempt'[s] = "done" => s \in died'
      BY <2>1 DEF Schools!Exists
  <2>3. \A t \in Applicants : t # s =>
          /\ journal'[t].attached = Schools!Exists(t)'
          /\ journal'[t].status = "SUCCEEDED" => Schools!Exists(t)'
          /\ journal'[t].status = "FAILED" /\ Schools!Exists(t)' => t \in unmarked'
          /\ journal'[t].status = "RUNNING" /\ attempt'[t] = "done" => t \in died'
      BY <1>1, <1>8, <1>12, <1>14 DEF SchoolInv, SchoolPromises, Schools!JournalIsTrue
  <2> QED
      BY <2>2, <2>3 DEF Schools!JournalIsTrue
<1>22. Schools!TrialsAddUp'
  <2> SUFFICES ASSUME NEW t \in Applicants, Schools!Exists(t)'
               PROVE  /\ \E start \in 0 .. day : school'[t].end = start + TrialDays
                                                     + ExtensionDays * school'[t].extended
                      /\ school'[t].status = "EXPIRED" /\ school'[t].end > day => t \in overtaken
      BY <1>1 DEF Schools!TrialsAddUp
  <2>1. CASE t = s
    <3>1. ExtensionDays * 0 = 0 /\ day \in 0 .. day /\ day + TrialDays = day + TrialDays + 0
        BY <1>2, SchoolBounds
    <3> QED
        BY <2>1, <3>1, <1>6, <1>7
  <2>2. CASE t # s
      BY <2>2, <1>7, <1>14 DEF SchoolInv, SchoolPromises, Schools!TrialsAddUp
  <2> QED
      BY <2>1, <2>2
<1>23. Schools!OnboardedOrReactivated'
    BY <1>1, <1>6, <1>7 DEF SchoolInv, SchoolPromises, Schools!OnboardedOrReactivated
<1>24. SchoolsMove
    BY <1>7, <1>16 DEF SchoolsMove
<1> QED
    BY <1>15, <1>17, <1>18, <1>19, <1>20, <1>21, <1>22, <1>23, <1>24 DEF SchoolInv, SchoolPromises

\* No school is touched; time may pass, and what is read or forgotten is read of the schools
\* as they are.
LEMMA SchoolsStay ==
  ASSUME SchoolInv,
         UNCHANGED <<school, attempt, journal, unmarked, died, overtaken, shortcut>>,
         day' \in day .. LastDay,
         Schools!TypeOK',
         \A a \in Deciders : \/ request'[a] \in {request[a], Schools!Waiting}
                             \/ /\ AsRead(request'[a].school, request'[a].row)
                                /\ Schools!Allowed(request'[a].op, request'[a].row)
                                /\ request'[a].row.version < MaxChanges,
         \A k \in Scanners : \A t \in expiry'[k].list :
           t \in expiry[k].list \/ (Schools!Exists(t) /\ school[t].end <= day),
         \A k \in Scanners : \A e \in expiry'[k].read :
           /\ e[1] \in expiry'[k].list
           /\ e \in expiry[k].read \/ (AsRead(e[1], e[2]) /\ e[2].status = "TRIAL")
  PROVE  SchoolInv' /\ SchoolsMove
<1>1. /\ school' = school /\ attempt' = attempt /\ journal' = journal /\ unmarked' = unmarked
      /\ died' = died /\ overtaken' = overtaken /\ shortcut' = shortcut
    OBVIOUS
<1>2. day \in Int /\ day' \in Int /\ day <= day'
    BY SchoolBounds DEF SchoolInv, Schools!TypeOK
<1>3. \A s \in Applicants : school[s] \in Schools!Row \/ ~Schools!Exists(s)
    BY SchoolExists DEF SchoolInv
<1>4. \A s \in Applicants : Schools!Exists(s) => school[s].end \in Int
    BY SchoolExists DEF SchoolInv
<1>5. RequestsHaveRead'
    BY <1>1 DEF SchoolInv, RequestsHaveRead, AsRead, Schools!Exists
<1>6. ScansHaveRead'
  <2>1. \A k \in Scanners : \A t \in expiry'[k].list :
          Schools!Exists(t)' /\ (school'[t].end <= day' \/ t \in overtaken')
    <3> SUFFICES ASSUME NEW k \in Scanners, NEW t \in expiry'[k].list
                 PROVE  Schools!Exists(t)' /\ (school'[t].end <= day' \/ t \in overtaken')
        OBVIOUS
    <3>1. t \in Applicants
        BY DEF Schools!TypeOK
    <3>2. Schools!Exists(t) /\ (school[t].end <= day \/ t \in overtaken)
        BY DEF SchoolInv, ScansHaveRead
    <3>3. Schools!Exists(t)'
        BY <1>1, <3>2 DEF Schools!Exists
    <3> QED
        BY <1>1, <1>2, <1>4, <3>1, <3>2, <3>3
  <2>2. \A k \in Scanners : \A e \in expiry'[k].read :
          e[1] \in expiry'[k].list /\ AsRead(e[1], e[2])' /\ e[2].status = "TRIAL"
    <3> SUFFICES ASSUME NEW k \in Scanners, NEW e \in expiry'[k].read
                 PROVE  e[1] \in expiry'[k].list /\ AsRead(e[1], e[2])' /\ e[2].status = "TRIAL"
        OBVIOUS
    <3>1. e[1] \in expiry'[k].list /\ AsRead(e[1], e[2]) /\ e[2].status = "TRIAL"
        BY DEF SchoolInv, ScansHaveRead
    <3> QED
        BY <1>1, <3>1 DEF AsRead, Schools!Exists
  <2> QED
      BY <2>1, <2>2 DEF ScansHaveRead
<1>7. AttemptsAreKnown'
    BY <1>1 DEF SchoolInv, AttemptsAreKnown, Schools!Exists
<1>8. Schools!SlugIsUnique' /\ Schools!JournalIsTrue' /\ Schools!OnboardedOrReactivated'
    BY <1>1 DEF SchoolInv, SchoolPromises, Schools!SlugIsUnique, Schools!JournalIsTrue,
                Schools!OnboardedOrReactivated, Schools!Exists
<1>9. Schools!TrialsAddUp'
  <2> SUFFICES ASSUME NEW t \in Applicants, Schools!Exists(t)
               PROVE  /\ \E start \in 0 .. day' : school[t].end = start + TrialDays
                                                      + ExtensionDays * school[t].extended
                      /\ school[t].status = "EXPIRED" /\ school[t].end > day' => t \in overtaken
      BY <1>1 DEF Schools!TrialsAddUp, Schools!Exists
  <2>1. school[t].status = "EXPIRED" /\ school[t].end > day => t \in overtaken
      BY DEF SchoolInv, SchoolPromises, Schools!TrialsAddUp
  <2>2. PICK start \in 0 .. day : school[t].end = start + TrialDays + ExtensionDays * school[t].extended
      BY DEF SchoolInv, SchoolPromises, Schools!TrialsAddUp
  <2>3. start \in 0 .. day'
      BY <1>2
  <2> QED
      BY <1>2, <1>4, <2>1, <2>2, <2>3
<1>10. SchoolsMove
    BY <1>1 DEF SchoolsMove
<1> QED
    BY <1>5, <1>6, <1>7, <1>8, <1>9, <1>10 DEF SchoolInv, SchoolPromises

\* What an operator decides about a school keeps the invariant.
LEMMA DecidersKeep ==
  ASSUME SchoolInv, NEW a \in Deciders,
         \/ \E s \in Applicants, op \in Schools!Operations : Schools!Read(a, s, op)
         \/ Schools!Write(a) \/ Schools!GiveUp(a)
  PROVE  SchoolInv' /\ SchoolsMove
<1>1. request \in [Deciders -> {Schools!Waiting}
                     \cup [op : Schools!Operations, school : Applicants, row : Schools!Row]]
    BY DEF SchoolInv, Schools!TypeOK
<1>2. day \in 0 .. LastDay /\ day \in day .. LastDay
    BY SchoolBounds DEF SchoolInv, Schools!TypeOK
<1>3. /\ \A k \in Scanners : \A e \in expiry[k].read : e[1] \in expiry[k].list
      BY DEF SchoolInv, ScansHaveRead
<1>4. ASSUME NEW s \in Applicants, NEW op \in Schools!Operations, Schools!Read(a, s, op)
      PROVE  SchoolInv' /\ SchoolsMove
  <2>1. /\ Schools!Exists(s) /\ Schools!Allowed(op, school[s]) /\ school[s].version < MaxChanges
        /\ request' = [request EXCEPT ![a] = [op |-> op, school |-> s, row |-> school[s]]]
        /\ UNCHANGED <<school, attempt, journal, expiry, day, unmarked, died, overtaken, shortcut>>
      BY <1>4 DEF Schools!Read
  <2>2. school[s] \in Schools!Row /\ school[s].version \in Nat
      BY <2>1, SchoolExists DEF SchoolInv
  <2>3. [op |-> op, school |-> s, row |-> school[s]]
          \in [op : Schools!Operations, school : Applicants, row : Schools!Row]
      BY <2>2
  <2>4. /\ request' \in [Deciders -> {Schools!Waiting}
                     \cup [op : Schools!Operations, school : Applicants, row : Schools!Row]]
        /\ request'[a] = [op |-> op, school |-> s, row |-> school[s]]
        /\ \A b \in Deciders : b # a => request'[b] = request[b]
      BY <1>1, <2>1, <2>3
  <2>5. Schools!TypeOK'
      BY <2>1, <2>4 DEF SchoolInv, Schools!TypeOK
  <2>6. AsRead(s, school[s])
      BY <2>1, <2>2 DEF AsRead
  <2>7. /\ request'[a].op = op /\ request'[a].school = s /\ request'[a].row = school[s]
      BY <2>4
  <2>8. /\ AsRead(request'[a].school, request'[a].row)
        /\ Schools!Allowed(request'[a].op, request'[a].row)
        /\ request'[a].row.version < MaxChanges
      BY <2>1, <2>6, <2>7
  <2>9. \A b \in Deciders : \/ request'[b] \in {request[b], Schools!Waiting}
                            \/ /\ AsRead(request'[b].school, request'[b].row)
                               /\ Schools!Allowed(request'[b].op, request'[b].row)
                               /\ request'[b].row.version < MaxChanges
      BY <2>4, <2>8
  <2> QED
      BY <1>2, <1>3, <2>1, <2>5, <2>9, SchoolsStay
<1>5. CASE Schools!Write(a)
  <2>1. request[a] # Schools!Waiting
      BY <1>5 DEF Schools!Write
  <2>2. request[a] \in [op : Schools!Operations, school : Applicants, row : Schools!Row]
      BY <1>1, <2>1
  <2>3. PICK s \in Applicants, op \in Schools!Operations, row \in Schools!Row :
          s = request[a].school /\ op = request[a].op /\ row = request[a].row
      BY <2>2
  <2>4. /\ Schools!Fits(s, row)
        /\ Schools!Put(s, Schools!Result(op, row))
        /\ request' = [request EXCEPT ![a] = Schools!Waiting]
        /\ overtaken' = IF op = "extend" /\ Schools!OnSomeList(s) THEN overtaken \cup {s} ELSE overtaken
        /\ shortcut' = IF op = "reactivate" /\ row.status # "SUSPENDED" THEN shortcut \cup {s} ELSE shortcut
        /\ UNCHANGED <<attempt, journal, expiry, day, unmarked, died>>
      BY <1>5, <2>3 DEF Schools!Write
  <2>5. AsRead(s, row) /\ Schools!Allowed(op, row) /\ row.version < MaxChanges
      BY <2>1, <2>3 DEF SchoolInv, RequestsHaveRead
  <2>6. Schools!Exists(s) /\ row = school[s]
      BY <2>4, <2>5 DEF AsRead, Schools!Fits
  <2>7. op # "expire"
      BY DEF Schools!Operations
  <2>8. /\ request' = [b \in Deciders |-> request'[b]]
        /\ \A b \in Deciders : request'[b] \in {request[b], Schools!Waiting}
      BY <1>1, <2>4
  <2>9. expiry' = expiry /\ expiry = [k \in Scanners |-> expiry[k]]
      BY <2>4 DEF SchoolInv, Schools!TypeOK
  <2>10. Schools!Put(s, Schools!Result(op, school[s]))
      BY <2>4, <2>6
  <2>11. shortcut' = IF op = "reactivate" /\ school[s].status # "SUSPENDED" THEN shortcut \cup {s} ELSE shortcut
      BY <2>4, <2>6
  <2>12. Schools!Allowed(op, school[s]) /\ school[s].version < MaxChanges
      BY <2>5, <2>6
  <2> QED
      BY <2>4, <2>6, <2>7, <2>8, <2>9, <2>10, <2>11, <2>12, SchoolRewritten
<1>6. CASE Schools!GiveUp(a)
  <2>1. /\ request' = [request EXCEPT ![a] = Schools!Waiting]
        /\ UNCHANGED <<school, attempt, journal, expiry, day, unmarked, died, overtaken, shortcut>>
      BY <1>6 DEF Schools!GiveUp
  <2>2. /\ request' \in [Deciders -> {Schools!Waiting}
                     \cup [op : Schools!Operations, school : Applicants, row : Schools!Row]]
        /\ \A b \in Deciders : request'[b] \in {request[b], Schools!Waiting}
      BY <1>1, <2>1
  <2>3. Schools!TypeOK'
      BY <2>1, <2>2 DEF SchoolInv, Schools!TypeOK
  <2> QED
      BY <1>2, <1>3, <2>1, <2>2, <2>3, SchoolsStay
<1> QED
    BY <1>4, <1>5, <1>6

ScanRecords == [list : SUBSET Applicants, read : SUBSET (Applicants \X Schools!Row)]

\* What a scan of the trials does keeps the invariant.
LEMMA ScannersKeep ==
  ASSUME SchoolInv, NEW k \in Scanners,
         \/ Schools!List(k) \/ Schools!ScanDies(k)
         \/ \E s \in Applicants : \/ Schools!ExpireRead(k, s) \/ Schools!ExpireWrite(k, s)
                                  \/ Schools!ExpireFails(k, s)
  PROVE  SchoolInv' /\ SchoolsMove
<1>1. expiry \in [Scanners -> ScanRecords] /\ request \in [Deciders -> {Schools!Waiting}
                     \cup [op : Schools!Operations, school : Applicants, row : Schools!Row]]
    BY DEF SchoolInv, Schools!TypeOK, ScanRecords
<1>2. day \in 0 .. LastDay /\ day \in day .. LastDay
    BY SchoolBounds DEF SchoolInv, Schools!TypeOK
<1>3. \A j \in Scanners : \A e \in expiry[j].read : e[1] \in expiry[j].list
    BY DEF SchoolInv, ScansHaveRead
<1>4. ASSUME NEW list \in SUBSET Applicants, NEW read \in SUBSET (Applicants \X Schools!Row),
             expiry' = [expiry EXCEPT ![k] = [list |-> list, read |-> read]],
             UNCHANGED <<school, attempt, journal, request, day, unmarked, died, overtaken, shortcut>>,
             \A t \in list : t \in expiry[k].list \/ (Schools!Exists(t) /\ school[t].end <= day),
             \A e \in read : /\ e[1] \in list
                             /\ e \in expiry[k].read \/ (AsRead(e[1], e[2]) /\ e[2].status = "TRIAL")
      PROVE  SchoolInv' /\ SchoolsMove
  <2>1. [list |-> list, read |-> read] \in ScanRecords
      BY DEF ScanRecords
  <2>2. /\ expiry' \in [Scanners -> ScanRecords]
        /\ expiry'[k].list = list /\ expiry'[k].read = read
        /\ \A j \in Scanners : j # k => expiry'[j] = expiry[j]
      BY <1>1, <1>4, <2>1
  <2>3. Schools!TypeOK'
      BY <1>4, <2>2 DEF SchoolInv, Schools!TypeOK, ScanRecords
  <2>4. \A j \in Scanners : \A t \in expiry'[j].list :
          t \in expiry[j].list \/ (Schools!Exists(t) /\ school[t].end <= day)
      BY <1>4, <2>2
  <2>5. \A j \in Scanners : \A e \in expiry'[j].read :
          /\ e[1] \in expiry'[j].list
          /\ e \in expiry[j].read \/ (AsRead(e[1], e[2]) /\ e[2].status = "TRIAL")
      BY <1>3, <1>4, <2>2
  <2> QED
      BY <1>2, <1>4, <2>3, <2>4, <2>5, SchoolsStay
<1> DEFINE Forgetting(list) ==
             /\ expiry' = [expiry EXCEPT ![k] = [list |-> list, read |-> {}]]
             /\ UNCHANGED <<school, attempt, journal, request, day, unmarked, died, overtaken, shortcut>>
<1>11. ASSUME NEW list \in SUBSET Applicants, Forgetting(list),
             \A t \in list : t \in expiry[k].list \/ (Schools!Exists(t) /\ school[t].end <= day)
      PROVE  SchoolInv' /\ SchoolsMove
  <2>1. PICK read \in SUBSET (Applicants \X Schools!Row) : read = {}
      OBVIOUS
  <2>2. /\ expiry' = [expiry EXCEPT ![k] = [list |-> list, read |-> read]]
        /\ UNCHANGED <<school, attempt, journal, request, day, unmarked, died, overtaken, shortcut>>
      BY <1>11, <2>1
  <2>3. \A e \in read : /\ e[1] \in list
                        /\ e \in expiry[k].read \/ (AsRead(e[1], e[2]) /\ e[2].status = "TRIAL")
      BY <2>1
  <2>4. \A t \in list : t \in expiry[k].list \/ (Schools!Exists(t) /\ school[t].end <= day)
      BY <1>11
  <2> HIDE DEF Forgetting
  <2> QED
      BY <1>4, <2>2, <2>3, <2>4, Zenon
<1>5. CASE Schools!List(k)
  <2> DEFINE due == {s \in Applicants : Schools!Due(s)}
  <2>1. /\ expiry[k] = [list |-> {}, read |-> {}]
        /\ expiry' = [expiry EXCEPT ![k].list = due]
        /\ UNCHANGED <<school, attempt, journal, request, day, unmarked, died, overtaken, shortcut>>
      BY <1>5 DEF Schools!List, Schools!IdleScan
  <2>2. Forgetting(due)
    <3>1. [expiry[k] EXCEPT !.list = due] = [list |-> due, read |-> {}]
        BY <2>1
    <3>2. expiry' = [expiry EXCEPT ![k] = [expiry[k] EXCEPT !.list = due]]
        BY <2>1
    <3> QED
        BY <2>1, <3>1, <3>2
  <2>3. \A t \in due : Schools!Exists(t) /\ school[t].end <= day
      BY DEF Schools!Due, Schools!Exists
  <2> HIDE DEF due
  <2>4. due \in SUBSET Applicants
      BY DEF due
  <2> QED
      BY <1>11, <2>2, <2>3, <2>4
<1>6. CASE Schools!ScanDies(k)
  <2>1. PICK list \in SUBSET Applicants : list = {}
      OBVIOUS
  <2>2. Forgetting(list)
      BY <1>6, <2>1 DEF Schools!ScanDies, Schools!IdleScan
  <2> QED
      BY <1>11, <2>1, <2>2
<1>7. ASSUME NEW s \in Applicants, Schools!Skip(k, s),
             UNCHANGED <<school, attempt, journal, request, day, unmarked, died, overtaken, shortcut>>
      PROVE  SchoolInv' /\ SchoolsMove
  <2>1. expiry' = [expiry EXCEPT ![k] = [list |-> expiry[k].list \ {s}, read |-> {}]]
      BY <1>1, <1>7 DEF Schools!Skip
  <2>2. expiry[k].list \ {s} \in SUBSET Applicants
      BY <1>1 DEF ScanRecords
  <2> QED
      BY <1>11, <1>7, <2>1, <2>2
<1>8. ASSUME NEW s \in Applicants, Schools!ExpireFails(k, s) PROVE SchoolInv' /\ SchoolsMove
    BY <1>7, <1>8 DEF Schools!ExpireFails
<1>9. ASSUME NEW s \in Applicants, Schools!ExpireRead(k, s) PROVE SchoolInv' /\ SchoolsMove
  <2>1. /\ s \in expiry[k].list
        /\ UNCHANGED <<school, attempt, journal, request, day, unmarked, died, overtaken, shortcut>>
      BY <1>9 DEF Schools!ExpireRead
  <2>2. CASE Schools!OnTrial(school[s])
    <3>1. expiry' = [expiry EXCEPT ![k].read = {<<s, school[s]>>}]
        BY <1>9, <2>2 DEF Schools!ExpireRead
    <3>2. expiry' = [expiry EXCEPT ![k] = [list |-> expiry[k].list, read |-> {<<s, school[s]>>}]]
      <4>1. expiry[k] \in ScanRecords
          BY <1>1
      <4>2. [expiry[k] EXCEPT !.read = {<<s, school[s]>>}]
              = [list |-> expiry[k].list, read |-> {<<s, school[s]>>}]
          BY <4>1 DEF ScanRecords
      <4> QED
          BY <3>1, <4>2
    <3>3. Schools!Exists(s) /\ school[s].status = "TRIAL"
        BY <2>2 DEF Schools!OnTrial, Schools!Exists
    <3>4. school[s] \in Schools!Row /\ school[s].version \in Nat
        BY <3>3, SchoolExists DEF SchoolInv
    <3>5. AsRead(s, school[s])
        BY <3>3, <3>4 DEF AsRead
    <3>6. {<<s, school[s]>>} \in SUBSET (Applicants \X Schools!Row)
        BY <3>4
    <3>7. \A e \in {<<s, school[s]>>} : e[1] = s /\ e[2] = school[s]
        OBVIOUS
    <3>8. expiry[k].list \in SUBSET Applicants
        BY <1>1 DEF ScanRecords
    <3>9. \A e \in {<<s, school[s]>>} :
            e[1] \in expiry[k].list /\ AsRead(e[1], e[2]) /\ e[2].status = "TRIAL"
        BY <2>1, <3>3, <3>5, <3>7
    <3> QED
        BY <1>4, <2>1, <3>2, <3>6, <3>8, <3>9
  <2>3. CASE ~Schools!OnTrial(school[s])
      BY <1>7, <1>9, <2>1, <2>3 DEF Schools!ExpireRead
  <2> QED
      BY <2>2, <2>3
<1>10. ASSUME NEW s \in Applicants, Schools!ExpireWrite(k, s) PROVE SchoolInv' /\ SchoolsMove
  <2>1. PICK row \in {e[2] : e \in {f \in expiry[k].read : f[1] = s}} :
          Schools!Fits(s, row) /\ Schools!Put(s, Schools!Result("expire", row))
      BY <1>10 DEF Schools!ExpireWrite
  <2>2. PICK e \in expiry[k].read : e[1] = s /\ e[2] = row
      BY <2>1
  <2>3. s \in expiry[k].list /\ AsRead(s, row) /\ row.status = "TRIAL"
      BY <2>2 DEF SchoolInv, ScansHaveRead
  <2>4. Schools!Exists(s) /\ row = school[s]
      BY <2>1, <2>3 DEF AsRead, Schools!Fits
  <2>5. /\ expiry' = [expiry EXCEPT ![k] = [list |-> expiry[k].list \ {s}, read |-> {}]]
        /\ UNCHANGED <<attempt, journal, request, day, unmarked, died, overtaken, shortcut>>
      BY <1>1, <1>10 DEF Schools!ExpireWrite, Schools!Skip
  <2>6. /\ expiry' = [j \in Scanners |-> expiry'[j]]
        /\ \A j \in Scanners : \/ expiry'[j] = expiry[j]
                               \/ \E list \in SUBSET expiry[j].list : expiry'[j] = [list |-> list, read |-> {}]
      BY <1>1, <2>5
  <2>7. /\ request' = [b \in Deciders |-> request'[b]]
        /\ \A b \in Deciders : request'[b] \in {request[b], Schools!Waiting}
      BY <1>1, <2>5
  <2>8. school[s].status = "TRIAL" /\ Schools!OnSomeList(s)
      BY <2>3, <2>4 DEF Schools!OnSomeList
  <2>9. Schools!Put(s, Schools!Result("expire", school[s]))
      BY <2>1, <2>4
  <2>10. PICK op : op = "expire"
      OBVIOUS
  <2>11. /\ Schools!Put(s, Schools!Result(op, school[s])) /\ op \in Schools!Operations \cup {"expire"}
         /\ op # "expire" => Schools!Allowed(op, school[s]) /\ school[s].version < MaxChanges
         /\ overtaken' = IF op = "extend" /\ Schools!OnSomeList(s) THEN overtaken \cup {s} ELSE overtaken
         /\ shortcut' = IF op = "reactivate" /\ school[s].status # "SUSPENDED"
                        THEN shortcut \cup {s} ELSE shortcut
      BY <2>5, <2>9, <2>10
  <2> QED
      BY <2>4, <2>5, <2>6, <2>7, <2>8, <2>11, SchoolRewritten
<1> QED
    BY <1>5, <1>6, <1>8, <1>9, <1>10

\* Every step of a school keeps the invariant and follows the table of transitions.
LEMMA SchoolsKeep ==
  ASSUME SchoolInv, [Schools!Next]_schoolVars
  PROVE  SchoolInv' /\ SchoolsMove
<1>1. ASSUME UNCHANGED <<school, attempt, journal, request, expiry, unmarked, died, overtaken, shortcut>>,
             day' \in day .. LastDay
      PROVE  SchoolInv' /\ SchoolsMove
  <2>1. Schools!TypeOK'
    <3>1. day' \in 0 .. LastDay
        BY <1>1, SchoolBounds DEF SchoolInv, Schools!TypeOK
    <3> QED
        BY <1>1, <3>1 DEF SchoolInv, Schools!TypeOK
  <2>2. \A k \in Scanners : \A e \in expiry[k].read : e[1] \in expiry[k].list
      BY DEF SchoolInv, ScansHaveRead
  <2> QED
      BY <1>1, <2>1, <2>2, SchoolsStay
<1>2. day \in 0 .. LastDay
    BY DEF SchoolInv, Schools!TypeOK
<1>3. CASE UNCHANGED schoolVars
  <2>1. day' \in day .. LastDay
      BY <1>2, <1>3, SchoolBounds DEF schoolVars
  <2> QED
      BY <1>1, <1>3, <2>1 DEF schoolVars
<1>4. CASE Schools!Tick
  <2>1. day' \in day .. LastDay
      BY <1>2, <1>4, SchoolBounds DEF Schools!Tick
  <2> QED
      BY <1>1, <1>4, <2>1 DEF Schools!Tick
<1>5. ASSUME NEW s \in Applicants,
             \/ Schools!Start(s) \/ Schools!Create(s) \/ Schools!CreateFails(s) \/ Schools!MarkCompleted(s)
             \/ Schools!CompletionThrows(s) \/ Schools!MarkFailed(s) \/ Schools!Cut(s)
      PROVE  SchoolInv' /\ SchoolsMove
    BY <1>5, ProvisioningKeeps, CreationKeeps
<1>6. ASSUME NEW a \in Deciders,
             \/ \E s \in Applicants, op \in Schools!Operations : Schools!Read(a, s, op)
             \/ Schools!Write(a) \/ Schools!GiveUp(a)
      PROVE  SchoolInv' /\ SchoolsMove
    BY <1>6, DecidersKeep
<1>7. ASSUME NEW k \in Scanners,
             \/ Schools!List(k) \/ Schools!ScanDies(k)
             \/ \E s \in Applicants : \/ Schools!ExpireRead(k, s) \/ Schools!ExpireWrite(k, s)
                                      \/ Schools!ExpireFails(k, s)
      PROVE  SchoolInv' /\ SchoolsMove
    BY <1>7, ScannersKeep
<1> QED
    BY <1>3, <1>4, <1>5, <1>6, <1>7 DEF Schools!Next

-----------------------------------------------------------------------------
(* The two components that follow a table of states                         *)

\* The scan of the subscriptions expires and warns of what is due whatever it read before,
\* nothing leaves CANCELLED, and a school moves as the table of transitions says.
THEOREM LapsesAlwaysDue == PlatformSpec => LapsesWhenDue
<1> DEFINE Both == PlanInv /\ SchoolInv
<1>1. PlatformInit => Both
    BY PlansBegin, SchoolsBegin DEF PlatformInit
<1>2. Both /\ [PlatformNext]_PlatformVars => Both' /\ PlansMove /\ SchoolsMove
    BY PlansKeep, SchoolsKeep, ComponentsStep
<1>3. PlansMove =>
        [\A s \in Plans!Rows :
           LET old == sub[s]  new == sub'[s]
           IN /\ new.status = "EXPIRED" /\ old.status # "EXPIRED" =>
                   old.expiry = "past" /\ old.status \in {"TRIAL", "ACTIVE", "EXPIRING"}
              /\ new.status = "EXPIRING" /\ old.status # "EXPIRING" =>
                   old.expiry \in {"near", "past"} /\ old.status = "ACTIVE"
              /\ old.status = "CANCELLED" => new.status = "CANCELLED"]_<<sub, held, scan>>
    BY DEF PlansMove, RowMoves
<1>4. SchoolsMove =>
        [\A s \in Applicants :
           Schools!Exists(s) /\ school'[s].status # school[s].status =>
             <<school[s].status, school'[s].status>> \in Schools!Moves]_school
    BY DEF SchoolsMove
<1> QED
    BY <1>1, <1>2, <1>3, <1>4, PTL DEF PlatformSpec, LapsesWhenDue, Plans!LapsesWhenDue,
       Plans!vars, Schools!StatesFollowTheTable

-----------------------------------------------------------------------------
(* How a parent or a student comes into the portal                          *)

Tokens == 1 .. MaxTokens

\* Who is to be issued a token, or was, is a user; a redemption has read a token, and if it
\* took the login for another than the first the user has settled.
HoldersAreKnown ==
  /\ \A a \in Inviters : inviter[a] # "none" => user[UserOf[inviter[a]]] # "absent"
  /\ \A k \in Tokens : token[k] # Portal!NoToken => user[token[k].user] # "absent"
  /\ \A c \in Redeemers : redeemer[c].at # "idle" =>
       redeemer[c].token \in Tokens /\ token[redeemer[c].token] # Portal!NoToken
  /\ \A c \in Redeemers : redeemer[c].at = "confirm" /\ ~redeemer[c].first =>
       user[token[redeemer[c].token].user] = "settled"

\* The first login is published by a redemption that is done, and what its handler has seen is
\* a link of that user, which is still pending unless it was changed.
LoginsAreKnown ==
  /\ \A c \in Redeemers : redeemer[c].at # "done" => login[c] = "none"
  /\ \A c \in Redeemers : seen[c] # Portal!NoLink =>
       /\ login[c] = "pending"
       /\ seen[c].link \in Links /\ UserOf[seen[c].link] = Portal!UserOfEvent(c)
       /\ link[seen[c].link].status # "absent"
       /\ seen[c].version <= link[seen[c].link].version
       /\ seen[c].version = link[seen[c].link].version => link[seen[c].link].status = "PENDING_INVITE"

\* A user whom the portal has created was created with a link.
Linked(u) == \E l \in Links : UserOf[l] = u /\ link[l].status # "absent"

UsersAreLinked == \A u \in Portal!Users : user[u] # "absent" => u \in known \/ Linked(u)

PortalInv ==
  /\ Portal!TypeOK /\ HoldersAreKnown /\ LoginsAreKnown /\ UsersAreLinked
  /\ Portal!TokensAreFew /\ Portal!InvitedCanEnter /\ Portal!PendingIsExplained

TokenRows == [user : Portal!Users, status : {"live", "cancelled", "expired", "consumed"}, late : BOOLEAN]

LinkRows == [status : {"absent", "PENDING_INVITE", "ACTIVE", "SUSPENDED", "ARCHIVED"}, version : 0 .. MaxRenewals]

\* The bounds of the portal, and the value that stands for no link.
LEMMA PortalBounds ==
  /\ MaxTokens \in Nat /\ MaxRenewals \in Nat /\ "none" \notin Links /\ "none" \notin Portal!Users
  /\ \A l \in Links : UserOf[l] \in Portal!Users
    BY PlatformAssumption DEF Portal!Users

\* The bounds of the tokens.
LEMMA RenewalBounds == MaxTokens \in Nat /\ MaxRenewals \in Nat
    BY PlatformAssumption

\* The types of the portal, one by one.
LEMMA PortalTypes ==
  ASSUME Portal!TypeOK
  PROVE  /\ link \in [Links -> LinkRows]
         /\ user \in [Portal!Users -> {"absent", "invited", "settled"}]
         /\ token \in [Tokens -> {Portal!NoToken} \cup TokenRows]
         /\ inviter \in [Inviters -> Links \cup {"none"}]
         /\ redeemer \in [Redeemers -> [at : {"idle", "confirm", "done"}, token : 0 .. MaxTokens, first : BOOLEAN]]
         /\ login \in [Redeemers -> {"none", "pending", "delivered", "failed"}]
         /\ seen \in [Redeemers -> [link : Links \cup {"none"}, version : 0 .. MaxRenewals]]
    BY DEF Portal!TypeOK, LinkRows, TokenRows, Tokens

\* A token was issued if it belongs to a user or has a status.
LEMMA TokenOfUser ==
  ASSUME Portal!TypeOK, NEW k \in Tokens
  PROVE  /\ token[k] = Portal!NoToken => token[k].user = "none" /\ token[k].status = "none"
         /\ token[k] # Portal!NoToken => token[k] \in TokenRows /\ token[k].user \in Portal!Users
         /\ token[k].user \in Portal!Users => token[k] # Portal!NoToken
         /\ token[k].status # "none" => token[k] # Portal!NoToken
<1>1. token[k] \in {Portal!NoToken} \cup TokenRows
    BY PortalTypes
<1>2. Portal!NoToken.user = "none" /\ Portal!NoToken.status = "none"
    BY DEF Portal!NoToken
<1>3. "none" \notin Portal!Users
    BY PortalBounds
<1>4. token[k] \in TokenRows => token[k].user \in Portal!Users
    BY DEF TokenRows
<1> QED
    BY <1>1, <1>2, <1>3, <1>4

\* At first nobody is invited, and who has an account is known.
LEMMA PortalBegins == Portal!Init => PortalInv
<1> SUFFICES ASSUME Portal!Init PROVE PortalInv
    OBVIOUS
<1>1. /\ registered \in {"parent", "student"}
      /\ link = [l \in Links |-> [status |-> "absent", version |-> 0]]
      /\ user \in [Portal!Users -> {"absent", "settled"}]
      /\ token = [k \in 1 .. MaxTokens |-> Portal!NoToken]
      /\ inviter = [a \in Inviters |-> "none"]
      /\ redeemer = [c \in Redeemers |-> [at |-> "idle", token |-> 0, first |-> FALSE]]
      /\ login = [c \in Redeemers |-> "none"]
      /\ seen = [c \in Redeemers |-> Portal!NoLink]
      /\ known = {u \in Portal!Users : user[u] = "settled"} /\ stopped = {}
    BY DEF Portal!Init, Portal!Unused
<1>2. Portal!TypeOK
  <2>1. link \in [Links -> [status : {"absent", "PENDING_INVITE", "ACTIVE", "SUSPENDED", "ARCHIVED"},
                            version : 0 .. MaxRenewals]]
      BY <1>1, RenewalBounds
  <2>2. user \in [Portal!Users -> {"absent", "invited", "settled"}]
      BY <1>1
  <2>3. redeemer \in [Redeemers -> [at : {"idle", "confirm", "done"}, token : 0 .. MaxTokens,
                                    first : BOOLEAN]]
      BY <1>1, RenewalBounds
  <2>4. seen \in [Redeemers -> [link : Links \cup {"none"}, version : 0 .. MaxRenewals]]
      BY <1>1, RenewalBounds DEF Portal!NoLink
  <2>5. /\ token \in [1 .. MaxTokens ->
              {Portal!NoToken} \cup [user : Portal!Users, status : {"live", "cancelled", "expired", "consumed"},
                                     late : BOOLEAN]]
        /\ inviter \in [Inviters -> Links \cup {"none"}]
        /\ login \in [Redeemers -> {"none", "pending", "delivered", "failed"}]
        /\ known \subseteq Portal!Users /\ stopped \subseteq Portal!Users
      BY <1>1
  <2> QED
      BY <1>1, <2>1, <2>2, <2>3, <2>4, <2>5 DEF Portal!TypeOK
<1>3. HoldersAreKnown /\ LoginsAreKnown
    BY <1>1 DEF HoldersAreKnown, LoginsAreKnown, Tokens
<1>4. UsersAreLinked
    BY <1>1 DEF UsersAreLinked
<1>5. Portal!TokensAreFew
    BY <1>1 DEF Portal!TokensAreFew, Portal!Live, Portal!NoToken
<1>6. Portal!InvitedCanEnter /\ Portal!PendingIsExplained
    BY <1>1 DEF Portal!InvitedCanEnter, Portal!PendingIsExplained
<1> QED
    BY <1>2, <1>3, <1>4, <1>5, <1>6 DEF PortalInv

\* What is there stays: users are not forgotten, nor tokens, nor links, and an archived link
\* stays archived.
PortalGrows ==
  /\ \A u \in Portal!Users : /\ user[u] # "absent" => user'[u] # "absent"
                             /\ user[u] = "settled" => user'[u] = "settled"
  /\ \A k \in Tokens : token[k] # Portal!NoToken =>
       token'[k] # Portal!NoToken /\ token'[k].user = token[k].user
  /\ \A l \in Links :
       /\ link'[l] = link[l] \/ link'[l].version > link[l].version \/ link[l].status = "absent"
       /\ link[l].status # "absent" => link'[l].status # "absent"
       /\ link[l].status = "ARCHIVED" => link'[l].status = "ARCHIVED"
  /\ known' = known /\ registered' = registered

\* What is known of holders, logins and links stays known.
LEMMA PortalStays ==
  ASSUME PortalInv, PortalGrows, Portal!TypeOK',
         UNCHANGED <<redeemer, login, seen>>,
         \A a \in Inviters : inviter'[a] \in {"none", inviter[a]} \/ user'[UserOf[inviter'[a]]] # "absent",
         \A k \in Tokens : token[k] = Portal!NoToken /\ token'[k] # Portal!NoToken =>
           user'[token'[k].user] # "absent",
         \A u \in Portal!Users : user'[u] # "absent" => user[u] # "absent" \/ Linked(u)'
  PROVE  HoldersAreKnown' /\ LoginsAreKnown' /\ UsersAreLinked'
<1>1. /\ redeemer' = redeemer /\ login' = login /\ seen' = seen
      /\ \A u \in Portal!Users : /\ user[u] # "absent" => user'[u] # "absent"
                                 /\ user[u] = "settled" => user'[u] = "settled"
      /\ \A k \in Tokens : token[k] # Portal!NoToken =>
           /\ token'[k] # Portal!NoToken /\ token'[k].user = token[k].user
           /\ token[k].user \in Portal!Users
    BY TokenOfUser DEF PortalGrows, PortalInv
<1>2. HoldersAreKnown'
  <2>1. \A a \in Inviters : inviter'[a] # "none" => user'[UserOf[inviter'[a]]] # "absent"
    <3>1. \A a \in Inviters : inviter[a] # "none" => UserOf[inviter[a]] \in Portal!Users
        BY PortalTypes, PortalBounds DEF PortalInv
    <3>2. \A a \in Inviters : inviter[a] # "none" => user[UserOf[inviter[a]]] # "absent"
        BY DEF PortalInv, HoldersAreKnown
    <3> QED
        BY <1>1, <3>1, <3>2
  <2>2. \A k \in Tokens : token'[k] # Portal!NoToken => user'[token'[k].user] # "absent"
      BY <1>1 DEF PortalInv, HoldersAreKnown
  <2>3. \A c \in Redeemers : redeemer'[c].at # "idle" =>
          redeemer'[c].token \in Tokens /\ token'[redeemer'[c].token] # Portal!NoToken
      BY <1>1 DEF PortalInv, HoldersAreKnown
  <2>4. \A c \in Redeemers : redeemer'[c].at = "confirm" /\ ~redeemer'[c].first =>
          user'[token'[redeemer'[c].token].user] = "settled"
      BY <1>1 DEF PortalInv, HoldersAreKnown
  <2> QED
      BY <2>1, <2>2, <2>3, <2>4 DEF HoldersAreKnown, Tokens
<1>3. LoginsAreKnown'
  <2>1. \A c \in Redeemers : redeemer'[c].at # "done" => login'[c] = "none"
      BY <1>1 DEF PortalInv, LoginsAreKnown
  <2> SUFFICES ASSUME NEW c \in Redeemers, seen[c] # Portal!NoLink
               PROVE  /\ login[c] = "pending"
                      /\ seen[c].link \in Links /\ UserOf[seen[c].link] = Portal!UserOfEvent(c)'
                      /\ link'[seen[c].link].status # "absent"
                      /\ seen[c].version <= link'[seen[c].link].version
                      /\ seen[c].version = link'[seen[c].link].version =>
                           link'[seen[c].link].status = "PENDING_INVITE"
      BY <1>1, <2>1 DEF LoginsAreKnown
  <2>2. /\ login[c] = "pending"
        /\ seen[c].link \in Links /\ UserOf[seen[c].link] = Portal!UserOfEvent(c)
        /\ link[seen[c].link].status # "absent"
        /\ seen[c].version <= link[seen[c].link].version
        /\ seen[c].version = link[seen[c].link].version => link[seen[c].link].status = "PENDING_INVITE"
      BY DEF PortalInv, LoginsAreKnown
  <2>3. redeemer[c].at = "done"
      BY <2>2 DEF PortalInv, LoginsAreKnown
  <2>4. redeemer[c].token \in Tokens /\ token[redeemer[c].token] # Portal!NoToken
      BY <2>3 DEF PortalInv, HoldersAreKnown
  <2>5. Portal!UserOfEvent(c)' = Portal!UserOfEvent(c)
      BY <1>1, <2>4 DEF Portal!UserOfEvent
  <2>6. PICK l \in Links : l = seen[c].link
      BY <2>2
  <2>7. link[l] \in LinkRows /\ link'[l] \in LinkRows
      BY PortalTypes DEF PortalInv, Portal!TypeOK, LinkRows
  <2>8. seen[c].version \in Int
    <3>1. seen[c] \in [link : Links \cup {"none"}, version : 0 .. MaxRenewals]
        BY PortalTypes DEF PortalInv
    <3> QED
        BY <3>1, RenewalBounds
  <2>9. link[l].version \in Int /\ link'[l].version \in Int
      BY <2>7, RenewalBounds DEF LinkRows
  <2>10. /\ link'[l].status # "absent" /\ seen[c].version <= link'[l].version
         /\ seen[c].version = link'[l].version => link'[l].status = "PENDING_INVITE"
    <3>1. link'[l] = link[l] \/ link'[l].version > link[l].version
        BY <2>2, <2>6 DEF PortalGrows
    <3>2. link'[l].status # "absent"
        BY <2>2, <2>6 DEF PortalGrows
    <3> QED
        BY <2>2, <2>6, <2>8, <2>9, <3>1, <3>2
  <2> QED
      BY <2>2, <2>5, <2>6, <2>10
<1>4. \A u \in Portal!Users : Linked(u) => Linked(u)'
    BY DEF Linked, PortalGrows
<1>5. UsersAreLinked'
    BY <1>4 DEF PortalInv, UsersAreLinked, PortalGrows
<1> QED
    BY <1>2, <1>3, <1>5

\* The ways in which a user who is invited can come in, or is known not to.
Entrance(u) ==
  \/ Portal!Live(u) # {} \/ u \in stopped
  \/ \E a \in Inviters : inviter[a] # "none" /\ UserOf[inviter[a]] = u
  \/ \E k \in Tokens : token[k].user = u /\ token[k].status = "expired"
  \/ \E m \in Links : UserOf[m] = u /\ link[m].status = "ARCHIVED"

\* The ways in which a link stays pending after the login.
Explained(l) ==
  \/ \E c \in Redeemers : login[c] \in {"pending", "failed"} /\ Portal!UserOfEvent(c) = UserOf[l]
  \/ UserOf[l] \in known
  \/ \E m \in Links \ {l} : UserOf[m] = UserOf[l] /\ link[m].status # "absent"
  \/ registered # KindOf[l]

Expected(l) == link[l].status = "PENDING_INVITE" /\ user[UserOf[l]] = "invited"

Delayed(l) == link[l].status = "PENDING_INVITE" /\ user[UserOf[l]] = "settled"

\* Two promises of the portal in the words of the proof.
LEMMA EntranceIsMeant ==
  /\ Portal!InvitedCanEnter <=> \A l \in Links : Expected(l) => Entrance(UserOf[l])
  /\ Portal!PendingIsExplained <=> \A l \in Links : Delayed(l) => Explained(l)
    BY DEF Portal!InvitedCanEnter, Portal!PendingIsExplained, Expected, Delayed, Entrance, Explained, Tokens

\* Tokens that are cancelled together stay what they were but for that.
LEMMA CancelledTokens ==
  ASSUME Portal!TypeOK, NEW ks \in SUBSET Tokens, \A k \in ks : token[k] # Portal!NoToken
  PROVE  /\ Portal!Cancelled(ks) \in [Tokens -> {Portal!NoToken} \cup TokenRows]
         /\ \A k \in Tokens \ ks : Portal!Cancelled(ks)[k] = token[k]
         /\ \A k \in ks : /\ Portal!Cancelled(ks)[k] \in TokenRows
                          /\ Portal!Cancelled(ks)[k] # Portal!NoToken
                          /\ Portal!Cancelled(ks)[k].user = token[k].user
                          /\ Portal!Cancelled(ks)[k].status = "cancelled"
<1>1. \A row \in TokenRows :
        /\ [row EXCEPT !.status = "cancelled"] \in TokenRows
        /\ [row EXCEPT !.status = "cancelled"].user = row.user
        /\ [row EXCEPT !.status = "cancelled"].status = "cancelled"
        /\ [row EXCEPT !.status = "cancelled"] # Portal!NoToken
    BY DEF TokenRows, Portal!NoToken
<1>2. \A k \in Tokens : token[k] \in {Portal!NoToken} \cup TokenRows
    BY PortalTypes
<1>3. \A k \in ks : token[k] \in TokenRows
    BY <1>2
<1>4. Portal!Cancelled(ks)
        = [k \in Tokens |-> IF k \in ks THEN [token[k] EXCEPT !.status = "cancelled"] ELSE token[k]]
    BY DEF Portal!Cancelled, Tokens
<1>5. \A k \in Tokens : Portal!Cancelled(ks)[k]
        = IF k \in ks THEN [token[k] EXCEPT !.status = "cancelled"] ELSE token[k]
    BY <1>4
<1>6. \A k \in Tokens : (IF k \in ks THEN [token[k] EXCEPT !.status = "cancelled"] ELSE token[k])
                          \in {Portal!NoToken} \cup TokenRows
    BY <1>1, <1>2, <1>3
<1>7. Portal!Cancelled(ks) \in [Tokens -> {Portal!NoToken} \cup TokenRows]
    BY <1>4, <1>6
<1> QED
    BY <1>1, <1>3, <1>5, <1>7

\* The live tokens of a user.
LEMMA LiveTokens ==
  ASSUME Portal!TypeOK, NEW u \in Portal!Users
  PROVE  /\ Portal!Live(u) \in SUBSET Tokens
         /\ \A k \in Portal!Live(u) : token[k] # Portal!NoToken /\ token[k].user = u /\ token[k].status = "live"
         /\ \A k \in Tokens : token[k].user = u /\ token[k].status = "live" => k \in Portal!Live(u)
    BY TokenOfUser DEF Portal!Live, Tokens

\* A user is issued a token, and those that were live are cancelled.
LEMMA TokenIssued ==
  ASSUME Portal!TypeOK, NEW u \in Portal!Users, Portal!Issue(u)
  PROVE  /\ token' \in [Tokens -> {Portal!NoToken} \cup TokenRows]
         /\ \E k \in Tokens :
              /\ token[k] = Portal!NoToken
              /\ token'[k].user = u /\ token'[k].status = "live"
              /\ token'[k].late = Portal!ArchivedEverywhere(u)
              /\ token'[k] # Portal!NoToken
              /\ \A j \in Tokens \ {k} :
                   \/ token'[j] = token[j] /\ ~(token[j].user = u /\ token[j].status = "live")
                   \/ /\ token[j].user = u /\ token[j].status = "live"
                      /\ token'[j].user = u /\ token'[j].status = "cancelled"
                      /\ token'[j] # Portal!NoToken
<1>1. PICK k \in Tokens :
        /\ token[k] = Portal!NoToken
        /\ token' = [Portal!Cancelled(Portal!Live(u)) EXCEPT ![k] = Portal!New(u)]
    BY DEF Portal!Issue, Tokens
<1>2. PICK others : others = Portal!Cancelled(Portal!Live(u))
    OBVIOUS
<1>3. /\ others \in [Tokens -> {Portal!NoToken} \cup TokenRows]
      /\ \A j \in Tokens \ Portal!Live(u) : others[j] = token[j]
      /\ \A j \in Portal!Live(u) : /\ others[j] # Portal!NoToken
                                   /\ others[j].user = token[j].user
                                   /\ others[j].status = "cancelled"
    BY <1>2, CancelledTokens, LiveTokens
<1>4. PICK late \in BOOLEAN : late = Portal!ArchivedEverywhere(u)
    BY DEF Portal!ArchivedEverywhere
<1>5. Portal!New(u) = [user |-> u, status |-> "live", late |-> late]
    BY <1>4 DEF Portal!New
<1>6. PICK new : new = Portal!New(u)
    OBVIOUS
<1>7. /\ new \in TokenRows /\ new.user = u /\ new.status = "live" /\ new.late = late
      /\ new # Portal!NoToken
    BY <1>5, <1>6 DEF TokenRows, Portal!NoToken
<1>8. token' = [others EXCEPT ![k] = new]
    BY <1>1, <1>2, <1>6
<1>9. /\ token' \in [Tokens -> {Portal!NoToken} \cup TokenRows]
      /\ token'[k] = new /\ \A j \in Tokens \ {k} : token'[j] = others[j]
    BY <1>3, <1>7, <1>8
<1>10. \A j \in Tokens \ {k} :
         \/ token'[j] = token[j] /\ ~(token[j].user = u /\ token[j].status = "live")
         \/ /\ token[j].user = u /\ token[j].status = "live"
            /\ token'[j].user = u /\ token'[j].status = "cancelled"
            /\ token'[j] # Portal!NoToken
  <2> SUFFICES ASSUME NEW j \in Tokens \ {k}
               PROVE  \/ token'[j] = token[j] /\ ~(token[j].user = u /\ token[j].status = "live")
                      \/ /\ token[j].user = u /\ token[j].status = "live"
                         /\ token'[j].user = u /\ token'[j].status = "cancelled"
                         /\ token'[j] # Portal!NoToken
      OBVIOUS
  <2>1. CASE j \in Portal!Live(u)
      BY <2>1, <1>3, <1>9, LiveTokens
  <2>2. CASE j \notin Portal!Live(u)
      BY <2>2, <1>3, <1>9, LiveTokens
  <2> QED
      BY <2>1, <2>2
<1> QED
    BY <1>1, <1>4, <1>7, <1>9, <1>10

-----------------------------------------------------------------------------
(* What keeps each of the promises                                          *)

\* No step that issues no token makes the live tokens more.
LEMMA FewStay ==
  ASSUME PortalInv,
         \A k \in Tokens : token'[k].status = "live" => token'[k] = token[k],
         \A l \in Links : link'[l].status = "ARCHIVED" => link[l].status = "ARCHIVED"
  PROVE  Portal!TokensAreFew'
<1>1. \A u \in Portal!Users : Portal!Live(u)' \subseteq Portal!Live(u)
    BY DEF Portal!Live, Tokens
<1>2. \A u \in Portal!Users : \A k \in Portal!Live(u)' : token'[k] = token[k]
    BY DEF Portal!Live, Tokens
<1>3. \A u \in Portal!Users : Portal!ArchivedEverywhere(u)' => Portal!ArchivedEverywhere(u)
    BY DEF Portal!ArchivedEverywhere
<1> QED
    BY <1>1, <1>2, <1>3 DEF PortalInv, Portal!TokensAreFew

\* A token that is issued replaces those that are live.
LEMMA FewIssued ==
  ASSUME PortalInv, NEW u \in Portal!Users, Portal!Issue(u), link' = link
  PROVE  Portal!TokensAreFew'
<1>1. PICK k \in Tokens :
        /\ token[k] = Portal!NoToken
        /\ token'[k].user = u /\ token'[k].status = "live"
        /\ token'[k].late = Portal!ArchivedEverywhere(u)
        /\ \A j \in Tokens \ {k} :
             \/ token'[j] = token[j] /\ ~(token[j].user = u /\ token[j].status = "live")
             \/ /\ token[j].user = u /\ token[j].status = "live"
                /\ token'[j].user = u /\ token'[j].status = "cancelled"
    BY TokenIssued DEF PortalInv
<1>2. \A v \in Portal!Users : Portal!ArchivedEverywhere(v)' = Portal!ArchivedEverywhere(v)
    BY DEF Portal!ArchivedEverywhere
<1>3. \A v \in Portal!Users : v # u =>
        /\ Portal!Live(v)' \subseteq Portal!Live(v)
        /\ \A j \in Portal!Live(v)' : token'[j] = token[j]
    BY <1>1 DEF Portal!Live, Tokens
<1>4. \A j \in Portal!Live(u)' : j = k
    BY <1>1 DEF Portal!Live, Tokens
<1>5. /\ \A i, j \in Portal!Live(u)' : i = j
      /\ Portal!ArchivedEverywhere(u)' => \A j \in Portal!Live(u)' : token'[j].late
    BY <1>1, <1>2, <1>4
<1>6. \A v \in Portal!Users : v # u =>
        /\ \A i, j \in Portal!Live(v)' : i = j
        /\ Portal!ArchivedEverywhere(v)' => \A j \in Portal!Live(v)' : token'[j].late
    BY <1>2, <1>3 DEF PortalInv, Portal!TokensAreFew
<1> QED
    BY <1>5, <1>6 DEF Portal!TokensAreFew

\* Who is invited can still come in when no token of his dies.
LEMMA EntranceStays ==
  ASSUME PortalInv, NEW u \in Portal!Users, Entrance(u), stopped \subseteq stopped',
         \A l \in Links : link[l].status = "ARCHIVED" => link'[l].status = "ARCHIVED",
         \A k \in Tokens : token[k].user = u /\ token[k].status \in {"live", "expired"} =>
           token'[k].user = u /\ token'[k].status \in {token[k].status, "expired"},
         \A a \in Inviters : inviter[a] # "none" /\ UserOf[inviter[a]] = u =>
           inviter'[a] = inviter[a] \/ Entrance(u)'
  PROVE  Entrance(u)'
<1>1. CASE Portal!Live(u) # {}
  <2>1. PICK k \in Tokens : token[k].user = u /\ token[k].status = "live"
      BY <1>1 DEF Portal!Live, Tokens
  <2>2. token'[k].user = u /\ token'[k].status \in {"live", "expired"}
      BY <2>1
  <2>3. CASE token'[k].status = "live"
    <3>1. k \in Portal!Live(u)'
        BY <2>2, <2>3 DEF Portal!Live, Tokens
    <3> QED
        BY <3>1 DEF Entrance
  <2>4. CASE token'[k].status = "expired"
      BY <2>2, <2>4 DEF Entrance, Tokens
  <2> QED
      BY <2>2, <2>3, <2>4
<1>2. CASE u \in stopped
    BY <1>2 DEF Entrance
<1>3. CASE \E a \in Inviters : inviter[a] # "none" /\ UserOf[inviter[a]] = u
  <2>1. PICK a \in Inviters : inviter[a] # "none" /\ UserOf[inviter[a]] = u
      BY <1>3
  <2>2. CASE inviter'[a] = inviter[a]
      BY <2>1, <2>2 DEF Entrance
  <2>3. CASE Entrance(u)'
      BY <2>3
  <2> QED
      BY <2>1, <2>2, <2>3
<1>4. CASE \E k \in Tokens : token[k].user = u /\ token[k].status = "expired"
    BY <1>4 DEF Entrance, Tokens
<1>5. CASE \E m \in Links : UserOf[m] = u /\ link[m].status = "ARCHIVED"
    BY <1>5 DEF Entrance
<1> QED
    BY <1>1, <1>2, <1>3, <1>4, <1>5 DEF Entrance

\* Who is invited can still come in when what lets him in stays.
LEMMA EnterStays ==
  ASSUME PortalInv,
         \A u \in Portal!Users : Entrance(u) => Entrance(u)' \/ user'[u] # "invited",
         \A l \in Links : Expected(l)' => Expected(l) \/ Entrance(UserOf[l])'
  PROVE  Portal!InvitedCanEnter'
<1>1. \A l \in Links : UserOf[l] \in Portal!Users
    BY PortalBounds
<1>2. \A l \in Links : Expected(l) => Entrance(UserOf[l])
    BY EntranceIsMeant DEF PortalInv
<1>3. \A l \in Links : Expected(l)' => user'[UserOf[l]] = "invited"
    BY DEF Expected
<1>4. \A l \in Links : Expected(l)' => Entrance(UserOf[l])'
    BY <1>1, <1>2, <1>3
<1>5. (\A l \in Links : Expected(l) => Entrance(UserOf[l]))'
    BY <1>4
<1> QED
    BY <1>5, EntranceIsMeant, PTL

\* A link that is pending stays explained when its explanation stays.
LEMMA PendingStays ==
  ASSUME PortalInv, PortalGrows,
         \A l \in Links : Delayed(l)' => Delayed(l) \/ Explained(l)',
         \A c \in Redeemers : login[c] \in {"pending", "failed"} =>
           /\ login'[c] \in {"pending", "failed"}
           /\ Portal!UserOfEvent(c)' = Portal!UserOfEvent(c)
  PROVE  Portal!PendingIsExplained'
<1>1. \A l \in Links : Delayed(l) => Explained(l)
    BY EntranceIsMeant DEF PortalInv
<1>2. ASSUME NEW l \in Links, Explained(l) PROVE Explained(l)'
  <2>1. CASE \E c \in Redeemers : login[c] \in {"pending", "failed"} /\ Portal!UserOfEvent(c) = UserOf[l]
    <3>1. PICK c \in Redeemers : login[c] \in {"pending", "failed"} /\ Portal!UserOfEvent(c) = UserOf[l]
        BY <2>1
    <3>2. login'[c] \in {"pending", "failed"} /\ Portal!UserOfEvent(c)' = UserOf[l]
        BY <3>1
    <3> QED
        BY <3>2 DEF Explained
  <2>2. CASE UserOf[l] \in known \/ registered # KindOf[l]
      BY <2>2 DEF Explained, PortalGrows
  <2>3. CASE \E m \in Links \ {l} : UserOf[m] = UserOf[l] /\ link[m].status # "absent"
      BY <2>3 DEF Explained, PortalGrows
  <2> QED
      BY <1>2, <2>1, <2>2, <2>3 DEF Explained
<1>3. \A l \in Links : Delayed(l)' => Explained(l)'
    BY <1>1, <1>2
<1>4. (\A l \in Links : Delayed(l) => Explained(l))'
    BY <1>3
<1> QED
    BY <1>4, EntranceIsMeant, PTL

\* A link is written and the others stay.
LEMMA LinkWritten ==
  ASSUME Portal!TypeOK, NEW l \in Links, NEW row \in LinkRows, link' = [link EXCEPT ![l] = row]
  PROVE  /\ link' \in [Links -> LinkRows] /\ link'[l] = row
         /\ \A m \in Links : m # l => link'[m] = link[m]
    BY PortalTypes

\* The status of a link changes, its version rises, and the others stay.
LEMMA LinkChanged ==
  ASSUME Portal!TypeOK, NEW l \in Links,
         NEW status \in {"PENDING_INVITE", "ACTIVE", "SUSPENDED", "ARCHIVED"}, Portal!Change(l, status)
  PROVE  /\ link' \in [Links -> LinkRows]
         /\ link'[l].status = status /\ link'[l].version > link[l].version
         /\ \A m \in Links : m # l => link'[m] = link[m]
<1>1. link[l].version < MaxRenewals /\ link[l] \in LinkRows
    BY PortalTypes DEF Portal!Change
<1>2. PICK version \in 0 .. MaxRenewals : version = link[l].version + 1 /\ version > link[l].version
    BY <1>1, RenewalBounds DEF LinkRows
<1>3. link' = [link EXCEPT ![l] = [status |-> status, version |-> version]]
    BY <1>2 DEF Portal!Change
<1>4. [status |-> status, version |-> version] \in LinkRows
    BY DEF LinkRows
<1>5. link'[l] = [status |-> status, version |-> version]
    BY <1>3, <1>4, LinkWritten
<1> QED
    BY <1>2, <1>3, <1>4, <1>5, LinkWritten

\* An invitation keeps the invariant.
LEMMA InviteKeeps ==
  ASSUME PortalInv, NEW a \in Inviters, NEW l \in Links, Portal!Invite(a, l)
  PROVE  PortalInv'
<1>1. /\ inviter[a] = "none"
      /\ user' = [user EXCEPT ![UserOf[l]] = IF @ = "absent" THEN "invited" ELSE @]
      /\ inviter' = [inviter EXCEPT ![a] = l]
      /\ UNCHANGED <<registered, token, redeemer, login, seen, known, stopped>>
    BY DEF Portal!Invite
<1>2. UserOf[l] \in Portal!Users /\ l # "none"
    BY PortalBounds
<1>3. /\ user' \in [Portal!Users -> {"absent", "invited", "settled"}]
      /\ user[UserOf[l]] = "absent" => user'[UserOf[l]] = "invited"
      /\ user[UserOf[l]] # "absent" => user'[UserOf[l]] = user[UserOf[l]]
      /\ \A u \in Portal!Users : u # UserOf[l] => user'[u] = user[u]
    BY <1>1, <1>2, PortalTypes DEF PortalInv
<1>4. /\ inviter' \in [Inviters -> Links \cup {"none"}] /\ inviter'[a] = l
      /\ \A b \in Inviters : b # a => inviter'[b] = inviter[b]
    BY <1>1, PortalTypes DEF PortalInv
<1>5. /\ link' \in [Links -> LinkRows]
      /\ link[l].status \in {"absent", "PENDING_INVITE"} /\ link'[l].status = "PENDING_INVITE"
      /\ link[l].status = "absent" \/ link'[l].version > link[l].version
      /\ \A m \in Links : m # l => link'[m] = link[m]
  <2>1. CASE link[l].status = "absent" /\ link' = [link EXCEPT ![l].status = "PENDING_INVITE"]
    <3>1. link[l] \in LinkRows
        BY PortalTypes DEF PortalInv
    <3>2. /\ [link[l] EXCEPT !.status = "PENDING_INVITE"] \in LinkRows
          /\ [link[l] EXCEPT !.status = "PENDING_INVITE"].status = "PENDING_INVITE"
        BY <3>1 DEF LinkRows
    <3>3. link' = [link EXCEPT ![l] = [link[l] EXCEPT !.status = "PENDING_INVITE"]]
        BY <2>1
    <3> QED
        BY <2>1, <3>2, <3>3, LinkWritten DEF PortalInv
  <2>2. CASE link[l].status = "PENDING_INVITE" /\ Portal!Change(l, "PENDING_INVITE")
      BY <2>2, LinkChanged DEF PortalInv
  <2> QED
      BY <2>1, <2>2 DEF Portal!Invite
<1>6. Portal!TypeOK'
    BY <1>1, <1>3, <1>4, <1>5 DEF PortalInv, Portal!TypeOK, LinkRows
<1>7. PortalGrows
    BY <1>1, <1>2, <1>3, <1>5 DEF PortalGrows
<1>8. HoldersAreKnown' /\ LoginsAreKnown' /\ UsersAreLinked'
  <2>1. user'[UserOf[l]] # "absent"
      BY <1>3
  <2>2. \A b \in Inviters : inviter'[b] \in {"none", inviter[b]} \/ user'[UserOf[inviter'[b]]] # "absent"
      BY <1>4, <2>1
  <2>3. \A u \in Portal!Users : user'[u] # "absent" => user[u] # "absent" \/ Linked(u)'
      BY <1>3, <1>5 DEF Linked
  <2> QED
      BY <1>1, <1>6, <1>7, <2>2, <2>3, PortalStays
<1>9. Portal!TokensAreFew'
    BY <1>1, <1>5, FewStay
<1>10. Portal!InvitedCanEnter'
  <2>1. \A u \in Portal!Users : Entrance(u) => Entrance(u)'
      BY <1>1, <1>4, <1>5, EntranceStays
  <2>2. Entrance(UserOf[l])'
      BY <1>2, <1>4 DEF Entrance
  <2>3. \A m \in Links : Expected(m)' => Expected(m) \/ Entrance(UserOf[m])'
    <3> SUFFICES ASSUME NEW m \in Links, Expected(m)' PROVE Expected(m) \/ Entrance(UserOf[m])'
        OBVIOUS
    <3>1. CASE UserOf[m] = UserOf[l]
        BY <2>2, <3>1
    <3>2. CASE UserOf[m] # UserOf[l]
        BY <3>2, <1>3, <1>5, PortalBounds DEF Expected
    <3> QED
        BY <3>1, <3>2
  <2> QED
      BY <2>1, <2>3, EnterStays
<1>11. Portal!PendingIsExplained'
  <2>1. \A c \in Redeemers : Portal!UserOfEvent(c)' = Portal!UserOfEvent(c)
      BY <1>1 DEF Portal!UserOfEvent
  <2>2. \A m \in Links : Delayed(m)' => Delayed(m) \/ Explained(m)'
    <3> SUFFICES ASSUME NEW m \in Links, Delayed(m)' PROVE Delayed(m) \/ Explained(m)'
        OBVIOUS
    <3>1. user[UserOf[m]] = "settled"
        BY <1>3, PortalBounds DEF Delayed
    <3>2. CASE m # l \/ link[l].status = "PENDING_INVITE"
        BY <1>5, <3>1, <3>2 DEF Delayed
    <3>3. CASE m = l /\ link[l].status = "absent"
      <4>1. UserOf[l] \in known \/ Linked(UserOf[l])
          BY <1>2, <3>1, <3>3 DEF PortalInv, UsersAreLinked
      <4>2. ASSUME Linked(UserOf[l]) PROVE Explained(l)'
        <5>1. PICK n \in Links : UserOf[n] = UserOf[l] /\ link[n].status # "absent"
            BY <4>2 DEF Linked
        <5>2. n \in Links \ {l} /\ link'[n] = link[n]
            BY <3>3, <5>1, <1>5
        <5> QED
            BY <5>1, <5>2 DEF Explained
      <4>3. ASSUME UserOf[l] \in known PROVE Explained(l)'
          BY <4>3, <1>1 DEF Explained
      <4> QED
          BY <3>3, <4>1, <4>2, <4>3
    <3> QED
        BY <1>5, <3>2, <3>3
  <2> QED
      BY <1>1, <1>7, <2>1, <2>2, PendingStays
<1> QED
    BY <1>6, <1>8, <1>9, <1>10, <1>11 DEF PortalInv

\* A link that is not absent is changed; an archived one loses its user the tokens.
LEMMA ChangeKeeps ==
  ASSUME PortalInv, NEW l \in Links, Portal!Suspend(l) \/ Portal!Reactivate(l) \/ Portal!Archive(l)
  PROVE  PortalInv'
<1>1. PICK status \in {"ACTIVE", "SUSPENDED", "ARCHIVED"} :
        /\ Portal!Change(l, status)
        /\ link[l].status \in {"PENDING_INVITE", "ACTIVE", "SUSPENDED"}
        /\ status # "ARCHIVED" => token' = token
        /\ status = "ARCHIVED" => token' = Portal!Cancelled(Portal!Live(UserOf[l]))
        /\ UNCHANGED <<registered, user, inviter, redeemer, login, seen, known, stopped>>
    BY DEF Portal!Suspend, Portal!Reactivate, Portal!Archive
<1>2. UserOf[l] \in Portal!Users
    BY PortalBounds
<1>3. /\ link' \in [Links -> LinkRows]
      /\ link'[l].status = status /\ link'[l].version > link[l].version
      /\ \A m \in Links : m # l => link'[m] = link[m]
    BY <1>1, LinkChanged DEF PortalInv
<1>4. /\ token' \in [Tokens -> {Portal!NoToken} \cup TokenRows]
      /\ \A k \in Tokens :
           \/ token'[k] = token[k]
           \/ /\ status = "ARCHIVED" /\ token[k].user = UserOf[l] /\ token[k] # Portal!NoToken
              /\ token'[k].user = token[k].user /\ token'[k] # Portal!NoToken
              /\ token'[k].status = "cancelled"
  <2>1. CASE status # "ARCHIVED"
      BY <2>1, <1>1, PortalTypes DEF PortalInv
  <2>2. CASE status = "ARCHIVED"
    <3>1. PICK ks \in SUBSET Tokens : /\ ks = Portal!Live(UserOf[l])
                                      /\ \A k \in ks : token[k] # Portal!NoToken /\ token[k].user = UserOf[l]
        BY <1>2, LiveTokens DEF PortalInv
    <3>2. PICK others : others = Portal!Cancelled(ks)
        OBVIOUS
    <3>3. /\ others \in [Tokens -> {Portal!NoToken} \cup TokenRows]
          /\ \A k \in Tokens \ ks : others[k] = token[k]
          /\ \A k \in ks : /\ others[k] # Portal!NoToken /\ others[k].user = token[k].user
                           /\ others[k].status = "cancelled"
        BY <3>1, <3>2, CancelledTokens DEF PortalInv
    <3>4. token' = others
        BY <1>1, <2>2, <3>1, <3>2
    <3> QED
        BY <2>2, <3>1, <3>3, <3>4
  <2> QED
      BY <2>1, <2>2
<1>5. Portal!TypeOK'
    BY <1>1, <1>3, <1>4 DEF PortalInv, Portal!TypeOK, LinkRows, TokenRows, Tokens
<1>6. PortalGrows
    BY <1>1, <1>3, <1>4 DEF PortalGrows
<1>7. HoldersAreKnown' /\ LoginsAreKnown' /\ UsersAreLinked'
    BY <1>1, <1>4, <1>5, <1>6, PortalStays
<1>8. Portal!TokensAreFew'
  <2>1. CASE status # "ARCHIVED"
      BY <2>1, <1>1, <1>3, FewStay
  <2>2. CASE status = "ARCHIVED"
    <3>1. Portal!Live(UserOf[l])' = {}
      <4>1. \A k \in Tokens : token'[k].user = UserOf[l] => token'[k].status # "live"
        <5>1. token' = Portal!Cancelled(Portal!Live(UserOf[l]))
            BY <1>1, <2>2
        <5>2. \A k \in Portal!Live(UserOf[l]) : token'[k].status = "cancelled"
            BY <5>1, <1>2, LiveTokens, CancelledTokens DEF PortalInv
        <5>3. \A k \in Tokens \ Portal!Live(UserOf[l]) : token'[k] = token[k]
            BY <5>1, <1>2, LiveTokens, CancelledTokens DEF PortalInv
        <5> QED
            BY <5>2, <5>3, <1>2, LiveTokens DEF PortalInv
      <4> QED
          BY <4>1 DEF Portal!Live, Tokens
    <3>2. \A u \in Portal!Users : u # UserOf[l] =>
            /\ Portal!Live(u)' \subseteq Portal!Live(u)
            /\ \A k \in Portal!Live(u)' : token'[k] = token[k]
            /\ Portal!ArchivedEverywhere(u)' => Portal!ArchivedEverywhere(u)
      <4> SUFFICES ASSUME NEW u \in Portal!Users, u # UserOf[l]
                   PROVE  /\ Portal!Live(u)' \subseteq Portal!Live(u)
                          /\ \A k \in Portal!Live(u)' : token'[k] = token[k]
                          /\ Portal!ArchivedEverywhere(u)' => Portal!ArchivedEverywhere(u)
          OBVIOUS
      <4>1. \A k \in Tokens : token'[k].user = u => token'[k] = token[k]
          BY <1>4
      <4>2. Portal!ArchivedEverywhere(u)' => Portal!ArchivedEverywhere(u)
          BY <1>3 DEF Portal!ArchivedEverywhere
      <4> QED
          BY <4>1, <4>2 DEF Portal!Live, Tokens
    <3> QED
        BY <3>1, <3>2 DEF PortalInv, Portal!TokensAreFew
  <2> QED
      BY <2>1, <2>2
<1>9. Portal!InvitedCanEnter'
  <2>1. ASSUME NEW u \in Portal!Users, Entrance(u) PROVE Entrance(u)'
    <3>1. CASE u = UserOf[l] /\ status = "ARCHIVED"
        BY <3>1, <1>3 DEF Entrance
    <3>2. CASE ~(u = UserOf[l] /\ status = "ARCHIVED")
      <4>1. \A k \in Tokens : token[k].user = u => token'[k] = token[k]
          BY <3>2, <1>4
      <4> QED
          BY <2>1, <4>1, <1>1, <1>3, EntranceStays
    <3> QED
        BY <3>1, <3>2
  <2>2. \A m \in Links : Expected(m)' => Expected(m)
      BY <1>1, <1>3 DEF Expected
  <2> QED
      BY <2>1, <2>2, EnterStays
<1>10. Portal!PendingIsExplained'
  <2>1. \A c \in Redeemers : login[c] \in {"pending", "failed"} =>
          Portal!UserOfEvent(c)' = Portal!UserOfEvent(c)
    <3> SUFFICES ASSUME NEW c \in Redeemers, login[c] \in {"pending", "failed"}
                 PROVE  Portal!UserOfEvent(c)' = Portal!UserOfEvent(c)
        OBVIOUS
    <3>1. redeemer[c].token \in Tokens /\ token[redeemer[c].token] # Portal!NoToken
        BY DEF PortalInv, HoldersAreKnown, LoginsAreKnown
    <3> QED
        BY <3>1, <1>1, <1>6 DEF Portal!UserOfEvent, PortalGrows
  <2>2. \A m \in Links : Delayed(m)' => Delayed(m)
      BY <1>1, <1>3 DEF Delayed
  <2> QED
      BY <1>1, <1>6, <2>1, <2>2, PendingStays
<1> QED
    BY <1>5, <1>7, <1>8, <1>9, <1>10 DEF PortalInv

\* The event of a redemption stays that of its user.
LEMMA EventStays ==
  ASSUME PortalInv, PortalGrows, UNCHANGED redeemer, NEW c \in Redeemers, login[c] # "none"
  PROVE  Portal!UserOfEvent(c)' = Portal!UserOfEvent(c)
<1>1. redeemer[c].token \in Tokens /\ token[redeemer[c].token] # Portal!NoToken
    BY DEF PortalInv, HoldersAreKnown, LoginsAreKnown
<1> QED
    BY <1>1 DEF Portal!UserOfEvent, PortalGrows

\* A token is issued to a user who exists.
LEMMA IssueKeeps ==
  ASSUME PortalInv, NEW u \in Portal!Users, user[u] # "absent", Portal!Issue(u),
         UNCHANGED <<registered, link, user, redeemer, login, seen, known, stopped>>,
         inviter' \in [Inviters -> Links \cup {"none"}],
         \A a \in Inviters : inviter'[a] = inviter[a]
           \/ (inviter'[a] = "none" /\ inviter[a] # "none" /\ UserOf[inviter[a]] = u)
  PROVE  PortalInv'
<1>1. PICK k \in Tokens :
        /\ token[k] = Portal!NoToken
        /\ token'[k].user = u /\ token'[k].status = "live"
        /\ token'[k] # Portal!NoToken
        /\ \A j \in Tokens \ {k} :
             \/ token'[j] = token[j] /\ ~(token[j].user = u /\ token[j].status = "live")
             \/ /\ token[j].user = u /\ token[j].status = "live"
                /\ token'[j].user = u /\ token'[j].status = "cancelled"
                /\ token'[j] # Portal!NoToken
    BY TokenIssued DEF PortalInv
<1>2. token' \in [Tokens -> {Portal!NoToken} \cup TokenRows]
    BY TokenIssued DEF PortalInv
<1>3. Portal!TypeOK'
    BY <1>2 DEF PortalInv, Portal!TypeOK, TokenRows, Tokens
<1>4. PortalGrows
    BY <1>1 DEF PortalGrows
<1>5. HoldersAreKnown' /\ LoginsAreKnown' /\ UsersAreLinked'
    BY <1>1, <1>3, <1>4, PortalStays
<1>6. Portal!TokensAreFew'
    BY FewIssued
<1>7. Portal!InvitedCanEnter'
  <2>1. ASSUME NEW v \in Portal!Users, Entrance(v) PROVE Entrance(v)'
    <3>1. CASE v = u
      <4>1. k \in Portal!Live(v)'
          BY <3>1, <1>1 DEF Portal!Live, Tokens
      <4> QED
          BY <4>1 DEF Entrance
    <3>2. CASE v # u
      <4>1. token[k].user # v
          BY <1>1, TokenOfUser DEF PortalInv
      <4>2. \A j \in Tokens : token[j].user = v => token'[j] = token[j]
          BY <3>2, <4>1, <1>1
      <4> QED
          BY <2>1, <3>2, <4>2, EntranceStays
    <3> QED
        BY <3>1, <3>2
  <2>2. \A m \in Links : Expected(m)' => Expected(m)
      BY DEF Expected
  <2> QED
      BY <2>1, <2>2, EnterStays
<1>8. Portal!PendingIsExplained'
  <2>1. \A m \in Links : Delayed(m)' => Delayed(m)
      BY DEF Delayed
  <2> QED
      BY <1>4, <2>1, EventStays, PendingStays
<1> QED
    BY <1>3, <1>5, <1>6, <1>7, <1>8 DEF PortalInv

\* A token that expires keeps the invariant.
LEMMA TokenExpires ==
  ASSUME PortalInv, NEW k \in Tokens, Portal!Expire(k)
  PROVE  PortalInv'
<1>1. /\ token[k].status = "live" /\ token' = [token EXCEPT ![k].status = "expired"]
      /\ UNCHANGED <<registered, link, user, inviter, redeemer, login, seen, known, stopped>>
    BY DEF Portal!Expire
<1>2. token[k] # Portal!NoToken /\ token[k] \in TokenRows
    BY <1>1, TokenOfUser DEF PortalInv
<1>3. PICK row : row = [token[k] EXCEPT !.status = "expired"]
    OBVIOUS
<1>4. row \in TokenRows /\ row.user = token[k].user /\ row.status = "expired" /\ row # Portal!NoToken
    BY <1>2, <1>3 DEF TokenRows, Portal!NoToken
<1>5. /\ token' \in [Tokens -> {Portal!NoToken} \cup TokenRows] /\ token'[k] = row
      /\ \A j \in Tokens : j # k => token'[j] = token[j]
    BY <1>1, <1>3, <1>4, PortalTypes DEF PortalInv
<1>6. Portal!TypeOK'
    BY <1>1, <1>5 DEF PortalInv, Portal!TypeOK, TokenRows, Tokens
<1>7. PortalGrows
    BY <1>1, <1>4, <1>5 DEF PortalGrows
<1>8. HoldersAreKnown' /\ LoginsAreKnown' /\ UsersAreLinked'
    BY <1>1, <1>2, <1>5, <1>6, <1>7, PortalStays
<1>9. Portal!TokensAreFew'
    BY <1>1, <1>4, <1>5, FewStay
<1>10. Portal!InvitedCanEnter'
  <2>1. \A u \in Portal!Users : Entrance(u) => Entrance(u)'
      BY <1>1, <1>4, <1>5, EntranceStays
  <2>2. \A m \in Links : Expected(m)' => Expected(m)
      BY <1>1 DEF Expected
  <2> QED
      BY <2>1, <2>2, EnterStays
<1>11. Portal!PendingIsExplained'
  <2>1. \A m \in Links : Delayed(m)' => Delayed(m)
      BY <1>1 DEF Delayed
  <2> QED
      BY <1>1, <1>7, <2>1, EventStays, PendingStays
<1> QED
    BY <1>6, <1>8, <1>9, <1>10, <1>11 DEF PortalInv

\* The second half of an invitation keeps the invariant, and so does its failure.
LEMMA InvitersKeep ==
  ASSUME PortalInv, NEW a \in Inviters, Portal!IssueInvited(a) \/ Portal!InviteDies(a)
  PROVE  PortalInv'
<1>1. inviter[a] # "none" /\ inviter' = [inviter EXCEPT ![a] = "none"]
    BY DEF Portal!IssueInvited, Portal!InviteDies
<1>2. PICK u \in Portal!Users : u = UserOf[inviter[a]]
    BY <1>1, PortalTypes, PortalBounds DEF PortalInv
<1>3. user[u] # "absent"
    BY <1>1, <1>2 DEF PortalInv, HoldersAreKnown
<1>4. /\ inviter' \in [Inviters -> Links \cup {"none"}]
      /\ inviter'[a] = "none" /\ \A b \in Inviters : b # a => inviter'[b] = inviter[b]
    BY <1>1, PortalTypes DEF PortalInv
<1>5. CASE Portal!IssueInvited(a)
  <2>1. /\ Portal!Issue(u)
        /\ UNCHANGED <<registered, link, user, redeemer, login, seen, known, stopped>>
      BY <1>2, <1>5 DEF Portal!IssueInvited
  <2> QED
      BY <2>1, <1>1, <1>2, <1>3, <1>4, IssueKeeps
<1>6. CASE Portal!InviteDies(a)
  <2>1. /\ stopped' = stopped \cup {u}
        /\ UNCHANGED <<registered, link, user, token, redeemer, login, seen, known>>
      BY <1>2, <1>6 DEF Portal!InviteDies
  <2>2. Portal!TypeOK'
      BY <2>1, <1>2, <1>4 DEF PortalInv, Portal!TypeOK
  <2>3. PortalGrows
      BY <2>1 DEF PortalGrows
  <2>4. HoldersAreKnown' /\ LoginsAreKnown' /\ UsersAreLinked'
      BY <2>1, <2>2, <2>3, <1>4, PortalStays
  <2>5. Portal!TokensAreFew'
      BY <2>1, FewStay
  <2>6. Portal!InvitedCanEnter'
    <3>1. Entrance(u)'
        BY <2>1 DEF Entrance
    <3>2. \A v \in Portal!Users : Entrance(v) => Entrance(v)'
        BY <3>1, <2>1, <1>2, <1>4, EntranceStays
    <3>3. \A m \in Links : Expected(m)' => Expected(m)
        BY <2>1 DEF Expected
    <3> QED
        BY <3>2, <3>3, EnterStays
  <2>7. Portal!PendingIsExplained'
    <3>1. \A m \in Links : Delayed(m)' => Delayed(m)
        BY <2>1 DEF Delayed
    <3> QED
        BY <2>1, <2>3, <3>1, EventStays, PendingStays
  <2> QED
      BY <2>2, <2>4, <2>5, <2>6, <2>7 DEF PortalInv
<1> QED
    BY <1>5, <1>6

\* A redemption reads its token, or is given up: nothing else is written.
LEMMA RedeemersRead ==
  ASSUME PortalInv, NEW c \in Redeemers,
         (\E k \in Tokens : Portal!ConfirmRead(c, k)) \/ Portal!ConfirmFails(c)
  PROVE  PortalInv'
<1>1. UNCHANGED <<registered, link, user, token, inviter, login, seen, known, stopped>>
    BY DEF Portal!ConfirmRead, Portal!ConfirmFails
<1>2. redeemer[c].at # "done"
    BY DEF Portal!ConfirmRead, Portal!ConfirmFails, Portal!Unused
<1>3. \E row \in [at : {"idle", "confirm"}, token : 0 .. MaxTokens, first : BOOLEAN] :
        /\ redeemer' = [redeemer EXCEPT ![c] = row]
        /\ row.at # "idle" => row.token \in Tokens /\ token[row.token] # Portal!NoToken
        /\ row.at = "confirm" /\ ~row.first => user[token[row.token].user] = "settled"
  <2>1. ASSUME NEW k \in Tokens, Portal!ConfirmRead(c, k)
        PROVE  \E row \in [at : {"idle", "confirm"}, token : 0 .. MaxTokens, first : BOOLEAN] :
                 /\ redeemer' = [redeemer EXCEPT ![c] = row]
                 /\ row.at # "idle" => row.token \in Tokens /\ token[row.token] # Portal!NoToken
                 /\ row.at = "confirm" /\ ~row.first => user[token[row.token].user] = "settled"
    <3>1. PICK first \in BOOLEAN : first = (user[token[k].user] = "invited")
        OBVIOUS
    <3>2. redeemer' = [redeemer EXCEPT ![c] = [at |-> "confirm", token |-> k, first |-> first]]
        BY <2>1, <3>1 DEF Portal!ConfirmRead
    <3>3. token[k] # Portal!NoToken /\ token[k].user \in Portal!Users
        BY <2>1, TokenOfUser DEF PortalInv, Portal!ConfirmRead
    <3>4. user[token[k].user] \in {"invited", "settled"}
        BY <3>3, PortalTypes DEF PortalInv, HoldersAreKnown
    <3>5. k \in 0 .. MaxTokens
        BY RenewalBounds DEF Tokens
    <3> DEFINE row == [at |-> "confirm", token |-> k, first |-> first]
    <3>6. /\ row \in [at : {"idle", "confirm"}, token : 0 .. MaxTokens, first : BOOLEAN]
          /\ row.at = "confirm" /\ row.token = k /\ row.first = first
        BY <3>5
    <3> HIDE DEF row
    <3>7. redeemer' = [redeemer EXCEPT ![c] = row]
        BY <3>2 DEF row
    <3>8. ~first => user[token[k].user] = "settled"
        BY <3>1, <3>4
    <3> QED
        BY <3>3, <3>6, <3>7, <3>8
  <2>2. CASE Portal!ConfirmFails(c)
    <3>1. redeemer' = [redeemer EXCEPT ![c] = Portal!Unused]
        BY <2>2 DEF Portal!ConfirmFails
    <3>2. /\ Portal!Unused \in [at : {"idle", "confirm"}, token : 0 .. MaxTokens, first : BOOLEAN]
          /\ Portal!Unused.at = "idle"
        BY RenewalBounds DEF Portal!Unused
    <3> QED
        BY <3>1, <3>2
  <2> QED
      BY <2>1, <2>2
<1>4. PICK row \in [at : {"idle", "confirm"}, token : 0 .. MaxTokens, first : BOOLEAN] :
        /\ redeemer' = [redeemer EXCEPT ![c] = row]
        /\ row.at # "idle" => row.token \in Tokens /\ token[row.token] # Portal!NoToken
        /\ row.at = "confirm" /\ ~row.first => user[token[row.token].user] = "settled"
    BY <1>3
<1>5. /\ redeemer' \in [Redeemers -> [at : {"idle", "confirm", "done"}, token : 0 .. MaxTokens, first : BOOLEAN]]
      /\ redeemer'[c] = row /\ \A d \in Redeemers : d # c => redeemer'[d] = redeemer[d]
    BY <1>4, PortalTypes DEF PortalInv
<1>6. Portal!TypeOK'
    BY <1>1, <1>5 DEF PortalInv, Portal!TypeOK
<1>7. HoldersAreKnown'
    BY <1>1, <1>4, <1>5 DEF PortalInv, HoldersAreKnown, Tokens
<1>8. login[c] = "none" /\ seen[c] = Portal!NoLink
    BY <1>2 DEF PortalInv, LoginsAreKnown
<1>9. \A d \in Redeemers : d # c => Portal!UserOfEvent(d)' = Portal!UserOfEvent(d)
    BY <1>1, <1>5 DEF Portal!UserOfEvent
<1>10. LoginsAreKnown'
    BY <1>1, <1>5, <1>8, <1>9 DEF PortalInv, LoginsAreKnown
<1>11. UsersAreLinked'
    BY <1>1 DEF PortalInv, UsersAreLinked, Linked
<1>12. Portal!TokensAreFew'
    BY <1>1, FewStay
<1>13. PortalGrows
    BY <1>1 DEF PortalGrows
<1>14. Portal!InvitedCanEnter'
  <2>1. \A u \in Portal!Users : Entrance(u) => Entrance(u)'
      BY <1>1, EntranceStays
  <2>2. \A m \in Links : Expected(m)' => Expected(m)
      BY <1>1 DEF Expected
  <2> QED
      BY <2>1, <2>2, EnterStays
<1>15. Portal!PendingIsExplained'
  <2>1. \A m \in Links : Delayed(m)' => Delayed(m)
      BY <1>1 DEF Delayed
  <2>2. \A d \in Redeemers : login[d] \in {"pending", "failed"} =>
          /\ login'[d] \in {"pending", "failed"}
          /\ Portal!UserOfEvent(d)' = Portal!UserOfEvent(d)
      BY <1>1, <1>8, <1>9
  <2> QED
      BY <1>13, <2>1, <2>2, PendingStays
<1> QED
    BY <1>6, <1>7, <1>10, <1>11, <1>12, <1>14, <1>15 DEF PortalInv

\* The token is consumed and the password set: the user has settled.
LEMMA ConfirmKeeps ==
  ASSUME PortalInv, NEW c \in Redeemers, Portal!Confirm(c)
  PROVE  PortalInv'
<1>1. PICK k \in Tokens : k = redeemer[c].token /\ token[k] # Portal!NoToken
    BY DEF PortalInv, HoldersAreKnown, Portal!Confirm
<1>2. PICK u \in Portal!Users : u = token[k].user
    BY <1>1, TokenOfUser DEF PortalInv
<1>3. PICK first \in BOOLEAN : first = redeemer[c].first
    BY PortalTypes DEF PortalInv
<1>4. /\ redeemer[c].at = "confirm"
      /\ token' = [Portal!Cancelled(Portal!Live(u)) EXCEPT ![k].status = "consumed"]
      /\ user' = [user EXCEPT ![u] = "settled"]
      /\ login' = [login EXCEPT ![c] = IF first THEN "pending" ELSE "none"]
      /\ redeemer' = [redeemer EXCEPT ![c].at = "done"]
      /\ UNCHANGED <<registered, link, inviter, seen, known, stopped>>
    BY <1>1, <1>2, <1>3 DEF Portal!Confirm
<1>5. user[u] # "absent" /\ (~first => user[u] = "settled")
    BY <1>1, <1>2, <1>3, <1>4 DEF PortalInv, HoldersAreKnown
<1>6. PICK others : others = Portal!Cancelled(Portal!Live(u))
    OBVIOUS
<1>7. /\ others \in [Tokens -> {Portal!NoToken} \cup TokenRows]
      /\ \A j \in Tokens \ Portal!Live(u) : others[j] = token[j]
      /\ \A j \in Portal!Live(u) : /\ others[j] # Portal!NoToken /\ others[j].user = u
                                   /\ others[j].status = "cancelled"
    BY <1>6, CancelledTokens, LiveTokens DEF PortalInv
<1>8. PICK row : row = [others[k] EXCEPT !.status = "consumed"]
    OBVIOUS
<1>9. others[k] \in TokenRows /\ others[k].user = u
    BY <1>1, <1>2, <1>7
<1>10. row \in TokenRows /\ row.user = u /\ row.status = "consumed" /\ row # Portal!NoToken
    BY <1>8, <1>9 DEF TokenRows, Portal!NoToken
<1>11. token' = [others EXCEPT ![k] = row]
    BY <1>4, <1>6, <1>8
<1>12. /\ token' \in [Tokens -> {Portal!NoToken} \cup TokenRows]
       /\ token'[k] = row /\ \A j \in Tokens : j # k => token'[j] = others[j]
    BY <1>7, <1>10, <1>11
<1>13. \A j \in Tokens :
         \/ token'[j] = token[j] /\ ~(token[j].user = u /\ token[j].status = "live")
         \/ /\ token[j].user = u /\ token'[j].user = u /\ token'[j] # Portal!NoToken
            /\ token'[j].status \in {"cancelled", "consumed"}
  <2> SUFFICES ASSUME NEW j \in Tokens
               PROVE  \/ token'[j] = token[j] /\ ~(token[j].user = u /\ token[j].status = "live")
                      \/ /\ token[j].user = u /\ token'[j].user = u /\ token'[j] # Portal!NoToken
                         /\ token'[j].status \in {"cancelled", "consumed"}
      OBVIOUS
  <2>1. CASE j = k
      BY <2>1, <1>2, <1>10, <1>12
  <2>2. CASE j # k /\ j \in Portal!Live(u)
      BY <2>2, <1>7, <1>12, LiveTokens DEF PortalInv
  <2>3. CASE j # k /\ j \notin Portal!Live(u)
      BY <2>3, <1>7, <1>12, LiveTokens DEF PortalInv
  <2> QED
      BY <2>1, <2>2, <2>3
<1>14. /\ user' \in [Portal!Users -> {"absent", "invited", "settled"}]
       /\ user'[u] = "settled" /\ \A v \in Portal!Users : v # u => user'[v] = user[v]
    BY <1>4, PortalTypes DEF PortalInv
<1>15. /\ login' \in [Redeemers -> {"none", "pending", "delivered", "failed"}]
       /\ first => login'[c] = "pending"
       /\ \A d \in Redeemers : d # c => login'[d] = login[d]
    BY <1>4, PortalTypes DEF PortalInv
<1>16. PICK entry : entry = [redeemer[c] EXCEPT !.at = "done"]
    OBVIOUS
<1>17. /\ entry \in [at : {"idle", "confirm", "done"}, token : 0 .. MaxTokens, first : BOOLEAN]
       /\ entry.at = "done" /\ entry.token = k
    BY <1>1, <1>16, PortalTypes DEF PortalInv
<1>18. /\ redeemer' \in [Redeemers -> [at : {"idle", "confirm", "done"}, token : 0 .. MaxTokens, first : BOOLEAN]]
       /\ redeemer'[c] = entry /\ \A d \in Redeemers : d # c => redeemer'[d] = redeemer[d]
    BY <1>4, <1>16, <1>17, PortalTypes DEF PortalInv
<1>19. Portal!TypeOK'
    BY <1>4, <1>12, <1>14, <1>15, <1>18 DEF PortalInv, Portal!TypeOK, TokenRows, Tokens
<1>20. PortalGrows
    BY <1>4, <1>13, <1>14 DEF PortalGrows
<1>21. \A j \in Tokens : token'[j] # Portal!NoToken => token[j] # Portal!NoToken /\ token'[j].user = token[j].user
    BY <1>2, <1>13, TokenOfUser DEF PortalInv
<1>22. HoldersAreKnown'
  <2>1. \A a \in Inviters : inviter'[a] # "none" => user'[UserOf[inviter'[a]]] # "absent"
    <3>1. \A a \in Inviters : inviter[a] # "none" => UserOf[inviter[a]] \in Portal!Users
        BY PortalTypes, PortalBounds DEF PortalInv
    <3> QED
        BY <3>1, <1>4, <1>14 DEF PortalInv, HoldersAreKnown
  <2>2. \A j \in Tokens : token'[j] # Portal!NoToken => user'[token'[j].user] # "absent"
    <3>1. \A j \in Tokens : token[j] # Portal!NoToken => token[j].user \in Portal!Users
        BY TokenOfUser DEF PortalInv
    <3> QED
        BY <3>1, <1>14, <1>21 DEF PortalInv, HoldersAreKnown
  <2>3. \A d \in Redeemers : redeemer'[d].at # "idle" =>
          redeemer'[d].token \in Tokens /\ token'[redeemer'[d].token] # Portal!NoToken
    <3> SUFFICES ASSUME NEW d \in Redeemers, redeemer'[d].at # "idle"
                 PROVE  redeemer'[d].token \in Tokens /\ token'[redeemer'[d].token] # Portal!NoToken
        OBVIOUS
    <3>1. redeemer'[d].token \in Tokens /\ token[redeemer'[d].token] # Portal!NoToken
        BY <1>1, <1>17, <1>18 DEF PortalInv, HoldersAreKnown
    <3> QED
        BY <3>1, <1>20 DEF PortalGrows
  <2>4. \A d \in Redeemers : redeemer'[d].at = "confirm" /\ ~redeemer'[d].first =>
          user'[token'[redeemer'[d].token].user] = "settled"
    <3> SUFFICES ASSUME NEW d \in Redeemers, redeemer'[d].at = "confirm", ~redeemer'[d].first
                 PROVE  user'[token'[redeemer'[d].token].user] = "settled"
        OBVIOUS
    <3>1. d # c /\ redeemer'[d] = redeemer[d]
        BY <1>17, <1>18
    <3>2. PICK j \in Tokens : j = redeemer[d].token /\ token[j] # Portal!NoToken
        BY <3>1 DEF PortalInv, HoldersAreKnown
    <3>3. user[token[j].user] = "settled" /\ token[j].user \in Portal!Users
        BY <3>1, <3>2, TokenOfUser DEF PortalInv, HoldersAreKnown
    <3> QED
        BY <3>1, <3>2, <3>3, <1>20 DEF PortalGrows
  <2> QED
      BY <2>1, <2>2, <2>3, <2>4 DEF HoldersAreKnown, Tokens
<1>23. login[c] = "none" /\ seen[c] = Portal!NoLink
    BY <1>4 DEF PortalInv, LoginsAreKnown
<1>24. \A d \in Redeemers : login[d] # "none" => d # c /\ Portal!UserOfEvent(d)' = Portal!UserOfEvent(d)
  <2> SUFFICES ASSUME NEW d \in Redeemers, login[d] # "none"
               PROVE  d # c /\ Portal!UserOfEvent(d)' = Portal!UserOfEvent(d)
      OBVIOUS
  <2>1. d # c /\ redeemer'[d] = redeemer[d]
      BY <1>18, <1>23
  <2>2. redeemer[d].token \in Tokens /\ token[redeemer[d].token] # Portal!NoToken
      BY DEF PortalInv, HoldersAreKnown, LoginsAreKnown
  <2> QED
      BY <2>1, <2>2, <1>20 DEF Portal!UserOfEvent, PortalGrows
<1>25. LoginsAreKnown'
  <2>1. \A d \in Redeemers : redeemer'[d].at # "done" => login'[d] = "none"
      BY <1>15, <1>17, <1>18 DEF PortalInv, LoginsAreKnown
  <2>2. \A d \in Redeemers : seen[d] # Portal!NoLink =>
          d # c /\ login[d] = "pending" /\ Portal!UserOfEvent(d)' = Portal!UserOfEvent(d)
      BY <1>23, <1>24 DEF PortalInv, LoginsAreKnown
  <2> QED
      BY <2>1, <2>2, <1>4, <1>15 DEF PortalInv, LoginsAreKnown
<1>26. UsersAreLinked'
    BY <1>4, <1>5, <1>14 DEF PortalInv, UsersAreLinked, Linked
<1>27. Portal!TokensAreFew'
    BY <1>4, <1>13, FewStay
<1>28. Portal!InvitedCanEnter'
  <2>1. ASSUME NEW v \in Portal!Users, Entrance(v) PROVE Entrance(v)' \/ user'[v] # "invited"
    <3>1. CASE v = u
        BY <3>1, <1>14
    <3>2. CASE v # u
      <4>1. \A j \in Tokens : token[j].user = v => token'[j] = token[j]
          BY <3>2, <1>13
      <4> QED
          BY <2>1, <4>1, <1>4, EntranceStays
    <3> QED
        BY <3>1, <3>2
  <2>2. \A m \in Links : Expected(m)' => Expected(m)
      BY <1>4, <1>14, PortalBounds DEF Expected
  <2> QED
      BY <2>1, <2>2, EnterStays
<1>29. Portal!PendingIsExplained'
  <2>1. ASSUME NEW m \in Links, Delayed(m)' PROVE Delayed(m) \/ Explained(m)'
    <3>1. CASE UserOf[m] = u /\ first
      <4>1. login'[c] = "pending" /\ Portal!UserOfEvent(c)' = UserOf[m]
          BY <3>1, <1>10, <1>12, <1>15, <1>17, <1>18 DEF Portal!UserOfEvent
      <4> QED
          BY <4>1 DEF Explained
    <3>2. CASE UserOf[m] = u /\ ~first
        BY <2>1, <3>2, <1>4, <1>5 DEF Delayed
    <3>3. CASE UserOf[m] # u
        BY <2>1, <3>3, <1>4, <1>14, PortalBounds DEF Delayed
    <3> QED
        BY <3>1, <3>2, <3>3
  <2>2. \A d \in Redeemers : login[d] \in {"pending", "failed"} =>
          /\ login'[d] \in {"pending", "failed"}
          /\ Portal!UserOfEvent(d)' = Portal!UserOfEvent(d)
      BY <1>15, <1>24
  <2> QED
      BY <1>20, <2>1, <2>2, PendingStays
<1> QED
    BY <1>19, <1>22, <1>25, <1>26, <1>27, <1>28, <1>29 DEF PortalInv

\* The event of a first login is taken further; its handler may activate the link it has seen.
LEMMA LoginMoves ==
  ASSUME PortalInv, NEW c \in Redeemers,
         UNCHANGED <<registered, user, token, inviter, redeemer, known, stopped>>,
         login[c] # "none",
         NEW state \in {"pending", "delivered", "failed"}, login' = [login EXCEPT ![c] = state],
         NEW row \in [link : Links \cup {"none"}, version : 0 .. MaxRenewals],
         seen' = [seen EXCEPT ![c] = row],
         row # Portal!NoLink =>
           /\ state = "pending" /\ link' = link /\ row.link \in Links
           /\ UserOf[row.link] = Portal!UserOfEvent(c)
           /\ link[row.link].status = "PENDING_INVITE" /\ row.version = link[row.link].version,
         link' \in [Links -> LinkRows],
         \A l \in Links : \/ link'[l] = link[l]
                          \/ /\ link'[l].status = "ACTIVE" /\ link'[l].version > link[l].version
                             /\ link[l].status = "PENDING_INVITE",
         state = "delivered" => \A l \in Links : Delayed(l)' /\ Portal!UserOfEvent(c) = UserOf[l] => Explained(l)'
  PROVE  PortalInv'
<1>1. /\ login' \in [Redeemers -> {"none", "pending", "delivered", "failed"}]
      /\ login'[c] = state /\ \A d \in Redeemers : d # c => login'[d] = login[d]
    BY PortalTypes DEF PortalInv
<1>2. /\ seen' \in [Redeemers -> [link : Links \cup {"none"}, version : 0 .. MaxRenewals]]
      /\ seen'[c] = row /\ \A d \in Redeemers : d # c => seen'[d] = seen[d]
    BY PortalTypes DEF PortalInv
<1>3. Portal!TypeOK'
    BY <1>1, <1>2 DEF PortalInv, Portal!TypeOK, LinkRows
<1>4. PortalGrows
    BY DEF PortalGrows
<1>5. \A d \in Redeemers : Portal!UserOfEvent(d)' = Portal!UserOfEvent(d)
    BY DEF Portal!UserOfEvent
<1>6. HoldersAreKnown'
    BY DEF PortalInv, HoldersAreKnown
<1>7. LoginsAreKnown'
  <2>1. \A d \in Redeemers : redeemer'[d].at # "done" => login'[d] = "none"
      BY <1>1 DEF PortalInv, LoginsAreKnown
  <2>2. ASSUME NEW d \in Redeemers, seen'[d] # Portal!NoLink
        PROVE  /\ login'[d] = "pending"
               /\ seen'[d].link \in Links /\ UserOf[seen'[d].link] = Portal!UserOfEvent(d)'
               /\ link'[seen'[d].link].status # "absent"
               /\ seen'[d].version <= link'[seen'[d].link].version
               /\ seen'[d].version = link'[seen'[d].link].version =>
                    link'[seen'[d].link].status = "PENDING_INVITE"
    <3>1. CASE d = c
      <4>1. /\ row # Portal!NoLink /\ state = "pending" /\ link' = link /\ row.link \in Links
            /\ UserOf[row.link] = Portal!UserOfEvent(c)
            /\ link[row.link].status = "PENDING_INVITE" /\ row.version = link[row.link].version
          BY <2>2, <3>1, <1>2
      <4>2. row.version \in Int
          BY RenewalBounds
      <4> QED
          BY <3>1, <4>1, <4>2, <1>1, <1>2, <1>5
    <3>2. CASE d # c
      <4>1. /\ login'[d] = "pending" /\ seen'[d] = seen[d]
            /\ seen[d].link \in Links /\ UserOf[seen[d].link] = Portal!UserOfEvent(d)
            /\ link[seen[d].link].status # "absent"
            /\ seen[d].version <= link[seen[d].link].version
            /\ seen[d].version = link[seen[d].link].version => link[seen[d].link].status = "PENDING_INVITE"
          BY <2>2, <3>2, <1>1, <1>2 DEF PortalInv, LoginsAreKnown
      <4>2. PICK l \in Links : l = seen[d].link
          BY <4>1
      <4>3. seen[d] \in [link : Links \cup {"none"}, version : 0 .. MaxRenewals]
          BY PortalTypes DEF PortalInv
      <4>4. link[l] \in LinkRows /\ link'[l] \in LinkRows
          BY PortalTypes DEF PortalInv
      <4>5. seen[d].version \in Int /\ link[l].version \in Int /\ link'[l].version \in Int
          BY <4>3, <4>4, RenewalBounds DEF LinkRows
      <4>6. /\ link'[l].status # "absent" /\ seen[d].version <= link'[l].version
            /\ seen[d].version = link'[l].version => link'[l].status = "PENDING_INVITE"
          BY <4>1, <4>2, <4>5
      <4> QED
          BY <4>1, <4>2, <4>6, <1>5
    <3> QED
        BY <3>1, <3>2
  <2> QED
      BY <2>1, <2>2 DEF LoginsAreKnown
<1>8. UsersAreLinked'
    BY DEF PortalInv, UsersAreLinked, Linked
<1>9. Portal!TokensAreFew'
    BY FewStay
<1>10. Portal!InvitedCanEnter'
  <2>1. \A u \in Portal!Users : Entrance(u) => Entrance(u)'
      BY EntranceStays
  <2>2. \A m \in Links : Expected(m)' => Expected(m)
      BY DEF Expected
  <2> QED
      BY <2>1, <2>2, EnterStays
<1>11. Portal!PendingIsExplained'
  <2>1. ASSUME NEW l \in Links, Delayed(l)' PROVE Explained(l)'
    <3>1. Delayed(l)
        BY <2>1 DEF Delayed
    <3>2. Explained(l)
        BY <3>1, EntranceIsMeant DEF PortalInv
    <3>3. CASE \E d \in Redeemers : login[d] \in {"pending", "failed"} /\ Portal!UserOfEvent(d) = UserOf[l]
      <4>1. PICK d \in Redeemers : login[d] \in {"pending", "failed"} /\ Portal!UserOfEvent(d) = UserOf[l]
          BY <3>3
      <4>2. CASE d # c \/ state # "delivered"
        <5>1. login'[d] \in {"pending", "failed"} /\ Portal!UserOfEvent(d)' = UserOf[l]
            BY <4>1, <4>2, <1>1, <1>5
        <5> QED
            BY <5>1 DEF Explained
      <4>3. CASE d = c /\ state = "delivered"
          BY <2>1, <4>1, <4>3
      <4> QED
          BY <4>2, <4>3
    <3>4. CASE UserOf[l] \in known \/ registered # KindOf[l]
        BY <3>4 DEF Explained
    <3>5. CASE \E m \in Links \ {l} : UserOf[m] = UserOf[l] /\ link[m].status # "absent"
        BY <3>5, <1>4 DEF Explained, PortalGrows
    <3> QED
        BY <3>2, <3>3, <3>4, <3>5 DEF Explained
  <2>2. (\A l \in Links : Delayed(l) => Explained(l))'
      BY <2>1
  <2> QED
      BY <2>2, EntranceIsMeant, PTL
<1> QED
    BY <1>3, <1>6, <1>7, <1>8, <1>9, <1>10, <1>11 DEF PortalInv

SeenRows == [link : Links \cup {"none"}, version : 0 .. MaxRenewals]

\* The delivery of a first login keeps the invariant.
LEMMA LoginsKeep ==
  ASSUME PortalInv, NEW c \in Redeemers,
         Portal!Deliver(c) \/ Portal!Activate(c) \/ Portal!DeliveryFails(c) \/ Portal!Replay(c)
  PROVE  PortalInv'
<1>1. UNCHANGED <<registered, user, token, inviter, redeemer, known, stopped>>
    BY DEF Portal!Deliver, Portal!Activate, Portal!DeliveryFails, Portal!Replay
<1>2. /\ Portal!NoLink \in SeenRows /\ seen[c] \in SeenRows
      /\ login = [login EXCEPT ![c] = login[c]] /\ seen = [seen EXCEPT ![c] = seen[c]]
      /\ link \in [Links -> LinkRows]
  <2>1. Portal!NoLink \in SeenRows
      BY RenewalBounds DEF Portal!NoLink, SeenRows
  <2> QED
      BY <2>1, PortalTypes DEF PortalInv, SeenRows
<1>3. seen[c] # Portal!NoLink =>
        /\ login[c] = "pending"
        /\ seen[c].link \in Links /\ UserOf[seen[c].link] = Portal!UserOfEvent(c)
        /\ link[seen[c].link].status # "absent"
        /\ seen[c].version = link[seen[c].link].version => link[seen[c].link].status = "PENDING_INVITE"
    BY DEF PortalInv, LoginsAreKnown
<1>4. CASE Portal!Deliver(c)
  <2>1. login[c] = "pending" /\ seen[c] = Portal!NoLink /\ link' = link
      BY <1>4 DEF Portal!Deliver
  <2>2. ASSUME NEW l \in Portal!Found(c), link[l].status = "PENDING_INVITE",
               seen' = [seen EXCEPT ![c] = [link |-> l, version |-> link[l].version]], login' = login
        PROVE  PortalInv'
    <3> DEFINE row == [link |-> l, version |-> link[l].version]
    <3>1. l \in Links /\ UserOf[l] = Portal!UserOfEvent(c)
        BY DEF Portal!Found
    <3>2. link[l].version \in 0 .. MaxRenewals
        BY <1>2, <3>1 DEF LinkRows
    <3>3. row \in SeenRows /\ row.link = l /\ row.version = link[l].version
        BY <3>1, <3>2 DEF SeenRows
    <3>4. login' = [login EXCEPT ![c] = "pending"] /\ seen' = [seen EXCEPT ![c] = row]
        BY <1>2, <2>1, <2>2
    <3> HIDE DEF row
    <3> QED
        BY <1>1, <1>2, <2>1, <2>2, <3>1, <3>3, <3>4, LoginMoves DEF SeenRows
  <2>3. ASSUME login' = [login EXCEPT ![c] = "delivered"], seen' = seen,
               Portal!Found(c) = {} \/ \E n \in Portal!Found(c) : link[n].status # "PENDING_INVITE"
        PROVE  PortalInv'
    <3>1. ASSUME NEW l \in Links, Delayed(l)', Portal!UserOfEvent(c) = UserOf[l] PROVE Explained(l)'
      <4>1. link[l].status = "PENDING_INVITE"
          BY <2>1, <3>1 DEF Delayed
      <4>2. CASE registered # KindOf[l]
          BY <4>2, <1>1 DEF Explained
      <4>3. CASE registered = KindOf[l]
        <5>1. l \in Portal!Found(c)
            BY <3>1, <4>1, <4>3 DEF Portal!Found
        <5>2. PICK n \in Portal!Found(c) : link[n].status # "PENDING_INVITE"
            BY <2>3, <5>1
        <5>3. n \in Links \ {l} /\ UserOf[n] = UserOf[l] /\ link'[n].status # "absent"
            BY <2>1, <3>1, <4>1, <5>2 DEF Portal!Found
        <5> QED
            BY <5>3 DEF Explained
      <4> QED
          BY <4>2, <4>3
    <3>2. seen' = [seen EXCEPT ![c] = Portal!NoLink]
        BY <1>2, <2>1, <2>3
    <3> QED
        BY <1>1, <1>2, <2>1, <2>3, <3>1, <3>2, LoginMoves DEF SeenRows
  <2> QED
      BY <1>4, <2>2, <2>3 DEF Portal!Deliver
<1>5. CASE Portal!Activate(c)
  <2>1. PICK l \in Links : l = seen[c].link /\ UserOf[l] = Portal!UserOfEvent(c)
      BY <1>3, <1>5 DEF Portal!Activate
  <2>2. /\ seen[c] # Portal!NoLink /\ login[c] = "pending"
        /\ seen' = [seen EXCEPT ![c] = Portal!NoLink]
      BY <1>3, <1>5 DEF Portal!Activate
  <2>3. CASE link[l].version = seen[c].version
    <3>1. /\ Portal!Change(l, "ACTIVE") /\ login' = [login EXCEPT ![c] = "delivered"]
        BY <1>5, <2>1, <2>3 DEF Portal!Activate
    <3>2. /\ link' \in [Links -> LinkRows]
          /\ link'[l].status = "ACTIVE" /\ link'[l].version > link[l].version
          /\ \A m \in Links : m # l => link'[m] = link[m]
        BY <3>1, LinkChanged DEF PortalInv
    <3>3. link[l].status = "PENDING_INVITE"
        BY <1>3, <2>1, <2>2, <2>3
    <3>4. ASSUME NEW n \in Links, Delayed(n)', Portal!UserOfEvent(c) = UserOf[n] PROVE Explained(n)'
      <4>1. l \in Links \ {n} /\ UserOf[l] = UserOf[n] /\ link'[l].status # "absent"
          BY <2>1, <3>2, <3>4 DEF Delayed
      <4> QED
          BY <4>1 DEF Explained
    <3>5. \A n \in Links : \/ link'[n] = link[n]
                           \/ /\ link'[n].status = "ACTIVE" /\ link'[n].version > link[n].version
                              /\ link[n].status = "PENDING_INVITE"
        BY <3>2, <3>3
    <3> QED
        BY <1>1, <1>2, <2>2, <3>1, <3>2, <3>4, <3>5, LoginMoves DEF SeenRows
  <2>4. CASE link[l].version # seen[c].version
    <3>1. link' = link /\ login' = [login EXCEPT ![c] = "failed"]
        BY <1>5, <2>1, <2>4 DEF Portal!Activate
    <3> QED
        BY <1>1, <1>2, <2>2, <3>1, LoginMoves DEF SeenRows
  <2> QED
      BY <2>3, <2>4
<1>6. CASE Portal!DeliveryFails(c)
  <2>1. /\ link' = link /\ login[c] = "pending" /\ login' = [login EXCEPT ![c] = "failed"]
        /\ seen' = [seen EXCEPT ![c] = Portal!NoLink]
      BY <1>6 DEF Portal!DeliveryFails
  <2> QED
      BY <1>1, <1>2, <2>1, LoginMoves DEF SeenRows
<1>7. CASE Portal!Replay(c)
  <2>1. /\ link' = link /\ login[c] = "failed" /\ login' = [login EXCEPT ![c] = "pending"]
        /\ seen' = seen
      BY <1>7 DEF Portal!Replay
  <2>2. seen[c] = Portal!NoLink
      BY <1>3, <2>1
  <2>3. seen' = [seen EXCEPT ![c] = Portal!NoLink]
      BY <1>2, <2>1, <2>2
  <2> QED
      BY <1>1, <1>2, <2>1, <2>3, LoginMoves DEF SeenRows
<1> QED
    BY <1>4, <1>5, <1>6, <1>7

\* Every step of the portal keeps its invariant.
LEMMA PortalKeeps ==
  ASSUME PortalInv, [Portal!Next]_portalVars
  PROVE  PortalInv'
<1>1. CASE UNCHANGED portalVars
  <2> USE <1>1 DEF portalVars
  <2>1. Portal!TypeOK' /\ HoldersAreKnown' /\ UsersAreLinked'
      BY DEF PortalInv, Portal!TypeOK, HoldersAreKnown, UsersAreLinked, Linked
  <2>2. LoginsAreKnown'
      BY DEF PortalInv, LoginsAreKnown, Portal!UserOfEvent
  <2>3. Portal!TokensAreFew'
      BY FewStay
  <2>4. Portal!InvitedCanEnter'
      BY EntranceStays, EnterStays DEF Expected
  <2>5. Portal!PendingIsExplained'
      BY PendingStays DEF PortalGrows, Delayed, Portal!UserOfEvent
  <2> QED
      BY <2>1, <2>2, <2>3, <2>4, <2>5 DEF PortalInv
<1>2. ASSUME NEW a \in Inviters, Portal!IssueInvited(a) \/ Portal!InviteDies(a) PROVE PortalInv'
    BY <1>2, InvitersKeep
<1>3. ASSUME NEW a \in Inviters, NEW l \in Links, Portal!Invite(a, l) PROVE PortalInv'
    BY <1>3, InviteKeeps
<1>4. ASSUME NEW l \in Links, Portal!Suspend(l) \/ Portal!Reactivate(l) \/ Portal!Archive(l) PROVE PortalInv'
    BY <1>4, ChangeKeeps
<1>5. ASSUME NEW u \in Portal!Users, Portal!RequestReset(u) PROVE PortalInv'
  <2>1. /\ user[u] # "absent" /\ Portal!Issue(u)
        /\ UNCHANGED <<registered, link, user, inviter, redeemer, login, seen, known, stopped>>
      BY <1>5 DEF Portal!RequestReset
  <2>2. inviter' \in [Inviters -> Links \cup {"none"}]
      BY <2>1, PortalTypes DEF PortalInv
  <2> QED
      BY <2>1, <2>2, IssueKeeps
<1>6. ASSUME NEW k \in Tokens, Portal!Expire(k) PROVE PortalInv'
    BY <1>6, TokenExpires
<1>7. ASSUME NEW c \in Redeemers, NEW k \in Tokens, Portal!ConfirmRead(c, k) PROVE PortalInv'
    BY <1>7, RedeemersRead
<1>8. ASSUME NEW c \in Redeemers, Portal!Confirm(c) \/ Portal!ConfirmFails(c) PROVE PortalInv'
    BY <1>8, ConfirmKeeps, RedeemersRead
<1>9. ASSUME NEW c \in Redeemers,
             Portal!Deliver(c) \/ Portal!Activate(c) \/ Portal!DeliveryFails(c) \/ Portal!Replay(c)
      PROVE  PortalInv'
    BY <1>9, LoginsKeep
<1> QED
    BY <1>1, <1>2, <1>3, <1>4, <1>5, <1>6, <1>7, <1>8, <1>9 DEF Portal!Next, Tokens

\* Schools and people come to the platform as the journal, the slugs, the trials, the tokens
\* and the links say, but for the ways in which the code loses the token or the event.
THEOREM ArrivalsAlwaysExplained == PlatformSpec => []ArrivalsAreExplained
<1> DEFINE Both == SchoolInv /\ PortalInv
<1>1. PlatformInit => Both
    BY SchoolsBegin, PortalBegins DEF PlatformInit
<1>2. Both /\ [PlatformNext]_PlatformVars => Both'
    BY SchoolsKeep, PortalKeeps, ComponentsStep
<1>3. Both => ArrivalsAreExplained
    BY DEF SchoolInv, SchoolPromises, PortalInv, ArrivalsAreExplained
<1> QED
    BY <1>1, <1>2, <1>3, PTL DEF PlatformSpec

-----------------------------------------------------------------------------
(* Types                                                                   *)

\* A tick that enqueues began in a matching minute.
MinutesMatch ==
  /\ Scheduler!TypeOK
  /\ \A c \in Callbacks : tick[c].at = "enqueue" => tick[c].now \in Matching

\* At first no tick is under way.
LEMMA MinutesBegin == LastMinute \in Nat /\ Scheduler!Init => MinutesMatch
<1> SUFFICES ASSUME LastMinute \in Nat, Scheduler!Init PROVE MinutesMatch
    OBVIOUS
<1>1. draining \in BOOLEAN
    BY DEF Scheduler!Init
<1>2. fired \in Seq(Matching)
    BY DEF Scheduler!Init
<1> QED
    BY <1>1, <1>2 DEF Scheduler!Init, Scheduler!IdleTick, Scheduler!Never, MinutesMatch, Scheduler!TypeOK

\* Every step of the scheduler keeps its types: what fires is a matching minute.
LEMMA MinutesKeep ==
  ASSUME LastMinute \in Nat, MinutesMatch, [Scheduler!Next]_schedulerVars
  PROVE  MinutesMatch'
<1> USE DEF MinutesMatch, Scheduler!TypeOK, Scheduler!Never
<1>1. CASE UNCHANGED schedulerVars
    BY <1>1 DEF schedulerVars
<1>2. CASE Scheduler!TimePasses
  <2>1. minute' \in 0 .. LastMinute
      BY <1>2 DEF Scheduler!TimePasses
  <2> QED
      BY <2>1, <1>2 DEF Scheduler!TimePasses
<1>3. ASSUME NEW c \in Callbacks, Scheduler!Begin(c) PROVE MinutesMatch'
  <2>1. tick' = [tick EXCEPT ![c] = [at |-> "listed", now |-> minute]]
      BY <1>3 DEF Scheduler!Begin
  <2>2. draining' \in BOOLEAN
      BY <1>3 DEF Scheduler!Begin
  <2> QED
      BY <2>1, <2>2, <1>3 DEF Scheduler!Begin
<1>4. ASSUME NEW c \in Callbacks, Scheduler!Skip(c) PROVE MinutesMatch'
  <2>1. draining' \in BOOLEAN
      BY <1>4 DEF Scheduler!Skip, Scheduler!End
  <2> QED
      BY <2>1, <1>4 DEF Scheduler!Skip, Scheduler!End, Scheduler!IdleTick
<1>5. ASSUME NEW c \in Callbacks, Scheduler!Fire(c) PROVE MinutesMatch'
    BY <1>5 DEF Scheduler!Fire, Scheduler!ShouldFire
<1>6. ASSUME NEW c \in Callbacks, Scheduler!Enqueued(c) \/ Scheduler!EnqueueThrows(c)
      PROVE  MinutesMatch'
  <2>1. /\ tick[c].at = "enqueue" /\ minute' = minute
        /\ tick' = [tick EXCEPT ![c] = [at |-> "idle", now |-> 0]]
      BY <1>6 DEF Scheduler!Enqueued, Scheduler!EnqueueThrows, Scheduler!End, Scheduler!IdleTick
  <2>2. draining' \in BOOLEAN
      BY <1>6 DEF Scheduler!Enqueued, Scheduler!EnqueueThrows, Scheduler!End
  <2>3. tick[c].now \in Matching
      BY <2>1
  <2>4. /\ fired' \in {fired, Append(fired, tick[c].now)}
        /\ lastFired' \in {lastFired, tick[c].now}
        /\ unsure' \in {unsure, unsure \cup {tick[c].now}}
      BY <1>6 DEF Scheduler!Enqueued, Scheduler!EnqueueThrows
  <2>5. fired' \in Seq(Matching)
      BY <2>3, <2>4
  <2> QED
      BY <2>1, <2>2, <2>3, <2>4, <2>5
<1> QED
    BY <1>1, <1>2, <1>3, <1>4, <1>5, <1>6 DEF Scheduler!Next

\* One component runs, the one that the initial state names.
OneRuns ==
  component \in {"billing", "plans", "usage", "quota", "delivery", "scheduler", "queue", "flags",
                 "school", "portal"}

\* Every variable of the component that runs keeps its type.
THEOREM TypesAlwaysOK == PlatformSpec => []TypesOK
<1> DEFINE All == /\ OneRuns /\ BillingInv /\ PlanInv /\ UsageInv /\ QuotaInv /\ DeliveryInv
                  /\ MinutesMatch /\ IInv /\ FlagInv /\ SchoolInv /\ PortalInv
<1>1. PlatformInit => All
  <2>1. PlatformInit => OneRuns
      BY DEF PlatformInit, OneRuns
  <2> QED
      BY <2>1, PlatformAssumption, BillingBegins, PlansBegin, UsageBegins, QuotaBegins, DeliveryBegins,
         MinutesBegin, InitEstablishes, FlagsBegin, SchoolsBegin, PortalBegins DEF PlatformInit
<1>2. All /\ [PlatformNext]_PlatformVars => All'
  <2>1. OneRuns /\ [PlatformNext]_PlatformVars => OneRuns'
      BY DEF PlatformNext, PlatformVars, OneRuns
  <2>2. DeliveryInv /\ [PlatformNext]_PlatformVars => DeliveryInv'
      BY PlatformAssumption, ComponentsStep, DeliveryKeeps
  <2>3. MinutesMatch /\ [PlatformNext]_PlatformVars => MinutesMatch'
      BY PlatformAssumption, ComponentsStep, MinutesKeep
  <2> QED
      BY <2>1, <2>2, <2>3, ComponentsStep, BillingKeeps, PlansKeep, UsageKeeps, QuotaKeeps, NextKeeps,
         FlagsKeep, SchoolsKeep, PortalKeeps
<1>3. All => TypesOK
  <2> SUFFICES ASSUME All PROVE TypesOK
      OBVIOUS
  <2>1. BillingTypeOK /\ Quota!TypeOK /\ TypeOK /\ Schools!TypeOK /\ Portal!TypeOK /\ Scheduler!TypeOK
      BY DEF BillingInv, QuotaInv, IInv, SchoolInv, PortalInv, MinutesMatch
  <2>2. Plans!TypeOK /\ Usage!TypeOK /\ Flags!TypeOK
      BY PlansTyped, UsageExplained, FlagsExplained DEF PlanInv
  <2>3. Delivery!TypeOK
    <3>1. message \in [status : Delivery!Status, version : Nat \ {0}, attempts : 0 .. MaxTries]
        BY PlatformAssumption DEF DeliveryInv, DeliveryTypes, AttemptsLeft
    <3>2. sender \in [Senders -> [at : {"idle", "loaded", "sending", "accepted", "refused"},
                                   version : Nat, attempts : 0 .. MaxTries]]
        BY PlatformAssumption DEF DeliveryInv, DeliveryTypes, AttemptsLeft
    <3> QED
        BY <3>1, <3>2 DEF DeliveryInv, DeliveryTypes, Delivery!TypeOK
  <2> HIDE DEF All
  <2>4. OneRuns
      BY DEF All
  <2> QED
      BY <2>1, <2>2, <2>3, <2>4 DEF OneRuns, TypesOK
<1> QED
    BY <1>1, <1>2, <1>3, PTL DEF PlatformSpec
===============================================================================
