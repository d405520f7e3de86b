------------------------------ MODULE MCPlatform ------------------------------
(***************************************************************************)
(* The components that keep state of their own and share none, side by     *)
(* side on small sets, for TLC: in a behaviour one of them runs, whichever *)
(* the initial state names, and the others stand still.                    *)
(***************************************************************************)
EXTENDS PlatformBilling, JobQueue

CONSTANTS
  s1, f1, f2, f3, j1, j2,
  Assigners, MaxSubscriptions,                               \* of Subscriptions
  Students, Files, Clients, Size, Limit, NoEntity,           \* of UsageLimits
  Keys, MonthlyLimit, Dispatches, MaxResets, MaxUsed,        \* of NotificationQuota
  Senders, MaxTries, MaxDeliveries, MaxFaults,               \* of NotificationDelivery
  Callbacks, Matching, LastMinute,                           \* of JobScheduler
  Processes, Readers, Changes, PlanValue, NoValue,           \* of FeatureFlags
  Applicants, SlugOf, Deciders, Scanners, TrialDays, ExtensionDays, MaxExtensions, LastDay,
  MaxChanges,                                                \* of SchoolLifecycle
  Links, UserOf, KindOf, Inviters, Redeemers, MaxTokens, MaxRenewals  \* of PortalInvitation

\* Rows are finitely many, what a row counts for and what a plan or a month allows is a number
\* that is not negative, DEFAULT_MAX_ATTEMPTS is 5, a plan map holds booleans; the rest are
\* bounds, and values that stand for none.
ASSUME PlatformAssumption ==
  /\ IsFiniteSet(Students) /\ IsFiniteSet(Files) /\ Students \cap Files = {}
  /\ NoEntity \notin Students \cup Files
  /\ Size \in [Students \cup Files -> Nat] /\ Limit \in [{"students", "storage"} -> Nat]
  /\ IsFiniteSet(Keys) /\ MonthlyLimit \in Nat /\ MaxResets \in Nat /\ MaxUsed \in Nat
  /\ MaxTries \in Nat \ {0} /\ MaxDeliveries \in Nat /\ MaxFaults \in Nat
  /\ LastMinute \in Nat
  /\ PlanValue \in BOOLEAN /\ NoValue \notin BOOLEAN
  /\ "scan" \notin Assigners /\ MaxSubscriptions \in Nat
  /\ TrialDays \in Nat /\ ExtensionDays \in Nat /\ MaxExtensions \in Nat
  /\ LastDay \in Nat /\ MaxChanges \in Nat
  /\ "none" \notin Links \cup {UserOf[l] : l \in Links} /\ MaxTokens \in Nat /\ MaxRenewals \in Nat

VARIABLES
  component,
  sub, held, scan,
  usable, used, band, sent, entity, client, lost, twice, raced,
  elapsed, counted, period, enabled, created, dispatch,
  message, event, deliveries, sends, sender, accepted, faults, forgotten,
  minute, draining, tick, lastFired, fired, unsure,
  default, rollout, override, remembered, reader, change, missed, wanted, torn,
  school, attempt, journal, request, expiry, day, unmarked, died, overtaken, shortcut,
  registered, link, user, token, inviter, redeemer, login, seen, known, stopped

planVars == <<sub, held, scan>>
usageVars == <<usable, used, band, sent, entity, client, lost, twice, raced>>
quotaVars == <<elapsed, counted, period, enabled, created, dispatch>>
deliveryVars == <<message, event, deliveries, sends, sender, accepted, faults, forgotten>>
schedulerVars == <<minute, draining, tick, lastFired, fired, unsure>>
flagVars == <<default, rollout, override, remembered, reader, change, missed, wanted, torn>>
schoolVars == <<school, attempt, journal, request, expiry, day, unmarked, died, overtaken, shortcut>>
portalVars == <<registered, link, user, token, inviter, redeemer, login, seen, known, stopped>>

Plans == INSTANCE Subscriptions WITH Admins <- Assigners

\* Storage is 80, 90 and 105 per cent full with the files f1, f2 and f3.
SizeOf == [e \in {s1, f1, f2, f3} |-> CASE e = f1 -> 16 [] e = f2 -> 2 [] e = f3 -> 3 [] OTHER -> 1]
LimitOf == [f \in {"students", "storage"} |-> IF f = "students" THEN 1 ELSE 20]

Usage == INSTANCE UsageLimits

Quota == INSTANCE NotificationQuota WITH
  Limit <- MonthlyLimit, used <- counted, message <- created

Delivery == INSTANCE NotificationDelivery WITH
  Workers <- Senders, MaxAttempts <- MaxTries, jobs <- sends, worker <- sender, dropped <- forgotten

Scheduler == INSTANCE JobScheduler WITH jobs <- fired

Flags == INSTANCE FeatureFlags WITH
  Requests <- Changes, None <- NoValue, cache <- remembered

\* Two requests ask for one slug.
OneSlug == [s \in Applicants |-> "slug"]

Schools == INSTANCE SchoolLifecycle WITH
  Schools <- Applicants, Admins <- Deciders, MaxVersion <- MaxChanges,
  run <- journal, admin <- request, scan <- expiry, cut <- died

\* One user is the parent of two families.
OneUser == [l \in Links |-> "u1"]
AllParents == [l \in Links |-> "parent"]

Portal == INSTANCE PortalInvitation WITH
  Admins <- Inviters, MaxVersion <- MaxRenewals, admin <- inviter, event <- login, cut <- stopped

PlatformInit ==
  /\ component \in {"billing", "plans", "usage", "quota", "delivery", "scheduler", "queue", "flags",
                   "school", "portal"}
  /\ BillingInit /\ Plans!Init /\ Usage!Init /\ Quota!Init /\ Delivery!Init /\ Scheduler!Init
  /\ Init /\ Flags!Init /\ (component = "flags" \/ default)
  /\ Schools!Init /\ Portal!Init
  /\ component = "portal" \/ (registered = "parent" /\ known = {})

Stays(name, variables) == component # name /\ UNCHANGED variables

PlatformNext ==
  /\ UNCHANGED component
  /\ (component = "billing" /\ BillingNext) \/ Stays("billing", billingVars)
  /\ (component = "plans" /\ Plans!Next) \/ Stays("plans", planVars)
  /\ (component = "usage" /\ Usage!Next) \/ Stays("usage", usageVars)
  /\ (component = "quota" /\ Quota!Next) \/ Stays("quota", quotaVars)
  /\ (component = "delivery" /\ Delivery!Next) \/ Stays("delivery", deliveryVars)
  /\ (component = "scheduler" /\ Scheduler!Next) \/ Stays("scheduler", schedulerVars)
  /\ (component = "queue" /\ Next) \/ Stays("queue", vars)
  /\ (component = "flags" /\ Flags!Next) \/ Stays("flags", flagVars)
  /\ (component = "school" /\ Schools!Next) \/ Stays("school", schoolVars)
  /\ (component = "portal" /\ Portal!Next) \/ Stays("portal", portalVars)

PlatformVars ==
  <<component, billingVars, planVars, usageVars, quotaVars, deliveryVars, schedulerVars,
    vars, flagVars, schoolVars, portalVars>>

PlatformSpec == PlatformInit /\ [][PlatformNext]_PlatformVars

-----------------------------------------------------------------------------
(* The properties of the components, under names of this module            *)

\* Every variable of the component that runs keeps its type.
TypesOK ==
  CASE component = "billing" -> BillingTypeOK
    [] component = "plans" -> Plans!TypeOK
    [] component = "usage" -> Usage!TypeOK
    [] component = "quota" -> Quota!TypeOK
    [] component = "delivery" -> Delivery!TypeOK
    [] component = "scheduler" -> Scheduler!TypeOK
    [] component = "queue" -> TypeOK
    [] component = "flags" -> Flags!TypeOK
    [] component = "school" -> Schools!TypeOK
    [] component = "portal" -> Portal!TypeOK

\* The daily scan expires and warns of what is due, by whatever it read before, and a
\* school moves from state to state as the table of transitions says.
LapsesWhenDue == Plans!LapsesWhenDue /\ Schools!StatesFollowTheTable

\* A cancelled message is not handed to the provider.
CancelledIsNeverSent == Delivery!CancelledIsNeverSent

\* The usage counters say what exists, or what a request or a failure explains; a limit
\* is exceeded only by a race, a school is told of each threshold at most once, in rising
\* order, and a period never creates more messages than its limit.
LimitsHold ==
  /\ component = "usage" => Usage!CountsAreExplained /\ Usage!OvershootIsRaced /\ Usage!BandsRise
  /\ component = "quota" => Quota!QuotaHolds

\* How schools and people come to the platform: one school gets a slug, the journal of
\* provisioning tells what became of each attempt, trials are as long as was granted; who
\* is invited can come in, with one token at a time, and is active after the first login,
\* but for the ways in which the code loses the token or the event.
ArrivalsAreExplained ==
  /\ component = "school" => /\ Schools!SlugIsUnique /\ Schools!JournalIsTrue
                             /\ Schools!TrialsAddUp /\ Schools!OnboardedOrReactivated
  /\ component = "portal" => /\ Portal!TokensAreFew /\ Portal!InvitedCanEnter
                             /\ Portal!PendingIsExplained

\* A message that is not settled has somebody who takes it further.
UnsentIsCarried == component = "delivery" => Delivery!UnsentIsCarried

\* One scheduler fires once per matching minute; a dead letter stands for as many attempts
\* as its job allows, and a replayed one has a job that replaces it.
JobsAreTrue ==
  /\ component = "scheduler" => Scheduler!FiresOncePerMinute
  /\ component = "queue" => LetterWasExhausted /\ ReplayedHasSuccessor

\* What a process remembers of a flag is what the tables say, and an override stays until
\* it is reset, but for the ways in which the code loses them.
FlagsAreExplained == component = "flags" => Flags!StaleIsExplained /\ Flags!OverrideIsKept
=============================================================================
