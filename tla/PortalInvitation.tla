--------------------------- MODULE PortalInvitation ---------------------------
(***************************************************************************)
(* How a parent or a student comes into the portal (src/backend/src/core/  *)
(* parent, student and provisioning/password-reset): an administrator      *)
(* invites a person to a record, which links a user to it and mails a      *)
(* token; the user sets a password with the token; the outbox hands the    *)
(* event of this first login to a handler that activates the link.         *)
(*                                                                         *)
(* Each of these is a transaction of its own. The changes of a link are    *)
(* bound to its version, and those that a transaction judges and writes    *)
(* are one step; locks on a user's token rows put the transactions that    *)
(* cancel and issue them one after the other. A redemption judges its      *)
(* token before its transaction, and the handler reads the link before     *)
(* the transaction that activates it.                                      *)
(***************************************************************************)
EXTENDS Integers

CONSTANTS
  Links,      \* rows that link a user to a parent or to a student
  UserOf,     \* UserOf[l] : the user
  KindOf,     \* KindOf[l] : "parent" or "student"
  Admins,     \* invitations that are under way at a time
  Redeemers,  \* requests that redeem tokens, each at most once
  MaxTokens,  \* bound on the tokens that are issued
  MaxVersion  \* bound on the changes of a link

Users == {UserOf[l] : l \in Links}

VARIABLES
  registered, \* the kind of links whose handler the registry keeps for the event
  link,       \* link[l]   : status and version of the row
  user,       \* user[u]   : "absent", "invited" (must change the password), "settled"
  token,      \* token[k]  : whose it is, whether it is live, issued to which status
  admin,      \* admin[a]  : the link whose invitation has still to issue a token
  redeemer,   \* redeemer[c] : what the request has read
  event,      \* event[c]  : the first-login event that the request published
  seen,       \* seen[c]   : the link its handler has found, and its version
  known,      \* users that were settled before they were invited (history)
  cut         \* users of which an invitation died (history)

vars == <<registered, link, user, token, admin, redeemer, event, seen, known, cut>>

-----------------------------------------------------------------------------

NoToken == [user |-> "none", status |-> "none", late |-> FALSE]
Unused == [at |-> "idle", token |-> 0, first |-> FALSE]
NoLink == [link |-> "none", version |-> 0]

\* Both modules register a handler for the event under its topic when the application
\* starts, and the registry keeps the last.
Init ==
  /\ registered \in {"parent", "student"}
  /\ link = [l \in Links |-> [status |-> "absent", version |-> 0]]
  /\ user \in [Users -> {"absent", "settled"}]
  /\ token = [k \in 1 .. MaxTokens |-> NoToken]
  /\ admin = [a \in Admins |-> "none"]
  /\ redeemer = [c \in Redeemers |-> Unused]
  /\ event = [c \in Redeemers |-> "none"]
  /\ seen = [c \in Redeemers |-> NoLink]
  /\ known = {u \in Users : user[u] = "settled"} /\ cut = {}

Change(l, status) ==
  /\ link[l].version < MaxVersion
  /\ link' = [link EXCEPT ![l] = [status |-> status, version |-> @.version + 1]]

-----------------------------------------------------------------------------
(* The administrator                                                       *)

\* A user is created who has to change a password nobody knows, unless there is one, and
\* linked; an invitation that is still open is renewed.
Invite(a, l) ==
  /\ admin[a] = "none"
  /\ user' = [user EXCEPT ![UserOf[l]] = IF @ = "absent" THEN "invited" ELSE @]
  /\ \/ /\ link[l].status = "absent"
        /\ link' = [link EXCEPT ![l].status = "PENDING_INVITE"]
     \/ link[l].status = "PENDING_INVITE" /\ Change(l, "PENDING_INVITE")
  /\ admin' = [admin EXCEPT ![a] = l]
  /\ UNCHANGED <<registered, token, redeemer, event, seen, known, cut>>

\* The tokens of a user that can still be used.
Live(u) == {k \in 1 .. MaxTokens : token[k].user = u /\ token[k].status = "live"}

Cancelled(ks) == [k \in 1 .. MaxTokens |->
  IF k \in ks THEN [token[k] EXCEPT !.status = "cancelled"] ELSE token[k]]

ArchivedEverywhere(u) == \A l \in Links : UserOf[l] = u => link[l].status = "ARCHIVED"

New(u) == [user |-> u, status |-> "live", late |-> ArchivedEverywhere(u)]

\* FAULT: Issue that cancels after it has created.
Issue_CancelAfter(u) ==
  \E k \in 1 .. MaxTokens :
    /\ token[k] = NoToken /\ \A j \in 1 .. k - 1 : token[j] # NoToken
    /\ token' = [Cancelled(Live(u)) EXCEPT ![k] = [New(u) EXCEPT !.status = "cancelled"]]

\* PasswordResetService.request: the user's tokens are cancelled, and a new one is issued
\* and mailed.
Issue(u) ==
  \E k \in 1 .. MaxTokens :
    /\ token[k] = NoToken /\ \A j \in 1 .. k - 1 : token[j] # NoToken
    /\ token' = [Cancelled(Live(u)) EXCEPT ![k] = New(u)]

\* The second transaction of the invitation. (The third only mails the token again.)
IssueInvited(a) ==
  /\ admin[a] # "none"
  /\ Issue(UserOf[admin[a]])
  /\ admin' = [admin EXCEPT ![a] = "none"]
  /\ UNCHANGED <<registered, link, user, redeemer, event, seen, known, cut>>

\* The process dies, or the token cannot be issued.
InviteDies(a) ==
  /\ admin[a] # "none"
  /\ cut' = cut \cup {UserOf[admin[a]]}
  /\ admin' = [admin EXCEPT ![a] = "none"]
  /\ UNCHANGED <<registered, link, user, token, redeemer, event, seen, known>>

Suspend(l) ==
  /\ link[l].status = "ACTIVE" /\ Change(l, "SUSPENDED")
  /\ UNCHANGED <<registered, user, token, admin, redeemer, event, seen, known, cut>>

Reactivate(l) ==
  /\ link[l].status = "SUSPENDED" /\ Change(l, "ACTIVE")
  /\ UNCHANGED <<registered, user, token, admin, redeemer, event, seen, known, cut>>

\* FAULT: Archive that leaves the tokens.
Archive_KeepTokens(l) ==
  /\ link[l].status \in {"PENDING_INVITE", "ACTIVE", "SUSPENDED"} /\ Change(l, "ARCHIVED")
  /\ UNCHANGED <<registered, user, token, admin, redeemer, event, seen, known, cut>>

\* The tokens of the user are cancelled, whichever of the links they were mailed for.
Archive(l) ==
  /\ link[l].status \in {"PENDING_INVITE", "ACTIVE", "SUSPENDED"} /\ Change(l, "ARCHIVED")
  /\ token' = Cancelled(Live(UserOf[l]))
  /\ UNCHANGED <<registered, user, admin, redeemer, event, seen, known, cut>>

-----------------------------------------------------------------------------
(* The user                                                                *)

\* A user who exists asks for a token.
RequestReset(u) ==
  /\ user[u] # "absent" /\ Issue(u)
  /\ UNCHANGED <<registered, link, user, admin, redeemer, event, seen, known, cut>>

Expire(k) ==
  /\ token[k].status = "live"
  /\ token' = [token EXCEPT ![k].status = "expired"]
  /\ UNCHANGED <<registered, link, user, admin, redeemer, event, seen, known, cut>>

\* The token can be used; is this the user's first login?
ConfirmRead(c, k) ==
  /\ redeemer[c] = Unused /\ token[k].status = "live"
  /\ redeemer' = [redeemer EXCEPT ![c] = [at |-> "confirm", token |-> k,
                                          first |-> user[token[k].user] = "invited"]]
  /\ UNCHANGED <<registered, link, user, token, admin, event, seen, known, cut>>

\* The token is consumed, the others are cancelled, the password is set.
Confirm(c) ==
  LET k == redeemer[c].token
      u == token[k].user
  IN  /\ redeemer[c].at = "confirm"
      /\ token' = [Cancelled(Live(u)) EXCEPT ![k].status = "consumed"]
      /\ user' = [user EXCEPT ![u] = "settled"]
      /\ event' = [event EXCEPT ![c] = IF redeemer[c].first THEN "pending" ELSE "none"]
      /\ redeemer' = [redeemer EXCEPT ![c].at = "done"]
      /\ UNCHANGED <<registered, link, admin, seen, known, cut>>

ConfirmFails(c) ==
  /\ redeemer[c].at = "confirm"
  /\ redeemer' = [redeemer EXCEPT ![c] = Unused]
  /\ UNCHANGED <<registered, link, user, token, admin, event, seen, known, cut>>

-----------------------------------------------------------------------------
(* The handler of the first-login event                                    *)

UserOfEvent(c) == token[redeemer[c].token].user

\* The rows that findAliveByUserId may find: archived ones too, as nothing deletes them.
Found(c) == {l \in Links : /\ UserOf[l] = UserOfEvent(c) /\ KindOf[l] = registered
                           /\ link[l].status # "absent"}

\* One row of the user is looked up; there may be nothing to do.
Deliver(c) ==
  /\ event[c] = "pending" /\ seen[c] = NoLink
  /\ \/ \E l \in Found(c) :
          IF link[l].status = "PENDING_INVITE"
          THEN seen' = [seen EXCEPT ![c] = [link |-> l, version |-> link[l].version]]
               /\ UNCHANGED event
          ELSE event' = [event EXCEPT ![c] = "delivered"] /\ UNCHANGED seen
     \/ /\ Found(c) = {}
        /\ event' = [event EXCEPT ![c] = "delivered"] /\ UNCHANGED seen
  /\ UNCHANGED <<registered, link, user, token, admin, redeemer, known, cut>>

\* FAULT: a conflict counts as "already activated".
Activate_ConflictIgnored(c) ==
  LET l == seen[c].link
  IN  /\ seen[c] # NoLink
      /\ IF link[l].version = seen[c].version THEN Change(l, "ACTIVE") ELSE UNCHANGED link
      /\ event' = [event EXCEPT ![c] = "delivered"]
      /\ seen' = [seen EXCEPT ![c] = NoLink]
      /\ UNCHANGED <<registered, user, token, admin, redeemer, known, cut>>

\* It is activated, if nobody has changed it since; else the handler throws, and the
\* dispatcher leaves the event failed (see OutboxDispatcher).
Activate(c) ==
  LET l == seen[c].link
      fits == link[l].version = seen[c].version
  IN  /\ seen[c] # NoLink
      /\ IF fits THEN Change(l, "ACTIVE") ELSE UNCHANGED link
      /\ event' = [event EXCEPT ![c] = IF fits THEN "delivered" ELSE "failed"]
      /\ seen' = [seen EXCEPT ![c] = NoLink]
      /\ UNCHANGED <<registered, user, token, admin, redeemer, known, cut>>

DeliveryFails(c) ==
  /\ event[c] = "pending"
  /\ event' = [event EXCEPT ![c] = "failed"]
  /\ seen' = [seen EXCEPT ![c] = NoLink]
  /\ UNCHANGED <<registered, link, user, token, admin, redeemer, known, cut>>

\* An operator replays the event.
Replay(c) ==
  /\ event[c] = "failed"
  /\ event' = [event EXCEPT ![c] = "pending"]
  /\ UNCHANGED <<registered, link, user, token, admin, redeemer, seen, known, cut>>

Next ==
  \/ \E a \in Admins : IssueInvited(a) \/ InviteDies(a) \/ \E l \in Links : Invite(a, l)
  \/ \E l \in Links : Suspend(l) \/ Reactivate(l) \/ Archive(l)
  \/ \E u \in Users : RequestReset(u)
  \/ \E k \in 1 .. MaxTokens : Expire(k) \/ \E c \in Redeemers : ConfirmRead(c, k)
  \/ \E c \in Redeemers : \/ Confirm(c) \/ ConfirmFails(c) \/ Deliver(c) \/ Activate(c)
                          \/ DeliveryFails(c) \/ Replay(c)

Spec == Init /\ [][Next]_vars

-----------------------------------------------------------------------------
(* Correctness                                                             *)

\* Every variable keeps its type.
TypeOK ==
  /\ registered \in {"parent", "student"}
  /\ link \in [Links -> [status : {"absent", "PENDING_INVITE", "ACTIVE", "SUSPENDED", "ARCHIVED"},
                         version : 0 .. MaxVersion]]
  /\ user \in [Users -> {"absent", "invited", "settled"}]
  /\ token \in [1 .. MaxTokens ->
       {NoToken} \cup [user : Users, status : {"live", "cancelled", "expired", "consumed"},
                       late : BOOLEAN]]
  /\ admin \in [Admins -> Links \cup {"none"}]
  /\ redeemer \in [Redeemers -> [at : {"idle", "confirm", "done"}, token : 0 .. MaxTokens,
                                 first : BOOLEAN]]
  /\ event \in [Redeemers -> {"none", "pending", "delivered", "failed"}]
  /\ seen \in [Redeemers -> [link : Links \cup {"none"}, version : 0 .. MaxVersion]]
  /\ known \subseteq Users /\ cut \subseteq Users

\* A user has one token that can be used, and a user all of whose links are archived has
\* none that was issued before they were.
TokensAreFew ==
  \A u \in Users :
    /\ \A j, k \in Live(u) : j = k
    /\ ArchivedEverywhere(u) => \A k \in Live(u) : token[k].late

\* Who is invited and has not logged in can still do so, unless the token has expired, an
\* invitation died on the way, or another link of the user was archived and took the token.
InvitedCanEnter ==
  \A l \in Links :
    LET u == UserOf[l]
    IN link[l].status = "PENDING_INVITE" /\ user[u] = "invited" =>
         \/ Live(u) # {} \/ u \in cut
         \/ \E a \in Admins : admin[a] # "none" /\ UserOf[admin[a]] = u
         \/ \E k \in 1 .. MaxTokens : token[k].user = u /\ token[k].status = "expired"
         \/ \E m \in Links : UserOf[m] = u /\ link[m].status = "ARCHIVED"

\* A link stays pending after its user has logged in only if the event is still to be
\* delivered or has failed, if there was no first login because the user was settled when
\* invited, if the user has another link that the handler may have found in its place, or
\* if the handler that the registry keeps is that of the other kind.
PendingIsExplained ==
  \A l \in Links :
    LET u == UserOf[l]
    IN link[l].status = "PENDING_INVITE" /\ user[u] = "settled" =>
         \/ \E c \in Redeemers : event[c] \in {"pending", "failed"} /\ UserOfEvent(c) = u
         \/ u \in known
         \/ \E m \in Links \ {l} : UserOf[m] = u /\ link[m].status # "absent"
         \/ registered # KindOf[l]

\* The header of ParentActivationOutboxHandler, and that of its counterpart for students:
\* it consumes the first-login event "and flips the matching ParentUser row from
\* PENDING_INVITE to ACTIVE".
FirstLoginActivates ==
  \A c \in Redeemers : event[c] = "delivered" =>
    \E l \in Links : UserOf[l] = UserOfEvent(c) /\ link[l].status # "PENDING_INVITE"
=============================================================================
