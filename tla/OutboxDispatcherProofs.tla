----------------------- MODULE OutboxDispatcherProofs -----------------------
(***************************************************************************)
(* Safety of OutboxDispatcher for any events, replicas, ticks, batch size  *)
(* and number of attempts.  Every step moves one tick or writes one row;   *)
(* TickStepKeeps and RowStepKeeps say what is enough of such a step, and   *)
(* one lemma per action shows that it does that much.                      *)
(***************************************************************************)
EXTENDS OutboxDispatcher, TLAPS

\* Copies never run ahead of the rows they were taken from.
CopiesLag ==
  \A t \in Ticks : \A e \in DOMAIN tick[t].copies : tick[t].copies[e] <= row[e].attempts

\* What the number of claims of a row owes to the requests made for it.
AttemptsRequested ==
  \A e \in Events :
    /\ row[e].status = "absent" => row[e].attempts = 0
    /\ row[e].status = "pending" => row[e].attempts <= replays[e]
    /\ row[e].attempts <= replays[e] + 1

\* A process has at most one tick that is not idle.
OneTickDrains ==
  \A t, u \in Ticks :
    ProcessOf[t] = ProcessOf[u] /\ tick[t].at # "idle" /\ tick[u].at # "idle" => t = u

\* A tick that is to write a success has seen the handler succeed.
SuccessWasHandled ==
  \A t \in Ticks :
    tick[t].at = "mark" /\ tick[t].outcome = "succeeded" => tick[t].event \in handled

\* The event a tick is about to settle is one of its batch.
EventIsHeld ==
  \A t \in Ticks : tick[t].at = "mark" => tick[t].event \in DOMAIN tick[t].copies

IInv == /\ TypeOK
        /\ CopiesLag /\ EventIsHeld /\ DeadWasExhausted
        /\ AttemptsRequested
        /\ ClaimedIsHeld
        /\ OneTickDrains
        /\ SuccessWasHandled /\ DeliveredWasHandled

-----------------------------------------------------------------------------
(* Well-formed ticks                                                       *)

\* The tick made of some copies is well formed and holds just these copies.
LEMMA HoldingIsTick ==
  ASSUME NEW c, DOMAIN c \subseteq Events, c \in [DOMAIN c -> Nat]
  PROVE  /\ IsTick(Holding(c))
         /\ Holding(c).at \in {"idle", "dispatch"}
         /\ DOMAIN Holding(c).copies = DOMAIN c
         /\ \A e \in DOMAIN c : Holding(c).copies[e] = c[e]
         /\ Holding(c).at = "idle" => DOMAIN c = {}
<1>1. CASE DOMAIN c = {}
    BY <1>1 DEF Holding, IsTick, IdleTick, NoCopies
<1>2. CASE DOMAIN c # {}
    BY <1>2 DEF Holding, IsTick, IdleTick, NoCopies
<1> QED
    BY <1>1, <1>2

\* The copies of a batch are the attempts of its rows.
LEMMA BatchCopied ==
  ASSUME TypeOK, NEW b \in Batches
  PROVE  /\ DOMAIN Copies(b) = b /\ b \subseteq Events
         /\ Copies(b) \in [DOMAIN Copies(b) -> Nat]
         /\ \A e \in b : Copies(b)[e] = row[e].attempts
    BY DEF TypeOK, Batches, Candidates, Copies

\* A step that moves one tick leaves the others alone.
LEMMA TickMoved ==
  ASSUME TypeOK, NEW t \in Ticks, NEW k, IsTick(k), tick' = [tick EXCEPT ![t] = k]
  PROVE  /\ tick'[t] = k
         /\ \A u \in Ticks : u # t => tick'[u] = tick[u]
         /\ tick' = [u \in Ticks |-> tick'[u]]
         /\ \A u \in Ticks : IsTick(tick'[u])
<1>1. tick = [u \in Ticks |-> tick[u]] /\ \A u \in Ticks : IsTick(tick[u])
    BY DEF TypeOK
<1>2. tick'[t] = k /\ \A u \in Ticks : u # t => tick'[u] = tick[u]
    BY <1>1
<1>3. tick' = [u \in Ticks |-> tick'[u]]
    BY <1>1
<1> QED
    BY <1>1, <1>2, <1>3

-----------------------------------------------------------------------------
(* The initial state                                                       *)

LEMMA InitEstablishes == Init => IInv
<1> SUFFICES ASSUME Init PROVE IInv
    OBVIOUS
<1>1. IsTick(IdleTick) /\ IdleTick.at = "idle" /\ DOMAIN IdleTick.copies = {}
    BY DEF IsTick, IdleTick, NoCopies
<1>2. \A t \in Ticks : tick[t] = IdleTick
    BY DEF Init
<1>3. \A e \in Events : row[e].status = "absent" /\ row[e].attempts = 0
    BY DEF Init
<1>4. TypeOK
    BY <1>1, <1>2, DispatcherAssumption DEF Init, TypeOK, Status
<1>5. CopiesLag /\ EventIsHeld /\ OneTickDrains /\ SuccessWasHandled
    BY <1>1, <1>2 DEF CopiesLag, EventIsHeld, OneTickDrains, SuccessWasHandled
<1>6. DeadWasExhausted /\ ClaimedIsHeld /\ DeliveredWasHandled
    BY <1>3 DEF DeadWasExhausted, ClaimedIsHeld, DeliveredWasHandled
<1>7. AttemptsRequested
    BY <1>3 DEF Init, AttemptsRequested
<1> QED
    BY <1>4, <1>5, <1>6, <1>7 DEF IInv

-----------------------------------------------------------------------------
(* Steps of a tick                                                         *)


Dispatches(k, e) == e \in DOMAIN k.copies /\ k.at \in {"dispatch", "mark"}

\* What suffices of a step that moves tick t to k.
LEMMA TickStepKeeps ==
  ASSUME IInv, NEW t \in Ticks, NEW k, IsTick(k), tick' = [tick EXCEPT ![t] = k],
         row' \in [Events -> [status : Status, attempts : Nat, due : BOOLEAN]],
         \A e \in Events : row[e].attempts <= row'[e].attempts,
         handled \subseteq handled', handled' \subseteq Handled, stranded' \subseteq Events,
         replays' = replays, aborts' \in 0..MaxAborts,
         \A e \in DOMAIN k.copies : k.copies[e] <= row'[e].attempts,
         k.at = "idle" \/ tick[t].at # "idle"
           \/ \A u \in Ticks : ProcessOf[u] = ProcessOf[t] => tick[u].at = "idle",
         k.at = "mark" => k.event \in DOMAIN k.copies,
         k.at = "mark" /\ k.outcome = "succeeded" => k.event \in handled',
         \A e \in Events : row'[e].status = "claimed" =>
           \/ Dispatches(k, e) \/ e \in stranded'
           \/ \E u \in Ticks : u # t /\ e \in Held(u),
         DeadWasExhausted', DeliveredWasHandled', AttemptsRequested'
  PROVE  IInv'
<1>1. /\ tick'[t] = k
      /\ \A u \in Ticks : u # t => tick'[u] = tick[u]
      /\ tick' = [u \in Ticks |-> tick'[u]]
      /\ \A u \in Ticks : IsTick(tick'[u])
    BY TickMoved DEF IInv
<1>2. TypeOK'
    BY <1>1 DEF IInv, TypeOK
<1>3. CopiesLag'
  <2> SUFFICES ASSUME NEW u \in Ticks, NEW e \in DOMAIN tick'[u].copies
               PROVE  tick'[u].copies[e] <= row'[e].attempts
      BY DEF CopiesLag
  <2>1. CASE u = t
      BY <2>1, <1>1
  <2>2. CASE u # t
    <3>1. tick'[u] = tick[u]
        BY <2>2, <1>1
    <3>2. e \in Events /\ tick[u].copies[e] \in Nat
        BY <3>1 DEF IInv, TypeOK, IsTick
    <3>3. tick[u].copies[e] <= row[e].attempts
        BY <3>1 DEF IInv, CopiesLag
    <3>4. row[e].attempts \in Nat /\ row'[e].attempts \in Nat
        BY <3>2 DEF IInv, TypeOK
    <3> QED
        BY <3>1, <3>2, <3>3, <3>4
  <2> QED
      BY <2>1, <2>2
<1>4. ClaimedIsHeld'
  <2> SUFFICES ASSUME NEW e \in Events, row'[e].status = "claimed", e \notin stranded'
               PROVE  \E u \in Ticks : e \in Held(u)'
      BY DEF ClaimedIsHeld
  <2>1. CASE Dispatches(k, e)
      BY <2>1, <1>1 DEF Dispatches, Held
  <2>2. CASE \E u \in Ticks : u # t /\ e \in Held(u)
      BY <2>2, <1>1 DEF Held
  <2> QED
      BY <2>1, <2>2
<1>5. OneTickDrains'
    BY <1>1 DEF IInv, OneTickDrains
<1>6. SuccessWasHandled' /\ EventIsHeld'
    BY <1>1 DEF IInv, SuccessWasHandled, EventIsHeld
<1> QED
    BY <1>2, <1>3, <1>4, <1>5, <1>6 DEF IInv

\* What suffices of a step that moves tick t to k and leaves the rows alone.
LEMMA QuietStepKeeps ==
  ASSUME IInv, NEW t \in Ticks, NEW k, IsTick(k), tick' = [tick EXCEPT ![t] = k],
         UNCHANGED <<row, replays>>, aborts' \in 0..MaxAborts,
         handled \subseteq handled', handled' \subseteq Handled,
         stranded \subseteq stranded', stranded' \subseteq Events,
         \A e \in DOMAIN k.copies : k.copies[e] <= row[e].attempts,
         k.at = "idle" \/ tick[t].at # "idle"
           \/ \A u \in Ticks : ProcessOf[u] = ProcessOf[t] => tick[u].at = "idle",
         k.at = "mark" => k.event \in DOMAIN k.copies,
         k.at = "mark" /\ k.outcome = "succeeded" => k.event \in handled',
         \A e \in Held(t) : row[e].status = "claimed" => Dispatches(k, e) \/ e \in stranded'
  PROVE  IInv'
<1>1. row' \in [Events -> [status : Status, attempts : Nat, due : BOOLEAN]]
    BY DEF IInv, TypeOK
<1>2. \A e \in Events : row[e].attempts <= row'[e].attempts
    BY DEF IInv, TypeOK
<1>3. \A e \in Events : row'[e].status = "claimed" =>
        \/ Dispatches(k, e) \/ e \in stranded'
        \/ \E u \in Ticks : u # t /\ e \in Held(u)
    BY DEF IInv, ClaimedIsHeld
<1>4. DeadWasExhausted' /\ DeliveredWasHandled' /\ AttemptsRequested'
    BY DEF IInv, DeadWasExhausted, DeliveredWasHandled, AttemptsRequested
<1> QED
    BY <1>1, <1>2, <1>3, <1>4, TickStepKeeps

\* A snapshot is taken by a process that is draining nothing.
LEMMA SelectKeeps == ASSUME IInv, NEW t \in Ticks, Select(t) PROVE IInv'
<1>1. PICK b \in Batches : tick' = [tick EXCEPT ![t] = [at |-> "claim", copies |-> Copies(b),
                                      event |-> NoEvent, outcome |-> "none"]]
    BY DEF Select
<1> DEFINE k == [at |-> "claim", copies |-> Copies(b), event |-> NoEvent, outcome |-> "none"]
<1>2. /\ DOMAIN Copies(b) \subseteq Events /\ Copies(b) \in [DOMAIN Copies(b) -> Nat]
      /\ \A e \in DOMAIN Copies(b) : Copies(b)[e] = row[e].attempts /\ row[e].attempts \in Nat
    BY BatchCopied DEF IInv, TypeOK
<1>3. IsTick(k) /\ k.at = "claim" /\ k.copies = Copies(b)
    BY <1>2 DEF IsTick
<1>4. Held(t) = {}
    BY DEF Select, Held
<1>5. \A u \in Ticks : ProcessOf[u] = ProcessOf[t] => tick[u].at = "idle"
    BY DEF Select
<1>6. UNCHANGED <<row, handled, stranded, replays, aborts>>
    BY DEF Select
<1>7. aborts \in 0..MaxAborts /\ handled \subseteq Handled /\ stranded \subseteq Events
    BY DEF IInv, TypeOK
<1>8. \A e \in DOMAIN k.copies : k.copies[e] <= row[e].attempts
    BY <1>2
<1> HIDE DEF k
<1>9. tick' = [tick EXCEPT ![t] = k]
    BY <1>1 DEF k
<1> QED
    BY <1>3, <1>4, <1>5, <1>6, <1>7, <1>8, <1>9, QuietStepKeeps

\* A claim that fell back holds rows it has not claimed.
LEMMA ClaimFallsBackKeeps == ASSUME IInv, NEW t \in Ticks, ClaimFallsBack(t) PROVE IInv'
<1>1. PICK b \in Batches : tick' = [tick EXCEPT ![t] = Holding(Copies(b))]
    BY DEF ClaimFallsBack
<1> DEFINE k == Holding(Copies(b))
<1>2. /\ DOMAIN Copies(b) \subseteq Events /\ Copies(b) \in [DOMAIN Copies(b) -> Nat]
      /\ \A e \in DOMAIN Copies(b) : Copies(b)[e] = row[e].attempts /\ row[e].attempts \in Nat
    BY BatchCopied DEF IInv, TypeOK
<1>3. /\ IsTick(k) /\ k.at # "mark"
      /\ \A e \in DOMAIN k.copies : k.copies[e] <= row[e].attempts
    BY <1>2, HoldingIsTick
<1>4. Held(t) = {} /\ tick[t].at # "idle"
    BY DEF ClaimFallsBack, Held
<1>5. UNCHANGED <<row, handled, stranded, replays, aborts>>
    BY DEF ClaimFallsBack
<1>6. aborts \in 0..MaxAborts /\ handled \subseteq Handled /\ stranded \subseteq Events
    BY DEF IInv, TypeOK
<1> HIDE DEF k
<1>7. tick' = [tick EXCEPT ![t] = k]
    BY <1>1 DEF k
<1> QED
    BY <1>3, <1>4, <1>5, <1>6, <1>7, QuietStepKeeps

\* The handler runs on a copy and touches no row.
LEMMA DispatchKeeps == ASSUME IInv, NEW t \in Ticks, Dispatch(t) PROVE IInv'
<1>1. PICK e \in DOMAIN tick[t].copies, outcome \in {"succeeded", "failed"} :
        /\ outcome = "succeeded" => e \in Handled
        /\ tick' = [tick EXCEPT ![t] = [at |-> "mark", copies |-> tick[t].copies,
                                        event |-> e, outcome |-> outcome]]
        /\ handled' = IF outcome = "succeeded" THEN handled \cup {e} ELSE handled
    BY DEF Dispatch
<1> DEFINE k == [at |-> "mark", copies |-> tick[t].copies, event |-> e, outcome |-> outcome]
<1>2. tick[t].at = "dispatch" /\ UNCHANGED <<row, stranded, replays, aborts>>
    BY DEF Dispatch
<1>3. IsTick(k) /\ k.at = "mark" /\ k.copies = tick[t].copies
    BY DEF IInv, TypeOK, IsTick
<1>4. \A d \in DOMAIN k.copies : k.copies[d] <= row[d].attempts
    BY DEF IInv, CopiesLag
<1>5. \A d \in Held(t) : Dispatches(k, d)
    BY <1>2 DEF Held, Dispatches
<1>6. /\ k.event \in DOMAIN k.copies
      /\ k.outcome = "succeeded" => k.event \in handled'
    BY <1>1
<1>7. handled \subseteq handled' /\ handled' \subseteq Handled
    BY <1>1 DEF IInv, TypeOK
<1>8. aborts \in 0..MaxAborts /\ stranded \subseteq Events
    BY DEF IInv, TypeOK
<1>9. tick' = [tick EXCEPT ![t] = k]
    BY <1>1
<1> HIDE DEF k
<1> QED
    BY <1>2, <1>3, <1>4, <1>5, <1>6, <1>7, <1>8, <1>9, QuietStepKeeps

\* A tick that is cut short leaves the rows it has claimed stranded.
LEMMA AbortKeeps == ASSUME IInv, NEW t \in Ticks, Abort(t) PROVE IInv'
<1>1. /\ tick' = [tick EXCEPT ![t] = IdleTick]
      /\ UNCHANGED <<row, handled, replays>>
      /\ aborts < MaxAborts /\ aborts' = aborts + 1
      /\ stranded' = IF tick[t].at = "claim" THEN stranded
                     ELSE stranded \cup {e \in DOMAIN tick[t].copies : row[e].status = "claimed"}
    BY DEF Abort
<1>2. IsTick(IdleTick) /\ IdleTick.at = "idle" /\ DOMAIN IdleTick.copies = {}
    BY DEF IsTick, IdleTick, NoCopies
<1>3. aborts' \in 0..MaxAborts
    BY <1>1, DispatcherAssumption DEF IInv, TypeOK
<1>4. IsTick(tick[t]) /\ handled \subseteq Handled /\ stranded \subseteq Events
    BY DEF IInv, TypeOK
<1>5. stranded \subseteq stranded' /\ stranded' \subseteq Events
    BY <1>1, <1>4 DEF IsTick
<1>6. \A e \in Held(t) : row[e].status = "claimed" => e \in stranded'
    BY <1>1 DEF Held
<1> QED
    BY <1>1, <1>2, <1>3, <1>4, <1>5, <1>6, QuietStepKeeps

\* Only rows that are still pending are claimed, each once.
LEMMA ClaimKeeps == ASSUME IInv, NEW t \in Ticks, Claim(t) PROVE IInv'
<1> DEFINE es == DOMAIN tick[t].copies
           mine == {e \in es : row[e].status = "pending"}
           c == [e \in es |-> IF e \in mine THEN row[e].attempts + 1 ELSE tick[t].copies[e]]
           k == Holding(c)
<1>1. /\ tick[t].at = "claim"
      /\ row' = [e \in Events |->
                   IF e \in mine THEN [row[e] EXCEPT !.status = "claimed", !.attempts = @ + 1]
                   ELSE row[e]]
      /\ tick' = [tick EXCEPT ![t] = k]
      /\ stranded' = stranded \ mine
      /\ UNCHANGED <<handled, replays, aborts>>
    BY DEF Claim
<1>2. IsTick(tick[t]) /\ row \in [Events -> [status : Status, attempts : Nat, due : BOOLEAN]]
    BY DEF IInv, TypeOK
<1>3. es \subseteq Events /\ \A e \in es : tick[t].copies[e] \in Nat
    BY <1>2 DEF IsTick
<1>4. DOMAIN c = es /\ c \in [DOMAIN c -> Nat]
    BY <1>2, <1>3
<1>5. \A e \in Events :
        /\ e \in mine => /\ row'[e].status = "claimed" /\ row'[e].attempts = row[e].attempts + 1
                         /\ row[e].status = "pending"
        /\ e \notin mine => row'[e] = row[e]
        /\ row[e].attempts \in Nat
    BY <1>1, <1>2
<1>6. /\ IsTick(k) /\ k.at \in {"idle", "dispatch"} /\ DOMAIN k.copies = es
      /\ \A e \in es : k.copies[e] = c[e]
      /\ k.at = "idle" => es = {}
  <2> HIDE DEF c, es, mine
  <2> QED
      BY <1>3, <1>4, HoldingIsTick
<1>7. row' \in [Events -> [status : Status, attempts : Nat, due : BOOLEAN]]
  <2>1. ASSUME NEW r \in [status : Status, attempts : Nat, due : BOOLEAN]
        PROVE  [r EXCEPT !.status = "claimed", !.attempts = @ + 1]
                 \in [status : Status, attempts : Nat, due : BOOLEAN]
    <3>1. r.attempts + 1 \in Nat /\ "claimed" \in Status
        BY DEF Status
    <3>2. ASSUME NEW n \in Nat, NEW s \in Status
          PROVE  [r EXCEPT !.status = s, !.attempts = n]
                   \in [status : Status, attempts : Nat, due : BOOLEAN]
        OBVIOUS
    <3> QED
        BY <3>1, <3>2
  <2>2. \A e \in Events : row[e] \in [status : Status, attempts : Nat, due : BOOLEAN]
      BY <1>2
  <2>3. \A e \in Events : row'[e] \in [status : Status, attempts : Nat, due : BOOLEAN]
    <3> HIDE DEF mine
    <3> QED
        BY <1>1, <2>1, <2>2
  <2> QED
      BY <1>1, <2>3
<1>8. \A e \in Events : row[e].attempts <= row'[e].attempts
    BY <1>5
<1>9. \A e \in DOMAIN k.copies : k.copies[e] <= row'[e].attempts
  <2> SUFFICES ASSUME NEW e \in es PROVE c[e] <= row'[e].attempts
      BY <1>6
  <2>1. CASE e \in mine
      BY <2>1, <1>3, <1>5
  <2>2. CASE e \notin mine
      BY <2>2, <1>3, <1>5 DEF IInv, CopiesLag
  <2> QED
      BY <2>1, <2>2
<1>10. \A e \in Events : row'[e].status = "claimed" =>
         \/ Dispatches(k, e) \/ e \in stranded'
         \/ \E u \in Ticks : u # t /\ e \in Held(u)
  <2> SUFFICES ASSUME NEW e \in Events, row'[e].status = "claimed", e \notin mine
               PROVE  e \in stranded' \/ \E u \in Ticks : u # t /\ e \in Held(u)
    <3> HIDE DEF k
    <3> QED
      BY <1>6 DEF Dispatches
  <2>1. e \in stranded \/ \E u \in Ticks : e \in Held(u)
      BY <1>5 DEF IInv, ClaimedIsHeld
  <2>2. Held(t) = {}
      BY <1>1 DEF Held
  <2> QED
      BY <1>1, <2>1, <2>2
<1>11. DeadWasExhausted' /\ DeliveredWasHandled'
    BY <1>1, <1>5 DEF IInv, DeadWasExhausted, DeliveredWasHandled
<1>12. AttemptsRequested'
  <2> SUFFICES ASSUME NEW e \in Events
               PROVE  /\ row'[e].status = "absent" => row'[e].attempts = 0
                      /\ row'[e].status = "pending" => row'[e].attempts <= replays[e]
                      /\ row'[e].attempts <= replays[e] + 1
      BY <1>1 DEF AttemptsRequested
  <2>1. replays[e] \in Nat
      BY DEF IInv, TypeOK
  <2>2. CASE e \in mine
      BY <1>5, <2>1, <2>2 DEF IInv, AttemptsRequested
  <2>3. CASE e \notin mine
      BY <1>5, <2>3 DEF IInv, AttemptsRequested
  <2> QED
      BY <2>2, <2>3
<1>13. /\ aborts \in 0..MaxAborts /\ handled \subseteq Handled
       /\ stranded' \subseteq Events
    BY <1>1 DEF IInv, TypeOK
<1> HIDE DEF k
<1> QED
    BY <1>1, <1>6, <1>7, <1>8, <1>9, <1>10, <1>11, <1>12, <1>13, TickStepKeeps

\* What is left of the batch of tick t.
Rest(t) == Holding(Restrict(tick[t].copies, DOMAIN tick[t].copies \ {tick[t].event}))

\* Going on with the rest of the batch keeps its copies.
LEMMA RestOfBatch ==
  ASSUME TypeOK, NEW t \in Ticks
  PROVE  /\ IsTick(Rest(t)) /\ Rest(t).at # "mark"
         /\ \A e \in DOMAIN Rest(t).copies :
              e \in DOMAIN tick[t].copies /\ Rest(t).copies[e] = tick[t].copies[e]
         /\ \A e \in DOMAIN tick[t].copies : e # tick[t].event => Dispatches(Rest(t), e)
<1> DEFINE rest == DOMAIN tick[t].copies \ {tick[t].event}
           c == [e \in rest |-> tick[t].copies[e]]
<1>1. Rest(t) = Holding(c)
    BY DEF Rest, Restrict
<1>2. IsTick(tick[t])
    BY DEF TypeOK
<1>3. DOMAIN c = rest /\ rest \subseteq Events /\ c \in [DOMAIN c -> Nat]
    BY <1>2 DEF IsTick
<1>4. /\ IsTick(Rest(t)) /\ Rest(t).at \in {"idle", "dispatch"}
      /\ DOMAIN Rest(t).copies = rest /\ \A e \in rest : Rest(t).copies[e] = c[e]
      /\ Rest(t).at = "idle" => rest = {}
  <2> HIDE DEF c, rest
  <2> QED
      BY <1>1, <1>3, HoldingIsTick
<1> QED
    BY <1>4 DEF Dispatches

\* What suffices of a step that settles the event of tick t.
LEMMA SettleKeeps ==
  ASSUME IInv, NEW t \in Ticks, tick[t].at = "mark", Advance(t),
         NEW new \in [status : Settled, attempts : Nat, due : BOOLEAN],
         row' = [row EXCEPT ![tick[t].event] = new],
         new.attempts = row[tick[t].event].attempts,
         new.status = "dead" => new.attempts >= MaxAttempts,
         new.status = "delivered" => tick[t].event \in handled,
         UNCHANGED <<handled, stranded, replays, aborts>>
  PROVE  IInv'
<1> DEFINE d == tick[t].event
           k == Rest(t)
<1>1. d \in Events
    BY DEF IInv, TypeOK, IsTick
<1>2. tick' = [tick EXCEPT ![t] = k]
    BY DEF Advance, Rest
<1> HIDE DEF d, k
<1>3. /\ IsTick(k) /\ k.at # "mark"
      /\ \A e \in DOMAIN k.copies :
           e \in DOMAIN tick[t].copies /\ k.copies[e] = tick[t].copies[e]
      /\ \A e \in DOMAIN tick[t].copies : e # d => Dispatches(k, e)
    BY RestOfBatch DEF IInv, d, k
<1>4. row \in [Events -> [status : Status, attempts : Nat, due : BOOLEAN]]
    BY DEF IInv, TypeOK
<1>5. row'[d] = new /\ new.attempts = row[d].attempts /\ \A e \in Events : e # d => row'[e] = row[e]
    BY <1>1, <1>4 DEF d
<1>6. new.status \in Settled /\ new \in [status : Status, attempts : Nat, due : BOOLEAN]
    BY DEF Settled, Status
<1>7. row' \in [Events -> [status : Status, attempts : Nat, due : BOOLEAN]]
    BY <1>4, <1>6
<1>8. \A e \in Events : row'[e].attempts = row[e].attempts /\ row[e].attempts \in Nat
    BY <1>4, <1>5
<1>0. \A e \in Events : row[e].attempts <= row'[e].attempts
    BY <1>8
<1>9. \A e \in DOMAIN k.copies : k.copies[e] <= row'[e].attempts
  <2>1. DOMAIN tick[t].copies \subseteq Events
      BY DEF IInv, TypeOK, IsTick
  <2> QED
      BY <1>3, <1>8, <2>1 DEF IInv, CopiesLag
<1>10. \A e \in Events : row'[e].status = "claimed" =>
         \/ Dispatches(k, e) \/ e \in stranded'
         \/ \E u \in Ticks : u # t /\ e \in Held(u)
  <2> SUFFICES ASSUME NEW e \in Events, row'[e].status = "claimed"
               PROVE  \/ Dispatches(k, e) \/ e \in stranded
                      \/ \E u \in Ticks : u # t /\ e \in Held(u)
      OBVIOUS
  <2>1. e # d /\ row[e].status = "claimed"
      BY <1>5, <1>6 DEF Settled
  <2>2. e \in stranded \/ \E u \in Ticks : e \in Held(u)
      BY <2>1 DEF IInv, ClaimedIsHeld
  <2> QED
      BY <1>3, <2>1, <2>2 DEF Held
<1>11. DeadWasExhausted'
    BY <1>5 DEF IInv, DeadWasExhausted
<1>12. DeliveredWasHandled'
    BY <1>5 DEF IInv, DeliveredWasHandled, d
<1>13. AttemptsRequested'
    BY <1>5, <1>6, <1>8 DEF IInv, AttemptsRequested, Settled
<1>14. aborts \in 0..MaxAborts /\ handled \subseteq Handled /\ stranded \subseteq Events
    BY DEF IInv, TypeOK
<1> QED
    BY <1>0, <1>2, <1>3, <1>7, <1>9, <1>10, <1>11, <1>12, <1>13, <1>14, TickStepKeeps

\* Only the event whose handler succeeded becomes delivered.
LEMMA MarkDeliveredKeeps == ASSUME IInv, NEW t \in Ticks, MarkDelivered(t) PROVE IInv'
<1> DEFINE d == tick[t].event
           new == [row[d] EXCEPT !.status = "delivered"]
<1>1. tick[t].at = "mark" /\ tick[t].outcome = "succeeded"
    BY DEF MarkDelivered
<1>2. d \in Events /\ d \in handled
    BY <1>1 DEF IInv, TypeOK, IsTick, SuccessWasHandled
<1>3. /\ row \in [Events -> [status : Status, attempts : Nat, due : BOOLEAN]]
      /\ row[d] \in [status : Status, attempts : Nat, due : BOOLEAN]
    BY <1>2 DEF IInv, TypeOK
<1>4. /\ new \in [status : Settled, attempts : Nat, due : BOOLEAN]
      /\ new.attempts = row[d].attempts /\ new.status = "delivered"
    BY <1>3 DEF Settled
<1>5. row' = [row EXCEPT ![d] = new]
    BY <1>3 DEF MarkDelivered
<1>6. Advance(t) /\ UNCHANGED <<handled, stranded, replays, aborts>>
    BY DEF MarkDelivered
<1> HIDE DEF new
<1> QED
    BY <1>1, <1>2, <1>4, <1>5, <1>6, SettleKeeps

\* A dead row was claimed at least as often as the copy that condemned it says.
LEMMA MarkFailedKeeps == ASSUME IInv, NEW t \in Ticks, MarkFailed(t) PROVE IInv'
<1> DEFINE d == tick[t].event
           dead == Exhausted(tick[t].copies[d])
           new == [row[d] EXCEPT !.status = IF dead THEN "dead" ELSE "failed", !.due = dead]
<1>1. tick[t].at = "mark"
    BY DEF MarkFailed
<1>2. d \in Events
    BY <1>1 DEF IInv, TypeOK, IsTick
<1>3. /\ row \in [Events -> [status : Status, attempts : Nat, due : BOOLEAN]]
      /\ row[d] \in [status : Status, attempts : Nat, due : BOOLEAN]
    BY <1>2 DEF IInv, TypeOK
<1>4. dead \in BOOLEAN
    BY DEF Exhausted
<1>5. /\ new \in [status : Settled, attempts : Nat, due : BOOLEAN]
      /\ new.attempts = row[d].attempts /\ new.status # "delivered"
      /\ new.status = "dead" => dead
    BY <1>3, <1>4 DEF Settled
<1>6. row' = [row EXCEPT ![d] = new]
    BY <1>3 DEF MarkFailed
<1>7. Advance(t) /\ UNCHANGED <<handled, stranded, replays, aborts>>
    BY DEF MarkFailed
<1>8. dead => row[d].attempts >= MaxAttempts
  <2>1. d \in DOMAIN tick[t].copies
      BY <1>1 DEF IInv, EventIsHeld
  <2> QED
      BY <2>1, <1>3, DispatcherAssumption DEF IInv, TypeOK, IsTick, CopiesLag, Exhausted
<1> HIDE DEF new
<1> QED
    BY <1>1, <1>5, <1>6, <1>7, <1>8, SettleKeeps

\* A success that is taken for a failure may already be in the row.
LEMMA MarkDeliveredThrowsKeeps ==
  ASSUME IInv, NEW t \in Ticks, MarkDeliveredThrows(t) PROVE IInv'
<1> DEFINE d == tick[t].event
           k == [at |-> "mark", copies |-> tick[t].copies, event |-> d, outcome |-> "failed"]
<1>1. /\ tick[t].at = "mark" /\ tick[t].outcome = "succeeded"
      /\ tick' = [tick EXCEPT ![t].outcome = "failed"]
      /\ UNCHANGED <<handled, stranded, replays, aborts>>
    BY DEF MarkDeliveredThrows
<1>2. /\ IsTick(tick[t])
      /\ row \in [Events -> [status : Status, attempts : Nat, due : BOOLEAN]]
    BY DEF IInv, TypeOK
<1>3. d \in Events /\ d \in handled /\ d \in DOMAIN tick[t].copies
    BY <1>1, <1>2 DEF IInv, IsTick, SuccessWasHandled, EventIsHeld
<1>4. /\ IsTick(k) /\ k.at = "mark" /\ k.copies = tick[t].copies
      /\ k.event = d /\ k.outcome = "failed"
    BY <1>2, <1>3 DEF IsTick
<1>5. tick' = [tick EXCEPT ![t] = k]
  <2>1. tick[t] = [at |-> "mark", copies |-> tick[t].copies, event |-> d, outcome |-> "succeeded"]
      BY <1>1, <1>2 DEF IsTick
  <2>2. ASSUME NEW cs, NEW e, NEW c,
               c = [at |-> "mark", copies |-> cs, event |-> e, outcome |-> "succeeded"]
        PROVE  [c EXCEPT !.outcome = "failed"]
                 = [at |-> "mark", copies |-> cs, event |-> e, outcome |-> "failed"]
      BY <2>2
  <2>3. k = [tick[t] EXCEPT !.outcome = "failed"]
      BY <2>1, <2>2
  <2>4. tick' = [tick EXCEPT ![t] = [tick[t] EXCEPT !.outcome = "failed"]]
      BY <1>1
  <2> QED
      BY <2>3, <2>4
<1> HIDE DEF k
<1>6. \A e \in Events :
        /\ row'[e] \in [status : Status, attempts : Nat, due : BOOLEAN]
        /\ row'[e].attempts = row[e].attempts /\ row[e].attempts \in Nat
        /\ (row'[e].status = row[e].status \/ (e = d /\ row'[e].status = "delivered"))
  <2>1. CASE row' = row
      BY <1>2, <2>1
  <2>2. CASE row' = [row EXCEPT ![d].status = "delivered"]
    <3>1. PICK r \in [status : Status, attempts : Nat, due : BOOLEAN] : r = row[d]
        BY <1>2, <1>3
    <3> DEFINE new == [r EXCEPT !.status = "delivered"]
    <3>2. /\ new \in [status : Status, attempts : Nat, due : BOOLEAN]
          /\ new.attempts = r.attempts /\ new.status = "delivered"
      <4>1. "delivered" \in Status
          BY DEF Status
      <4> QED
          BY <4>1
    <3>3. row' = [row EXCEPT ![d] = new]
        BY <2>2, <3>1
    <3> HIDE DEF d, new
    <3> QED
        BY <1>2, <1>3, <3>1, <3>2, <3>3
  <2> QED
      BY <2>1, <2>2 DEF MarkDeliveredThrows
<1>7. row' \in [Events -> [status : Status, attempts : Nat, due : BOOLEAN]]
  <2>1. row' = row \/ row' = [row EXCEPT ![d].status = "delivered"]
      BY DEF MarkDeliveredThrows
  <2>2. row' = [e \in Events |-> row'[e]]
      BY <1>2, <2>1
  <2> QED
      BY <1>6, <2>2
<1>8. \A e \in Events : row[e].attempts <= row'[e].attempts
    BY <1>6
<1>9. \A e \in DOMAIN k.copies : k.copies[e] <= row'[e].attempts
    BY <1>2, <1>4, <1>6 DEF IInv, CopiesLag, IsTick
<1>10. \A e \in Events : row'[e].status = "claimed" =>
         \/ Dispatches(k, e) \/ e \in stranded'
         \/ \E u \in Ticks : u # t /\ e \in Held(u)
  <2> SUFFICES ASSUME NEW e \in Events, row'[e].status = "claimed"
               PROVE  \/ Dispatches(k, e) \/ e \in stranded'
                      \/ \E u \in Ticks : u # t /\ e \in Held(u)
      OBVIOUS
  <2>1. e \in stranded \/ \E u \in Ticks : e \in Held(u)
      BY <1>6 DEF IInv, ClaimedIsHeld
  <2> QED
      BY <1>1, <1>4, <2>1 DEF Held, Dispatches
<1>11. DeadWasExhausted' /\ DeliveredWasHandled'
    BY <1>1, <1>3, <1>6 DEF IInv, DeadWasExhausted, DeliveredWasHandled
<1>12. AttemptsRequested'
    BY <1>1, <1>6 DEF IInv, AttemptsRequested
<1>13. aborts \in 0..MaxAborts /\ handled \subseteq Handled /\ stranded \subseteq Events
    BY DEF IInv, TypeOK
<1>14. k.event \in DOMAIN k.copies
    BY <1>3, <1>4
<1> QED
    BY <1>1, <1>4, <1>5, <1>7, <1>8, <1>9, <1>10, <1>11, <1>12, <1>13, <1>14, TickStepKeeps

-----------------------------------------------------------------------------
(* Steps of a row                                                          *)

\* What suffices of a step outside the dispatcher that writes row d.
LEMMA RowStepKeeps ==
  ASSUME IInv, NEW d \in Events,
         NEW new \in [status : Status, attempts : Nat, due : BOOLEAN],
         row' = [row EXCEPT ![d] = new], new.attempts = row[d].attempts,
         new.status = row[d].status \/ new.status = "pending",
         replays' \in [Events -> Nat], \A e \in Events : replays[e] <= replays'[e],
         new.status = "pending" => new.attempts <= replays'[d],
         UNCHANGED <<tick, handled, stranded, aborts>>
  PROVE  IInv'
<1>1. row \in [Events -> [status : Status, attempts : Nat, due : BOOLEAN]]
    BY DEF IInv, TypeOK
<1>2. /\ row'[d] = new
      /\ \A e \in Events : e # d => row'[e] = row[e]
      /\ \A e \in Events : row'[e].attempts = row[e].attempts /\ row[e].attempts \in Nat
    BY <1>1
<1>3. TypeOK'
    BY <1>1 DEF IInv, TypeOK
<1>4. CopiesLag'
  <2>1. \A t \in Ticks : DOMAIN tick[t].copies \subseteq Events
      BY DEF IInv, TypeOK, IsTick
  <2> QED
      BY <1>2, <2>1 DEF IInv, CopiesLag
<1>5. (EventIsHeld /\ OneTickDrains /\ SuccessWasHandled)'
    BY DEF IInv, EventIsHeld, OneTickDrains, SuccessWasHandled
<1>6. ClaimedIsHeld'
    BY <1>2 DEF IInv, ClaimedIsHeld, Held
<1>7. (DeadWasExhausted /\ DeliveredWasHandled)'
    BY <1>2 DEF IInv, DeadWasExhausted, DeliveredWasHandled
<1>8. AttemptsRequested'
  <2> SUFFICES ASSUME NEW e \in Events
               PROVE  /\ row'[e].status = "absent" => row'[e].attempts = 0
                      /\ row'[e].status = "pending" => row'[e].attempts <= replays'[e]
                      /\ row'[e].attempts <= replays'[e] + 1
      BY DEF AttemptsRequested
  <2>1. replays[e] \in Nat /\ replays'[e] \in Nat /\ replays[e] <= replays'[e]
      BY DEF IInv, TypeOK
  <2> QED
      BY <1>2, <2>1 DEF IInv, AttemptsRequested
<1> QED
    BY <1>3, <1>4, <1>5, <1>6, <1>7, <1>8 DEF IInv

\* An event enters the outbox as pending and unclaimed.
LEMMA PublishKeeps == ASSUME IInv, NEW e \in Events, Publish(e) PROVE IInv'
<1> DEFINE new == [row[e] EXCEPT !.status = "pending"]
<1>1. PICK r \in [status : Status, attempts : Nat, due : BOOLEAN] : r = row[e]
    BY DEF IInv, TypeOK
<1>2. /\ new \in [status : Status, attempts : Nat, due : BOOLEAN]
      /\ new.attempts = row[e].attempts /\ new.status = "pending"
  <2>1. "pending" \in Status
      BY DEF Status
  <2>2. /\ [r EXCEPT !.status = "pending"] \in [status : Status, attempts : Nat, due : BOOLEAN]
        /\ [r EXCEPT !.status = "pending"].attempts = r.attempts
        /\ [r EXCEPT !.status = "pending"].status = "pending"
      BY <2>1
  <2> QED
      BY <1>1, <2>2
<1>3. row' = [row EXCEPT ![e] = new] /\ UNCHANGED <<tick, handled, stranded, replays, aborts>>
    BY DEF Publish, IInv, TypeOK
<1>4. replays \in [Events -> Nat] /\ \A d \in Events : replays[d] <= replays[d]
    BY DEF IInv, TypeOK
<1>5. new.attempts <= replays[e]
    BY <1>2, <1>4 DEF Publish, IInv, AttemptsRequested
<1> HIDE DEF new
<1> QED
    BY <1>2, <1>3, <1>4, <1>5, RowStepKeeps

\* The back-off ends without touching status or attempts.
LEMMA ElapseKeeps == ASSUME IInv, NEW e \in Events, Elapse(e) PROVE IInv'
<1> DEFINE new == [row[e] EXCEPT !.due = TRUE]
<1>1. PICK r \in [status : Status, attempts : Nat, due : BOOLEAN] : r = row[e]
    BY DEF IInv, TypeOK
<1>2. /\ new \in [status : Status, attempts : Nat, due : BOOLEAN]
      /\ new.attempts = row[e].attempts /\ new.status = row[e].status
  <2>1. /\ [r EXCEPT !.due = TRUE] \in [status : Status, attempts : Nat, due : BOOLEAN]
        /\ [r EXCEPT !.due = TRUE].attempts = r.attempts
        /\ [r EXCEPT !.due = TRUE].status = r.status
      OBVIOUS
  <2> QED
      BY <1>1, <2>1
<1>3. row' = [row EXCEPT ![e] = new] /\ UNCHANGED <<tick, handled, stranded, replays, aborts>>
    BY DEF Elapse, IInv, TypeOK
<1>4. replays \in [Events -> Nat] /\ \A d \in Events : replays[d] <= replays[d]
    BY DEF IInv, TypeOK
<1>5. new.status = "pending" => new.attempts <= replays[e]
    BY <1>2 DEF IInv, AttemptsRequested
<1> HIDE DEF new
<1> QED
    BY <1>2, <1>3, <1>4, <1>5, RowStepKeeps

\* A replay asks for one attempt more.
LEMMA ReplayKeeps == ASSUME IInv, NEW e \in Events, Replay(e) PROVE IInv'
<1> DEFINE new == [row[e] EXCEPT !.status = "pending", !.due = TRUE]
<1>1. PICK r \in [status : Status, attempts : Nat, due : BOOLEAN] : r = row[e]
    BY DEF IInv, TypeOK
<1>2. /\ new \in [status : Status, attempts : Nat, due : BOOLEAN]
      /\ new.attempts = row[e].attempts /\ new.status = "pending"
  <2>1. "pending" \in Status
      BY DEF Status
  <2> DEFINE s == [r EXCEPT !.status = "pending", !.due = TRUE]
  <2>2. /\ s \in [status : Status, attempts : Nat, due : BOOLEAN]
        /\ s.attempts = r.attempts /\ s.status = "pending"
      BY <2>1
  <2> QED
      BY <1>1, <2>2
<1>3. /\ row' = [row EXCEPT ![e] = new] /\ replays' = [replays EXCEPT ![e] = @ + 1]
      /\ UNCHANGED <<tick, handled, stranded, aborts>>
    BY DEF Replay, IInv, TypeOK
<1>4. replays' \in [Events -> Nat] /\ \A d \in Events : replays[d] <= replays'[d]
    BY <1>3 DEF IInv, TypeOK
<1>5. new.attempts <= replays'[e]
  <2>1. replays \in [Events -> Nat] /\ replays'[e] = replays[e] + 1
      BY <1>3 DEF IInv, TypeOK
  <2> QED
      BY <1>2, <2>1 DEF IInv, AttemptsRequested
<1> HIDE DEF new
<1> QED
    BY <1>2, <1>3, <1>4, <1>5, RowStepKeeps

-----------------------------------------------------------------------------
(* The theorems                                                            *)

\* Nothing the dispatchers, publishers and operators do breaks the invariant.
LEMMA NextKeeps == IInv /\ [Next]_vars => IInv'
<1> SUFFICES ASSUME IInv, [Next]_vars PROVE IInv'
    OBVIOUS
<1>1. ASSUME NEW t \in Ticks, Step(t) PROVE IInv'
    BY <1>1, SelectKeeps, ClaimKeeps, ClaimFallsBackKeeps, DispatchKeeps, MarkDeliveredKeeps,
       MarkDeliveredThrowsKeeps, MarkFailedKeeps DEF Step
<1>2. ASSUME NEW e \in Events, Publish(e) \/ Elapse(e) \/ Replay(e) PROVE IInv'
    BY <1>2, PublishKeeps, ElapseKeeps, ReplayKeeps
<1>3. CASE UNCHANGED vars
    BY <1>3 DEF vars, IInv, TypeOK, CopiesLag, EventIsHeld, DeadWasExhausted, AttemptsRequested,
                ClaimedIsHeld, Held, OneTickDrains, SuccessWasHandled, DeliveredWasHandled
<1> QED
    BY <1>1, <1>2, <1>3, AbortKeeps DEF Next

\* The inductive invariant holds in every reachable state.
THEOREM InvariantHolds == Spec => []IInv
<1>1. Init => IInv
    BY InitEstablishes
<1>2. IInv /\ [Next]_vars => IInv'
    BY NextKeeps
<1> QED
    BY <1>1, <1>2, PTL DEF Spec

\* Every variable keeps its type.
THEOREM TypesHold == Spec => []TypeOK
<1>1. IInv => TypeOK
    BY DEF IInv
<1> QED
    BY <1>1, InvariantHolds, PTL

\* Rows go to the dead letters only after as many claims as configured.
THEOREM DeadAlwaysExhausted == Spec => []DeadWasExhausted
<1>1. IInv => DeadWasExhausted
    BY DEF IInv
<1> QED
    BY <1>1, InvariantHolds, PTL

\* No row is reported delivered without a handler that succeeded.
THEOREM DeliveredAlwaysHandled == Spec => []DeliveredWasHandled
<1>1. IInv => DeliveredWasHandled
    BY DEF IInv
<1> QED
    BY <1>1, InvariantHolds, PTL

\* A claimed row is never forgotten, short of an abort.
THEOREM ClaimedAlwaysHeld == Spec => []ClaimedIsHeld
<1>1. IInv => ClaimedIsHeld
    BY DEF IInv
<1> QED
    BY <1>1, InvariantHolds, PTL

\* However many replicas compete, one request for an event is one claim at most.
THEOREM AttemptsAlwaysRequested == Spec => []OneAttemptPerRequest
<1>1. IInv => OneAttemptPerRequest
    BY DEF IInv, AttemptsRequested, OneAttemptPerRequest
<1> QED
    BY <1>1, InvariantHolds, PTL

\* The ticks of one process never overlap on an event.
THEOREM ProcessAlwaysHoldsOnce == Spec => []ProcessHoldsOnce
<1>1. IInv => ProcessHoldsOnce
    BY DEF IInv, OneTickDrains, ProcessHoldsOnce, Held
<1> QED
    BY <1>1, InvariantHolds, PTL

-----------------------------------------------------------------------------
(* The dispatcher implements the queue of AtLeastOnceQueue, for any events,*)
(* replicas, batch size and number of attempts. Beyond the invariant this  *)
(* needs to know that ticks hold copies of published events only: what a   *)
(* tick handles or settles has a row.                                      *)

\* What a tick has copied was published.
CopiesPublished ==
  \A t \in Ticks : \A e \in DOMAIN tick[t].copies : row[e].status # "absent"

RowType == [status : Status, attempts : Nat, due : BOOLEAN]

-----------------------------------------------------------------------------

\* No step takes a publication back.
LEMMA PublishedStays ==
  ASSUME IInv, [Next]_vars, NEW e \in Events, row[e].status # "absent"
  PROVE  row'[e].status # "absent"
<1>1. row \in [Events -> RowType]
    BY DEF IInv, TypeOK, RowType
<1>2. ASSUME NEW t \in Ticks, Step(t) PROVE row'[e].status # "absent"
  <2>1. CASE Claim(t)
      BY <1>1, <2>1 DEF Claim, RowType
  <2>2. CASE MarkDelivered(t)
      BY <1>1, <2>2 DEF MarkDelivered
  <2>3. CASE MarkDeliveredThrows(t)
      BY <1>1, <2>3 DEF MarkDeliveredThrows, RowType
  <2>4. CASE MarkFailed(t)
      BY <1>1, <2>4 DEF MarkFailed
  <2>5. CASE Select(t) \/ ClaimFallsBack(t) \/ Dispatch(t)
      BY <2>5 DEF Select, ClaimFallsBack, Dispatch
  <2> QED
      BY <1>2, <2>1, <2>2, <2>3, <2>4, <2>5 DEF Step
<1>3. ASSUME NEW t \in Ticks, Abort(t) PROVE row'[e].status # "absent"
    BY <1>3 DEF Abort
<1>4. ASSUME NEW f \in Events, Publish(f) PROVE row'[e].status # "absent"
    BY <1>1, <1>4 DEF Publish
<1>5. ASSUME NEW f \in Events, Elapse(f) PROVE row'[e].status # "absent"
    BY <1>1, <1>5 DEF Elapse
<1>6. ASSUME NEW f \in Events, Replay(f) PROVE row'[e].status # "absent"
    BY <1>1, <1>6 DEF Replay
<1> QED
    BY <1>2, <1>3, <1>4, <1>5, <1>6 DEF Next, vars

\* What suffices of a step that moves one tick to k.
LEMMA CopiesFollow ==
  ASSUME IInv, CopiesPublished, [Next]_vars, NEW u \in Ticks, NEW k, IsTick(k),
         tick' = [tick EXCEPT ![u] = k],
         \A e \in DOMAIN k.copies : e \in DOMAIN tick[u].copies \/ e \in Candidates
  PROVE  CopiesPublished'
<1> SUFFICES ASSUME NEW t \in Ticks, NEW e \in DOMAIN tick'[t].copies
             PROVE  row'[e].status # "absent"
    BY DEF CopiesPublished
<1>1. tick'[u] = k /\ \A v \in Ticks : v # u => tick'[v] = tick[v]
    BY TickMoved DEF IInv
<1>2. e \in DOMAIN tick[t].copies \/ e \in Candidates
    BY <1>1
<1>3. IsTick(tick[t])
    BY DEF IInv, TypeOK
<1>4. e \in Events /\ row[e].status # "absent"
    BY <1>2, <1>3 DEF CopiesPublished, Candidates, IsTick
<1> QED
    BY <1>4, PublishedStays

\* A batch is made of candidates.
LEMMA BatchIsCandidates ==
  ASSUME TypeOK, NEW b \in Batches
  PROVE  /\ DOMAIN Copies(b) \subseteq Candidates /\ IsTick(Holding(Copies(b)))
         /\ DOMAIN Holding(Copies(b)).copies = DOMAIN Copies(b)
<1>1. /\ DOMAIN Copies(b) = b /\ b \subseteq Events
      /\ Copies(b) \in [DOMAIN Copies(b) -> Nat]
    BY BatchCopied
<1>2. b \subseteq Candidates
    BY DEF Batches
<1> QED
    BY <1>1, <1>2, HoldingIsTick

LEMMA PublishedCopiesKept ==
  ASSUME IInv, CopiesPublished, [Next]_vars PROVE CopiesPublished'
<1>1. \A t \in Ticks : IsTick(tick[t])
    BY DEF IInv, TypeOK
<1>2. ASSUME NEW t \in Ticks, Step(t) PROVE CopiesPublished'
  <2>1. CASE Select(t)
    <3>1. PICK b \in Batches :
            tick' = [tick EXCEPT ![t] = [at |-> "claim", copies |-> Copies(b),
                                         event |-> NoEvent, outcome |-> "none"]]
        BY <2>1 DEF Select
    <3> DEFINE k == [at |-> "claim", copies |-> Copies(b), event |-> NoEvent, outcome |-> "none"]
    <3>2. IsTick(k) /\ \A e \in DOMAIN k.copies : e \in Candidates
        BY BatchCopied, BatchIsCandidates DEF IInv, IsTick
    <3> HIDE DEF k
    <3> QED
        BY <3>1, <3>2, CopiesFollow DEF k
  <2>2. CASE Claim(t)
    <3> DEFINE c == [e \in DOMAIN tick[t].copies |->
                       IF e \in {f \in DOMAIN tick[t].copies : row[f].status = "pending"}
                       THEN row[e].attempts + 1 ELSE tick[t].copies[e]]
    <3>1. tick' = [tick EXCEPT ![t] = Holding(c)]
        BY <2>2 DEF Claim
    <3>2. DOMAIN c = DOMAIN tick[t].copies /\ DOMAIN c \subseteq Events /\ c \in [DOMAIN c -> Nat]
        BY <1>1 DEF IsTick, IInv, TypeOK
    <3> HIDE DEF c
    <3>3. IsTick(Holding(c)) /\ DOMAIN Holding(c).copies = DOMAIN tick[t].copies
        BY <3>2, HoldingIsTick
    <3> QED
        BY <3>1, <3>3, CopiesFollow
  <2>3. CASE ClaimFallsBack(t)
    <3>1. PICK b \in Batches : tick' = [tick EXCEPT ![t] = Holding(Copies(b))]
        BY <2>3 DEF ClaimFallsBack
    <3>2. IsTick(Holding(Copies(b))) /\ DOMAIN Holding(Copies(b)).copies \subseteq Candidates
        BY BatchIsCandidates DEF IInv
    <3> QED
        BY <3>1, <3>2, CopiesFollow
  <2>4. CASE Dispatch(t)
    <3>1. PICK e \in DOMAIN tick[t].copies, o \in {"succeeded", "failed"} :
            tick' = [tick EXCEPT ![t] = [at |-> "mark", copies |-> tick[t].copies,
                                         event |-> e, outcome |-> o]]
        BY <2>4 DEF Dispatch
    <3> DEFINE k == [at |-> "mark", copies |-> tick[t].copies, event |-> e, outcome |-> o]
    <3>2. IsTick(k) /\ k.copies = tick[t].copies
        BY <1>1 DEF IsTick
    <3> HIDE DEF k
    <3> QED
        BY <3>1, <3>2, CopiesFollow DEF k
  <2>5. CASE MarkDelivered(t) \/ MarkFailed(t)
    <3>1. tick' = [tick EXCEPT ![t] = Rest(t)]
        BY <2>5 DEF MarkDelivered, MarkFailed, Advance, Rest
    <3>2. IsTick(Rest(t)) /\ \A e \in DOMAIN Rest(t).copies : e \in DOMAIN tick[t].copies
        BY RestOfBatch DEF IInv
    <3> QED
        BY <3>1, <3>2, CopiesFollow
  <2>6. CASE MarkDeliveredThrows(t)
    <3> DEFINE k == [tick[t] EXCEPT !.outcome = "failed"]
    <3>1. tick' = [tick EXCEPT ![t] = k]
        BY <2>6 DEF MarkDeliveredThrows
    <3>2. /\ tick[t] = [at |-> tick[t].at, copies |-> tick[t].copies,
                         event |-> tick[t].event, outcome |-> tick[t].outcome]
          /\ tick[t].at = "mark"
        BY <1>1, <2>6 DEF IsTick, MarkDeliveredThrows
    <3>3. k = [at |-> tick[t].at, copies |-> tick[t].copies, event |-> tick[t].event,
               outcome |-> "failed"]
        BY <3>2
    <3>4. IsTick(k) /\ k.copies = tick[t].copies
        BY <1>1, <3>2, <3>3 DEF IsTick
    <3> HIDE DEF k
    <3> QED
        BY <3>1, <3>4, CopiesFollow
  <2> QED
      BY <1>2, <2>1, <2>2, <2>3, <2>4, <2>5, <2>6 DEF Step
<1>3. ASSUME NEW t \in Ticks, Abort(t) PROVE CopiesPublished'
  <2>1. IsTick(IdleTick) /\ DOMAIN IdleTick.copies = {}
      BY DEF IdleTick, IsTick, NoCopies
  <2> QED
      BY <1>3, <2>1, CopiesFollow DEF Abort
<1>4. CASE tick' = tick
  <2>1. \A t \in Ticks : DOMAIN tick[t].copies \subseteq Events
      BY <1>1 DEF IsTick
  <2> QED
      BY <1>4, <2>1, PublishedStays DEF CopiesPublished
<1>5. ASSUME NEW e \in Events, Publish(e) \/ Elapse(e) \/ Replay(e) PROVE tick' = tick
    BY <1>5 DEF Publish, Elapse, Replay
<1> QED
    BY <1>2, <1>3, <1>4, <1>5 DEF Next, vars

-----------------------------------------------------------------------------
(* Steps of the queue                                                      *)

LEMMA QueueInit == Init => Queue!Init
    BY DEF Init, Queue!Init, QueueState

\* A step that leaves every status and the successes alone is none of the queue's.
LEMMA QueueStutters ==
  ASSUME \A e \in Events : row'[e].status = row[e].status, handled' = handled
  PROVE  UNCHANGED Queue!vars
    BY DEF Queue!vars, QueueState

\* A step that gives the rows of es one status is one of the queue's.
LEMMA QueueMoves ==
  ASSUME NEW es \in SUBSET Events, NEW s,
         \A e \in es : row'[e].status = s,
         \A e \in Events \ es : row'[e].status = row[e].status
  PROVE  QueueState' = Queue!Set(es, CASE s = "pending" -> "waiting" [] s = "claimed" -> "taken"
                                       [] s = "dead" -> "failed" [] OTHER -> s)
    BY DEF QueueState, Queue!Set

LEMMA StepImplements ==
  ASSUME IInv, CopiesPublished, NEW t \in Ticks, Step(t)
  PROVE  [Queue!Next]_Queue!vars
<1>1. row \in [Events -> RowType] /\ IsTick(tick[t])
    BY DEF IInv, TypeOK, RowType
<1>2. CASE Select(t) \/ ClaimFallsBack(t)
    BY <1>2, QueueStutters DEF Select, ClaimFallsBack
<1>3. CASE Claim(t)
  <2> DEFINE mine == {e \in DOMAIN tick[t].copies : row[e].status = "pending"}
  <2>1. mine \in SUBSET Events
      BY <1>1 DEF IsTick
  <2>2. /\ \A e \in mine : row'[e].status = "claimed"
        /\ \A e \in Events \ mine : row'[e].status = row[e].status
        /\ handled' = handled
      BY <1>1, <1>3, <2>1 DEF Claim, RowType
  <2>3. \A e \in mine : QueueState[e] = "waiting"
      BY <2>1 DEF QueueState
  <2> HIDE DEF mine
  <2>4. Queue!Take(mine)
      BY <2>1, <2>2, <2>3, QueueMoves DEF Queue!Take
  <2> QED
      BY <2>1, <2>4 DEF Queue!Next
<1>4. CASE Dispatch(t)
  <2>1. PICK e \in DOMAIN tick[t].copies, o \in {"succeeded", "failed"} :
          /\ handled' = IF o = "succeeded" THEN handled \cup {e} ELSE handled
          /\ row' = row
      BY <1>4 DEF Dispatch
  <2>2. e \in Events /\ row[e].status # "absent"
      BY <1>1 DEF IsTick, CopiesPublished
  <2>3. CASE o = "succeeded"
    <3>1. QueueState[e] # "absent"
        BY <1>1, <2>2 DEF QueueState, RowType, Status
    <3>2. Queue!Handle(e)
        BY <2>1, <2>3, <3>1 DEF Queue!Handle, QueueState
    <3> QED
        BY <2>2, <3>2 DEF Queue!Next
  <2>4. CASE o = "failed"
      BY <2>1, <2>4, QueueStutters
  <2> QED
      BY <2>3, <2>4
<1>5. ASSUME tick[t].at = "mark", handled' = handled,
             NEW s \in Settled, row'[tick[t].event].status = s,
             s = "delivered" => tick[t].event \in handled,
             \A e \in Events \ {tick[t].event} : row'[e].status = row[e].status
      PROVE  [Queue!Next]_Queue!vars
  <2> DEFINE e == tick[t].event
             outcome == IF s = "delivered" THEN "delivered" ELSE "failed"
  <2>1. e \in Events /\ row[e].status # "absent"
      BY <1>1, <1>5 DEF IsTick, IInv, EventIsHeld, CopiesPublished
  <2>2. QueueState[e] # "absent"
      BY <1>1, <2>1 DEF QueueState, RowType, Status
  <2>3. QueueState' = Queue!Set({e}, outcome)
      BY <1>5, <2>1 DEF QueueState, Queue!Set, Settled
  <2>4. Queue!Settle(e, outcome)
      BY <1>5, <2>2, <2>3 DEF Queue!Settle
  <2> HIDE DEF e, outcome
  <2>5. outcome \in {"delivered", "failed"}
      BY DEF outcome
  <2> QED
      BY <2>1, <2>4, <2>5 DEF Queue!Next
<1>6. tick[t].at = "mark" => tick[t].event \in Events
    BY <1>1 DEF IsTick
<1>7. CASE MarkDelivered(t)
    BY <1>1, <1>5, <1>6, <1>7 DEF MarkDelivered, Settled, IInv, SuccessWasHandled
<1>8. CASE MarkFailed(t)
  <2> DEFINE s == IF Exhausted(tick[t].copies[tick[t].event]) THEN "dead" ELSE "failed"
  <2>1. /\ tick[t].at = "mark" /\ handled' = handled
        /\ row'[tick[t].event].status = s
        /\ \A e \in Events \ {tick[t].event} : row'[e].status = row[e].status
      BY <1>1, <1>6, <1>8 DEF MarkFailed
  <2>2. s \in Settled /\ s # "delivered"
      BY DEF Settled
  <2> HIDE DEF s
  <2> QED
      BY <1>5, <2>1, <2>2
<1>9. CASE MarkDeliveredThrows(t)
  <2>1. CASE row' = row
      BY <1>9, <2>1, QueueStutters DEF MarkDeliveredThrows
  <2>2. CASE row' = [row EXCEPT ![tick[t].event].status = "delivered"]
      BY <1>1, <1>5, <1>6, <1>9, <2>2 DEF MarkDeliveredThrows, Settled, IInv, SuccessWasHandled
  <2> QED
      BY <1>9, <2>1, <2>2 DEF MarkDeliveredThrows
<1> QED
    BY <1>2, <1>3, <1>4, <1>7, <1>8, <1>9 DEF Step

LEMMA RequestImplements ==
  ASSUME IInv, NEW e \in Events, Publish(e) \/ Replay(e)
  PROVE  [Queue!Next]_Queue!vars
<1>1. row \in [Events -> RowType]
    BY DEF IInv, TypeOK, RowType
<1>2. /\ row[e].status \in {"absent", "delivered", "failed", "dead"}
      /\ row'[e].status = "pending" /\ handled' = handled
      /\ \A f \in Events \ {e} : row'[f].status = row[f].status
    BY <1>1 DEF Publish, Replay, Settled, RowType
<1>3. QueueState[e] \in {"absent", "delivered", "failed"}
    BY <1>2 DEF QueueState
<1>4. QueueState' = Queue!Set({e}, "waiting")
    BY <1>2 DEF QueueState, Queue!Set
<1>5. Queue!Request(e)
    BY <1>2, <1>3, <1>4 DEF Queue!Request
<1> QED
    BY <1>5 DEF Queue!Next

LEMMA NextImplements ==
  ASSUME IInv, CopiesPublished, [Next]_vars
  PROVE  [Queue!Next]_Queue!vars
<1>1. row \in [Events -> RowType]
    BY DEF IInv, TypeOK, RowType
<1>2. ASSUME NEW t \in Ticks, Abort(t) PROVE [Queue!Next]_Queue!vars
    BY <1>2, QueueStutters DEF Abort
<1>3. ASSUME NEW e \in Events, Elapse(e) PROVE [Queue!Next]_Queue!vars
  <2>1. (\A f \in Events : row'[f].status = row[f].status) /\ handled' = handled
      BY <1>1, <1>3 DEF Elapse
  <2> QED
      BY <2>1, QueueStutters
<1>4. CASE UNCHANGED vars
    BY <1>4, QueueStutters DEF vars
<1> QED
    BY <1>2, <1>3, <1>4, StepImplements, RequestImplements DEF Next

\* The dispatcher is an at-least-once queue, whatever the constants.
THEOREM DispatcherImplementsQueue == Spec => ImplementsQueue
<1>1. Init => CopiesPublished
    BY DEF Init, IdleTick, NoCopies, CopiesPublished
<1>2. IInv /\ CopiesPublished /\ [Next]_vars => CopiesPublished'
    BY PublishedCopiesKept
<1>3. Init => Queue!Init
    BY QueueInit
<1>4. IInv /\ CopiesPublished /\ [Next]_vars => [Queue!Next]_Queue!vars
    BY NextImplements
<1> QED
    BY <1>1, <1>2, <1>3, <1>4, InvariantHolds, PTL DEF Spec, ImplementsQueue, Queue!Spec
=============================================================================
