------------------------ MODULE RequestPipelineProofs ------------------------
(***************************************************************************)
(* What RequestPipeline promises, for every set of requests, of keys, of   *)
(* bodies and of requests that read first: the numbers have no gap, the    *)
(* links of the chain are sound and a second run under a key is explained. *)
(***************************************************************************)
EXTENDS RequestPipeline, SumTheory

-----------------------------------------------------------------------------
(* The inductive invariant                                                 *)

\* The lock on the sequence's row is held from the number to the end of the transaction.
LockIsHeld == \A r \in Requests : stage[r] \in {"numbered", "audited"} <=> holder = r

\* Who holds the lock has the next number; who neither holds it nor committed has none.
NumbersFollow ==
  /\ \A r \in committed : stage[r] \in {"done", "answered", "dead"}
  /\ \A r \in Requests : holder = r => number[r] = last + 1
  /\ \A r \in Requests \ committed : holder # r => number[r] = 0

\* The trail holds the rows of the committed transactions and, at its end, that of the
\* transaction that holds the lock.
TrailIsOrdered ==
  /\ \A n \in 1..Len(trail) : trail[n] \in committed \/ stage[trail[n]] = "audited"
  /\ \A r \in Requests : r \in committed \/ stage[r] = "audited" => \E n \in 1..Len(trail) : trail[n] = r
  /\ \A n \in 1..Len(trail) : stage[trail[n]] = "audited" => n = Len(trail)

\* A transaction that read nothing first names the row before its own, and every row
\* names one that a snapshot showed as committed.
LinksFollow ==
  /\ \A n \in 1..Len(trail) :
       /\ prev[trail[n]] \in committed \cup {None}
       /\ trail[n] \notin ReadsFirst => prev[trail[n]] = IF n = 1 THEN None ELSE trail[n - 1]
  /\ \A r \in Requests : view[r] = None \/ view[r] \subseteq committed
  /\ \A r \in Requests \ ReadsFirst : view[r] = None

\* A request reserves its key once, after its lookup, and loses it by hanging up.
KeysAreReserved ==
  /\ \A r \in Requests : stage[r] \in {"new", "missed"} => row[r] = "absent"
  /\ \A r \in Requests : row[r] = "absent" => \A n \in 1..Len(order) : order[n] # r
  /\ \A r \in Requests : row[r] = "deleted" => r \in hungUp
  /\ \A r \in Requests : stage[r] = "new" => base[r] = 0

NumberInv == LockIsHeld /\ NumbersFollow /\ NumbersAreGapFree
TrailInv == TrailIsOrdered /\ LinksFollow
KeyInv == KeysAreReserved /\ SecondRunIsExplained

IInv == RequestTypeOK /\ NumberInv /\ TrailInv /\ KeyInv

-----------------------------------------------------------------------------
(* The operators                                                           *)

\* The largest of some positions of a sequence is one of them.
LEMMA MaxIsLast ==
  ASSUME NEW k \in Nat, NEW S, S \subseteq 1..k, S # {}
  PROVE  Max(S) \in S /\ \A n \in S : n <= Max(S)
<1> DEFINE T == {k - n : n \in S}
<1>1. T \subseteq Nat /\ T # {}
    OBVIOUS
<1>2. PICK t \in T : \A u \in T : t <= u
    BY <1>1, LeastExists
<1>3. PICK m \in S : t = k - m
    BY <1>2
<1>4. ASSUME NEW n \in S PROVE m >= n
  <2>1. k - n \in T
      OBVIOUS
  <2>2. t <= k - n
      BY <1>2, <2>1
  <2> QED
      BY <1>3, <2>2
<1>5. \E x \in S : \A n \in S : x >= n
    BY <1>4
<1> QED
    BY <1>5 DEF Max

\* Taking a value out of a sequence that does not have it changes nothing; taking out
\* the last one, which occurs nowhere else, leaves what came before.
LEMMA RemovalOfLast ==
  ASSUME NEW S, NEW s \in Seq(S), NEW x, \A n \in 1..Len(s) : s[n] = x => n = Len(s)
  PROVE  /\ (\A n \in 1..Len(s) : s[n] # x) => RemoveFirst(s, x) = s
         /\ (\E n \in 1..Len(s) : s[n] = x) => RemoveFirst(s, x) = SubSeq(s, 1, Len(s) - 1)
<1>1. (\A n \in 1..Len(s) : s[n] # x) => RemoveFirst(s, x) = s
    BY DEF RemoveFirst
<1>2. ASSUME NEW n \in 1..Len(s), s[n] = x PROVE RemoveFirst(s, x) = SubSeq(s, 1, Len(s) - 1)
  <2> DEFINE I == {i \in 1..Len(s) : s[i] = x}
  <2>1. n = Len(s) /\ Len(s) \in Nat
      BY <1>2
  <2>2. I = {n}
      BY <1>2, <2>1
  <2>3. Min(I) = n
      BY <2>1, <2>2 DEF Min
  <2>4. SelectInSeq(s, LAMBDA v : v = x) = n
      BY <2>2, <2>3 DEF SelectInSeq
  <2>5. RemoveFirst(s, x) = SubSeq(s, 1, n - 1) \o SubSeq(s, n + 1, Len(s))
      BY <1>2, <2>4 DEF RemoveFirst, RemoveAt
  <2>6. SubSeq(s, n + 1, Len(s)) = <<>>
      BY <2>1
  <2>7. SubSeq(s, 1, n - 1) \o <<>> = SubSeq(s, 1, n - 1)
      BY <2>1
  <2> QED
      BY <2>1, <2>5, <2>6, <2>7
<1> QED
    BY <1>1, <1>2

-----------------------------------------------------------------------------
(* What the actions find and leave                                         *)

\* In the initial state nothing is numbered, written or reserved.
LEMMA InitEstablishes == RequestInit => IInv
<1> SUFFICES ASSUME RequestInit PROVE IInv
    OBVIOUS
<1>1. Cardinality(Requests) \in Nat /\ Cardinality({}) = 0
    BY RequestAssumption, FS_CardinalityType, FS_EmptySet
<1>2. RequestTypeOK
  <2>1. <<>> \in Seq(Requests) /\ Len(<<>>) = 0 /\ IsInjective(<<>>)
      BY DEF IsInjective
  <2>2. /\ order \in Seq(Requests) /\ IsInjective(order)
        /\ trail \in Seq(Requests) /\ IsInjective(trail)
        /\ lapsed \in 0..Len(order) /\ base \in [Requests -> 0..Len(order)]
      BY <2>1 DEF RequestInit
  <2>3. stage \in [Requests -> {"new", "missed"} \cup Handling \cup Final]
      BY DEF RequestInit
  <2>4. /\ last \in 0..Cardinality(Requests) /\ number \in [Requests -> 0..Cardinality(Requests)]
        /\ view \in [Requests -> (SUBSET Requests) \cup {None}]
      BY <1>1 DEF RequestInit
  <2> QED
      BY <2>2, <2>3, <2>4 DEF RequestInit, RequestTypeOK
<1>3. NumberInv
    BY <1>1, RequestAssumption
    DEF RequestInit, NumberInv, LockIsHeld, NumbersFollow, NumbersAreGapFree
<1>4. TrailInv
    BY DEF RequestInit, TrailInv, TrailIsOrdered, LinksFollow
<1>5. KeyInv
    BY DEF RequestInit, KeyInv, KeysAreReserved, SecondRunIsExplained
<1> QED
    BY <1>2, <1>3, <1>4, <1>5 DEF IInv

\* There is a number left for a request that has not committed.
LEMMA NumberIsLeft ==
  ASSUME RequestTypeOK, NumbersAreGapFree, NEW r \in Requests, r \notin committed
  PROVE  /\ last \in Nat /\ last + 1 \in 0..Cardinality(Requests)
         /\ IsFiniteSet(committed) /\ Cardinality(committed \cup {r}) = last + 1
<1>1. IsFiniteSet(committed) /\ Cardinality(committed) = last /\ committed \cup {r} \subseteq Requests
    BY RequestAssumption, FS_Subset DEF RequestTypeOK, NumbersAreGapFree
<1>2. Cardinality(committed \cup {r}) = last + 1
    BY <1>1, FS_AddElement
<1>3. Cardinality(committed \cup {r}) <= Cardinality(Requests)
    BY <1>1, RequestAssumption, FS_Subset
<1>4. last \in Nat /\ Cardinality(Requests) \in Nat
    BY RequestAssumption, FS_CardinalityType DEF RequestTypeOK
<1> QED
    BY <1>1, <1>2, <1>3, <1>4

\* A request whose transaction has written its row is the last of the trail; one that
\* neither has nor committed is not in it.
LEMMA PlaceInTrail ==
  ASSUME IInv, NEW r \in Requests, r \notin committed
  PROVE  /\ trail \in Seq(Requests) /\ Len(trail) \in Nat
         /\ stage[r] = "audited" => /\ Len(trail) > 0 /\ trail[Len(trail)] = r
                                    /\ \A n \in 1..Len(trail) - 1 : trail[n] # r
         /\ stage[r] # "audited" => \A n \in 1..Len(trail) : trail[n] # r
<1>1. trail \in Seq(Requests) /\ Len(trail) \in Nat
    BY DEF IInv, RequestTypeOK
<1> QED
    BY <1>1 DEF IInv, TrailInv, TrailIsOrdered

\* The end of an uncommitted transaction takes its row off the end of the trail.
LEMMA UndoEffect ==
  ASSUME IInv, NEW r \in Requests, r \notin committed, Undo(r)
  PROVE  /\ number' = [number EXCEPT ![r] = 0]
         /\ holder' = IF holder = r THEN None ELSE holder
         /\ view' = [view EXCEPT ![r] = None]
         /\ prev' = [prev EXCEPT ![r] = None]
         /\ UNCHANGED <<last, committed>>
         /\ trail' \in Seq(Requests)
         /\ Len(trail') = IF stage[r] = "audited" THEN Len(trail) - 1 ELSE Len(trail)
         /\ Len(trail') \in Nat
         /\ \A n \in 1..Len(trail') : n \in 1..Len(trail) /\ trail'[n] = trail[n] /\ trail[n] # r
<1>1. /\ trail \in Seq(Requests) /\ Len(trail) \in Nat
      /\ stage[r] = "audited" => /\ Len(trail) > 0 /\ trail[Len(trail)] = r
                                 /\ \A n \in 1..Len(trail) - 1 : trail[n] # r
      /\ stage[r] # "audited" => \A n \in 1..Len(trail) : trail[n] # r
    BY PlaceInTrail
<1>2. trail' = IF stage[r] = "audited" THEN SubSeq(trail, 1, Len(trail) - 1) ELSE trail
  <2>1. \A n \in 1..Len(trail) : trail[n] = r => n = Len(trail)
      BY <1>1
  <2>2. /\ (\A n \in 1..Len(trail) : trail[n] # r) => RemoveFirst(trail, r) = trail
        /\ (\E n \in 1..Len(trail) : trail[n] = r) =>
             RemoveFirst(trail, r) = SubSeq(trail, 1, Len(trail) - 1)
      BY <1>1, <2>1, RemovalOfLast
  <2>3. trail' = RemoveFirst(trail, r)
      BY DEF Undo
  <2> QED
      BY <1>1, <2>2, <2>3
<1>3. /\ trail' \in Seq(Requests)
      /\ Len(trail') = IF stage[r] = "audited" THEN Len(trail) - 1 ELSE Len(trail)
      /\ \A n \in 1..Len(trail') : n \in 1..Len(trail) /\ trail'[n] = trail[n]
    BY <1>1, <1>2
<1>4. \A n \in 1..Len(trail') : trail[n] # r
    BY <1>1, <1>3
<1> QED
    BY <1>1, <1>3, <1>4 DEF Undo

\* The row a hit answers with is that of a request.
LEMMA ExistingIsRequest ==
  ASSUME RequestTypeOK, NEW r \in Requests, Active(r) # {}
  PROVE  Existing(r) \in Requests
<1>1. order \in Seq(Requests) /\ Len(order) \in Nat /\ Active(r) \subseteq 1..Len(order)
  <2>1. order \in Seq(Requests) /\ Len(order) \in Nat /\ lapsed \in 0..Len(order)
      BY DEF RequestTypeOK
  <2> QED
      BY <2>1 DEF Active
<1>2. Max(Active(r)) \in 1..Len(order)
    BY <1>1, MaxIsLast
<1> QED
    BY <1>1, <1>2 DEF Existing

\* The head of the chain, as a snapshot shows it, is a committed row; a transaction that
\* read nothing first finds the last row of the trail.
LEMMA HeadIsCommitted ==
  ASSUME IInv, NEW r \in Requests, stage[r] = "numbered"
  PROVE  /\ ChainHead(r) \in committed \cup {None}
         /\ r \notin ReadsFirst =>
              ChainHead(r) = IF Len(trail) = 0 THEN None ELSE trail[Len(trail)]
<1> DEFINE seen == IF view[r] = None THEN committed ELSE view[r]
           rows == {n \in 1..Len(trail) : trail[n] \in seen}
<1>1. Len(trail) \in Nat /\ rows \subseteq 1..Len(trail)
    BY DEF IInv, RequestTypeOK
<1>2. ChainHead(r) = IF rows = {} THEN None ELSE trail[Max(rows)]
    BY DEF ChainHead
<1>3. seen \subseteq committed
    BY DEF IInv, TrailInv, LinksFollow
<1>4. rows # {} => Max(rows) \in rows /\ \A n \in rows : n <= Max(rows)
    BY <1>1, MaxIsLast
<1>5. ASSUME r \notin ReadsFirst PROVE rows = 1..Len(trail)
  <2>1. seen = committed
      BY <1>5 DEF IInv, TrailInv, LinksFollow
  <2>2. \A q \in Requests : stage[q] # "audited"
      BY DEF IInv, NumberInv, LockIsHeld
  <2>3. \A n \in 1..Len(trail) : trail[n] \in Requests
      BY DEF IInv, RequestTypeOK
  <2>4. \A n \in 1..Len(trail) : trail[n] \in committed
      BY <2>2, <2>3 DEF IInv, TrailInv, TrailIsOrdered
  <2> QED
      BY <2>1, <2>4
<1>6. ChainHead(r) \in committed \cup {None}
  <2> HIDE DEF seen
  <2> QED
    BY <1>2, <1>3, <1>4
<1>7. ASSUME r \notin ReadsFirst, Len(trail) # 0 PROVE Max(rows) = Len(trail)
  <2>1. Len(trail) \in rows
      BY <1>1, <1>5, <1>7
  <2> HIDE DEF rows
  <2>2. Max(rows) \in 1..Len(trail) /\ Len(trail) <= Max(rows)
      BY <1>1, <1>4, <2>1
  <2> QED
      BY <1>1, <2>2
<1>8. Len(trail) = 0 => rows = {}
    BY <1>1
<1> QED
  <2> HIDE DEF rows
  <2>1. Len(trail) # 0 => 1..Len(trail) # {}
      BY <1>1
  <2> QED
      BY <1>2, <1>5, <1>6, <1>7, <1>8, <2>1

-----------------------------------------------------------------------------
(* The steps, one kind of promise at a time                                *)

\* An open transaction has not committed.
LEMMA OpenIsUncommitted ==
  ASSUME IInv, NEW r \in Requests, stage[r] \in {"new", "missed", "handling"} \cup InTransaction
  PROVE  r \notin committed
    BY DEF IInv, NumberInv, NumbersFollow, InTransaction

\* Every variable keeps its type.
LEMMA TypeKeeps == IInv /\ RequestNext => RequestTypeOK'
<1> SUFFICES ASSUME IInv, RequestNext PROVE RequestTypeOK'
    OBVIOUS
<1> USE DEF To
<1>t. RequestTypeOK
    BY DEF IInv
<1>1. ASSUME NEW r \in Requests, PassThrough(r) \/ Refuse(r) PROVE RequestTypeOK'
    BY <1>t, <1>1 DEF PassThrough, Refuse, RequestTypeOK, keyVars, sequenceVars, auditVars,
         Handling, Final
<1>2. ASSUME NEW r \in Requests, Miss(r) PROVE RequestTypeOK'
    BY <1>t, <1>2 DEF Miss, RequestTypeOK, sequenceVars, auditVars
<1>3. ASSUME NEW r \in Requests, Replay(r) PROVE RequestTypeOK'
  <2>1. Existing(r) \in Requests
      BY <1>t, <1>3, ExistingIsRequest DEF Replay
  <2> QED
      BY <1>t, <1>3, <2>1 DEF Replay, RequestTypeOK, sequenceVars, auditVars, Final
<1>4. ASSUME NEW r \in Requests, Reserve(r) PROVE RequestTypeOK'
  <2>1. \A n \in 1..Len(order) : order[n] # r
      BY <1>4 DEF Reserve, IInv, KeyInv, KeysAreReserved
  <2>2. /\ order \in Seq(Requests) /\ IsInjective(order) /\ order' = Append(order, r)
        /\ lapsed \in 0..Len(order) /\ base \in [Requests -> 0..Len(order)]
      BY <1>t, <1>4 DEF Reserve, RequestTypeOK
  <2>3. order' \in Seq(Requests) /\ Len(order') = Len(order) + 1 /\ IsInjective(order')
      BY <2>1, <2>2 DEF IsInjective
  <2>4. lapsed \in 0..Len(order') /\ base \in [Requests -> 0..Len(order')]
      BY <2>2, <2>3
  <2> QED
      BY <1>t, <1>4, <2>3, <2>4 DEF Reserve, RequestTypeOK, sequenceVars, auditVars, Handling
<1>5. ASSUME NEW r \in Requests, HangUp(r) \/ Release(r) \/ Store(r) PROVE RequestTypeOK'
    BY <1>t, <1>5 DEF HangUp, Release, Store, RequestTypeOK, sequenceVars, auditVars
<1>6. ASSUME NEW r \in Requests, Answer(r) PROVE RequestTypeOK'
    BY <1>t, <1>6 DEF Answer, RequestTypeOK, keyVars, sequenceVars, auditVars, Final
<1>7. ASSUME NEW r \in Requests, ReadFirst(r) PROVE RequestTypeOK'
    BY <1>t, <1>7 DEF ReadFirst, RequestTypeOK, keyVars, sequenceVars, Handling, InTransaction
<1>8. ASSUME NEW r \in Requests, Allocate(r) PROVE RequestTypeOK'
  <2>1. r \notin committed
      BY <1>8, OpenIsUncommitted DEF Allocate, InTransaction
  <2>2. last + 1 \in 0..Cardinality(Requests)
      BY <2>1, NumberIsLeft DEF IInv, NumberInv
  <2> QED
      BY <1>t, <1>8, <2>2 DEF Allocate, RequestTypeOK, keyVars, auditVars, Handling, InTransaction
<1>9. ASSUME NEW r \in Requests, AppendAudit(r) PROVE RequestTypeOK'
  <2>1. r \notin committed /\ stage[r] = "numbered"
      BY <1>9, OpenIsUncommitted DEF AppendAudit, InTransaction
  <2>2. \A n \in 1..Len(trail) : trail[n] # r
      BY <2>1, PlaceInTrail
  <2>3. ChainHead(r) \in Requests \cup {None}
      BY <1>t, <2>1, HeadIsCommitted DEF RequestTypeOK
  <2>4. trail \in Seq(Requests) /\ IsInjective(trail) /\ trail' = Append(trail, r)
      BY <1>t, <1>9 DEF AppendAudit, RequestTypeOK
  <2>5. trail' \in Seq(Requests) /\ IsInjective(trail')
      BY <2>2, <2>4 DEF IsInjective
  <2> QED
      BY <1>t, <1>9, <2>3, <2>5 DEF AppendAudit, RequestTypeOK, keyVars, sequenceVars, Handling,
           InTransaction
<1>10. ASSUME NEW r \in Requests, Commit(r) PROVE RequestTypeOK'
    BY <1>t, <1>10 DEF Commit, RequestTypeOK, keyVars, auditVars, Handling
<1>11. ASSUME NEW r \in Requests, r \notin committed, Undo(r)
       PROVE  /\ holder' \in Requests \cup {None} /\ number' \in [Requests -> 0..Cardinality(Requests)]
              /\ view' \in [Requests -> (SUBSET Requests) \cup {None}]
              /\ prev' \in [Requests -> Requests \cup {None}]
              /\ trail' \in Seq(Requests) /\ IsInjective(trail')
              /\ UNCHANGED <<last, committed>>
  <2>1. trail' \in Seq(Requests) /\ Len(trail') \in Nat
        /\ \A n \in 1..Len(trail') : n \in 1..Len(trail) /\ trail'[n] = trail[n]
      BY <1>11, UndoEffect
  <2>2. trail \in Seq(Requests) /\ \A m, n \in 1..Len(trail) : trail[m] = trail[n] => m = n
    <3>1. trail \in Seq(Requests) /\ IsInjective(trail)
        BY <1>t DEF RequestTypeOK
    <3>2. DOMAIN trail = 1..Len(trail)
        BY <3>1
    <3> QED
        BY <3>1, <3>2 DEF IsInjective
  <2>3. IsInjective(trail')
    <3>1. \A m, n \in 1..Len(trail') : trail'[m] = trail'[n] => m = n
        BY <2>1, <2>2
    <3>2. DOMAIN trail' = 1..Len(trail')
        BY <2>1
    <3> QED
        BY <3>1, <3>2 DEF IsInjective
  <2>4. 0 \in 0..Cardinality(Requests)
      BY RequestAssumption, FS_CardinalityType
  <2> QED
      BY <1>t, <1>11, <2>1, <2>3, <2>4 DEF RequestTypeOK, Undo
<1>12. ASSUME NEW r \in Requests, Fail(r) PROVE RequestTypeOK'
  <2>1. r \notin committed /\ Undo(r)
      BY <1>12, OpenIsUncommitted DEF Fail
  <2> HIDE DEF Undo
  <2> QED
      BY <1>t, <1>11, <1>12, <2>1 DEF Fail, RequestTypeOK, keyVars, Handling
<1>13. ASSUME NEW r \in Requests, Crash(r) PROVE RequestTypeOK'
  <2>1. CASE stage[r] \in InTransaction
    <3>1. r \notin committed /\ Undo(r)
        BY <1>13, <2>1, OpenIsUncommitted DEF Crash
    <3>2. UNCHANGED <<body, keyVars>> /\ stage' = [stage EXCEPT ![r] = "dead"]
        BY <1>13 DEF Crash
    <3> HIDE DEF Undo
    <3> QED
        BY <1>t, <1>11, <3>1, <3>2 DEF RequestTypeOK, keyVars, Final
  <2>2. CASE stage[r] \notin InTransaction
      BY <1>t, <1>13, <2>2 DEF Crash, RequestTypeOK, keyVars, sequenceVars, auditVars, Final
  <2> QED
      BY <2>1, <2>2
<1>14. ASSUME Expire PROVE RequestTypeOK'
  <2>1. lapsed \in 0..Len(order) /\ Len(order) \in Nat
      BY <1>t DEF RequestTypeOK
  <2>2. lapsed' \in 0..Len(order')
      BY <1>14, <2>1 DEF Expire
  <2>3. UNCHANGED <<body, stage, row, order, base, hungUp, served, sequenceVars, committed, auditVars>>
      BY <1>14 DEF Expire
  <2> QED
      BY <1>t, <2>2, <2>3 DEF RequestTypeOK, sequenceVars, auditVars
<1> QED
    BY <1>1, <1>2, <1>3, <1>4, <1>5, <1>6, <1>7, <1>8, <1>9, <1>10, <1>12, <1>13, <1>14
    DEF RequestNext

\* The numbers have no gap as long as none of a committed transaction changes.
LEMMA GapsStay ==
  ASSUME NumbersAreGapFree, UNCHANGED <<last, committed>>,
         \A q \in committed : number'[q] = number[q]
  PROVE  NumbersAreGapFree'
<1>1. {number'[q] : q \in committed} = {number[q] : q \in committed}
    OBVIOUS
<1> QED
    BY <1>1 DEF NumbersAreGapFree

\* What no step of the sequence touches keeps its promises about numbers.
LEMMA NumbersStay ==
  ASSUME IInv, NEW r \in Requests, NEW s, stage' = [stage EXCEPT ![r] = s],
         UNCHANGED <<sequenceVars, committed>>,
         stage[r] \in {"numbered", "audited"} <=> s \in {"numbered", "audited"},
         r \in committed => s \in {"done", "answered", "dead"}
  PROVE  NumberInv'
<1>1. /\ \A q \in Requests : stage'[q] = IF q = r THEN s ELSE stage[q]
      /\ UNCHANGED <<last, holder, number, committed>>
    BY DEF IInv, RequestTypeOK, sequenceVars
<1> QED
    BY <1>1 DEF IInv, NumberInv, LockIsHeld, NumbersFollow, NumbersAreGapFree, RequestTypeOK

\* The end of an uncommitted transaction frees its lock and its number.
LEMMA NumbersAfterUndo ==
  ASSUME IInv, NEW r \in Requests, r \notin committed, Undo(r),
         NEW s, s \notin {"numbered", "audited"}, stage' = [stage EXCEPT ![r] = s]
  PROVE  NumberInv'
<1>1. /\ \A q \in Requests : stage'[q] = IF q = r THEN s ELSE stage[q]
      /\ \A q \in Requests : number'[q] = IF q = r THEN 0 ELSE number[q]
      /\ holder' = IF holder = r THEN None ELSE holder
      /\ last' = last /\ committed' = committed
    BY DEF IInv, RequestTypeOK, Undo
<1>2. LockIsHeld'
    BY <1>1, RequestAssumption DEF IInv, NumberInv, LockIsHeld
<1>3. NumbersFollow'
    BY <1>1, RequestAssumption DEF IInv, NumberInv, NumbersFollow, RequestTypeOK
<1>4. NumbersAreGapFree'
  <2>1. \A q \in committed : q \in Requests /\ q # r
      BY DEF IInv, RequestTypeOK
  <2> QED
      BY <1>1, <2>1, GapsStay DEF IInv, NumberInv
<1> QED
    BY <1>2, <1>3, <1>4 DEF NumberInv

\* The lock is exclusive and the numbers have no gap, whatever the next step.
LEMMA NumberKeeps == IInv /\ RequestNext => NumberInv'
<1> SUFFICES ASSUME IInv, RequestNext PROVE NumberInv'
    OBVIOUS
<1> USE DEF To
<1>t. RequestTypeOK /\ NumberInv
    BY DEF IInv
<1>1. ASSUME NEW r \in Requests,
             PassThrough(r) \/ Miss(r) \/ Refuse(r) \/ Replay(r) \/ Reserve(r) \/ ReadFirst(r)
      PROVE  NumberInv'
  <2>1. /\ stage[r] \in {"new", "missed", "handling"}
        /\ UNCHANGED <<sequenceVars, committed>>
        /\ \E s \in {"handling", "missed", "refused", "replayed", "open"} :
             stage' = [stage EXCEPT ![r] = s]
      BY <1>1 DEF PassThrough, Miss, Refuse, Replay, Reserve, ReadFirst
  <2>2. r \notin committed
      BY <2>1, OpenIsUncommitted
  <2> QED
      BY <2>1, <2>2, NumbersStay
<1>2. ASSUME UNCHANGED <<stage, sequenceVars, committed>> PROVE NumberInv'
    BY <1>t, <1>2 DEF NumberInv, LockIsHeld, NumbersFollow, NumbersAreGapFree, sequenceVars
<1>3. ASSUME NEW r \in Requests, Answer(r) PROVE NumberInv'
    BY <1>3, NumbersStay DEF Answer
<1>4. ASSUME NEW r \in Requests, AppendAudit(r) PROVE NumberInv'
  <2>1. r \notin committed
      BY <1>4, OpenIsUncommitted DEF AppendAudit, InTransaction
  <2> QED
      BY <1>4, <2>1, NumbersStay DEF AppendAudit
<1>5. ASSUME NEW r \in Requests, Allocate(r) PROVE NumberInv'
  <2>1. r \notin committed
      BY <1>5, OpenIsUncommitted DEF Allocate, InTransaction
  <2>2. /\ \A q \in Requests : stage'[q] = IF q = r THEN "numbered" ELSE stage[q]
        /\ \A q \in Requests : number'[q] = IF q = r THEN last + 1 ELSE number[q]
        /\ holder = None /\ holder' = r /\ last' = last /\ committed' = committed
      BY <1>t, <1>5 DEF Allocate, RequestTypeOK
  <2>3. LockIsHeld'
      BY <1>t, <2>2, RequestAssumption DEF NumberInv, LockIsHeld
  <2>4. NumbersFollow'
      BY <1>t, <2>1, <2>2, RequestAssumption DEF NumberInv, NumbersFollow, RequestTypeOK
  <2>5. NumbersAreGapFree'
    <3>1. \A q \in committed : q \in Requests /\ q # r
        BY <1>t, <2>1 DEF RequestTypeOK
    <3> QED
        BY <1>t, <2>2, <3>1, GapsStay DEF NumberInv
  <2> QED
      BY <2>3, <2>4, <2>5 DEF NumberInv
<1>6. ASSUME NEW r \in Requests, Commit(r) PROVE NumberInv'
  <2>1. r \notin committed /\ holder = r /\ number[r] = last + 1
      BY <1>t, <1>6, OpenIsUncommitted
      DEF Commit, InTransaction, NumberInv, LockIsHeld, NumbersFollow
  <2>2. /\ \A q \in Requests : stage'[q] = IF q = r THEN "done" ELSE stage[q]
        /\ number' = number
        /\ holder' = None /\ last' = last + 1 /\ committed' = committed \cup {r}
      BY <1>t, <1>6, <2>1 DEF Commit, RequestTypeOK
  <2>3. last \in Nat /\ Cardinality(committed \cup {r}) = last + 1
      BY <1>t, <2>1, NumberIsLeft DEF NumberInv
  <2>4. LockIsHeld'
      BY <1>t, <2>1, <2>2, RequestAssumption DEF NumberInv, LockIsHeld
  <2>5. NumbersFollow'
      BY <1>t, <2>1, <2>2, RequestAssumption DEF NumberInv, NumbersFollow, RequestTypeOK
  <2>6. {number[q] : q \in committed \cup {r}} = 1..last + 1
    <3>1. {number[q] : q \in committed \cup {r}} = {number[q] : q \in committed} \cup {last + 1}
        BY <2>1
    <3>2. {number[q] : q \in committed} = 1..last
        BY <1>t DEF NumberInv, NumbersAreGapFree
    <3>3. (1..last) \cup {last + 1} = 1..last + 1
        BY <2>3
    <3> QED
        BY <3>1, <3>2, <3>3
  <2>7. NumbersAreGapFree'
      BY <2>2, <2>3, <2>6 DEF NumbersAreGapFree
  <2> QED
      BY <2>4, <2>5, <2>7 DEF NumberInv
<1>7. ASSUME NEW r \in Requests, Fail(r) PROVE NumberInv'
  <2>1. r \notin committed /\ Undo(r) /\ stage' = [stage EXCEPT ![r] = "done"]
      BY <1>7, OpenIsUncommitted DEF Fail
  <2> QED
      BY <2>1, NumbersAfterUndo
<1>8. ASSUME NEW r \in Requests, Crash(r) PROVE NumberInv'
  <2>1. stage' = [stage EXCEPT ![r] = "dead"]
      BY <1>8 DEF Crash
  <2>2. CASE stage[r] \in InTransaction
    <3>1. r \notin committed /\ Undo(r)
        BY <1>8, <2>2, OpenIsUncommitted DEF Crash
    <3> QED
        BY <2>1, <3>1, NumbersAfterUndo
  <2>3. CASE stage[r] \notin InTransaction
    <3>1. UNCHANGED <<sequenceVars, committed>> /\ stage[r] \notin {"numbered", "audited"}
        BY <1>8, <2>3 DEF Crash, InTransaction
    <3> QED
        BY <2>1, <3>1, NumbersStay
  <2> QED
      BY <2>2, <2>3
<1> QED
  <2>1. ASSUME NEW r \in Requests, HangUp(r) \/ Release(r) \/ Store(r)
        PROVE  UNCHANGED <<stage, sequenceVars, committed>>
      BY <2>1 DEF HangUp, Release, Store
  <2>2. Expire => UNCHANGED <<stage, sequenceVars, committed>>
      BY DEF Expire
  <2> QED
      BY <1>1, <1>2, <1>3, <1>4, <1>5, <1>6, <1>7, <1>8, <2>1, <2>2 DEF RequestNext

\* What neither writes an audit row nor ends a transaction keeps the chain.
LEMMA TrailStays ==
  ASSUME IInv, NEW r \in Requests, NEW s, stage' = [stage EXCEPT ![r] = s],
         UNCHANGED <<committed, auditVars>>, stage[r] = "audited" <=> s = "audited"
  PROVE  TrailInv'
<1>1. /\ \A q \in Requests : stage'[q] = "audited" <=> stage[q] = "audited"
      /\ UNCHANGED <<committed, view, trail, prev>>
    BY DEF IInv, RequestTypeOK, auditVars
<1>2. \A n \in 1..Len(trail) : trail[n] \in Requests
    BY DEF IInv, RequestTypeOK
<1>3. TrailIsOrdered'
    BY <1>1, <1>2 DEF IInv, TrailInv, TrailIsOrdered
<1>4. LinksFollow'
    BY <1>1 DEF IInv, TrailInv, LinksFollow
<1> QED
    BY <1>3, <1>4 DEF TrailInv

\* The end of an uncommitted transaction leaves the chain as it was before its row.
LEMMA TrailAfterUndo ==
  ASSUME IInv, NEW r \in Requests, r \notin committed, Undo(r),
         NEW s, s # "audited", stage' = [stage EXCEPT ![r] = s]
  PROVE  TrailInv'
<1>1. /\ view' = [view EXCEPT ![r] = None] /\ prev' = [prev EXCEPT ![r] = None]
      /\ committed' = committed
      /\ Len(trail') = IF stage[r] = "audited" THEN Len(trail) - 1 ELSE Len(trail)
      /\ Len(trail') \in Nat
      /\ \A n \in 1..Len(trail') : n \in 1..Len(trail) /\ trail'[n] = trail[n] /\ trail[n] # r
    BY UndoEffect
<1>2. /\ trail \in Seq(Requests) /\ Len(trail) \in Nat
      /\ stage[r] = "audited" => Len(trail) > 0 /\ trail[Len(trail)] = r
    BY PlaceInTrail
<1>3. \A n \in 1..Len(trail) : trail[n] \in Requests
    BY <1>2
<1>4. \A q \in Requests : /\ stage'[q] = IF q = r THEN s ELSE stage[q]
                          /\ view'[q] = IF q = r THEN None ELSE view[q]
                          /\ prev'[q] = IF q = r THEN None ELSE prev[q]
    BY <1>1 DEF IInv, RequestTypeOK
<1>5. TrailIsOrdered'
  <2>1. \A n \in 1..Len(trail') : trail'[n] \in committed \/ stage'[trail'[n]] = "audited"
      BY <1>1, <1>3, <1>4 DEF IInv, TrailInv, TrailIsOrdered
  <2>2. ASSUME NEW q \in Requests, q \in committed \/ stage'[q] = "audited"
        PROVE  \E n \in 1..Len(trail') : trail'[n] = q
    <3>1. q # r /\ (q \in committed \/ stage[q] = "audited")
        BY <1>4, <2>2
    <3>2. PICK n \in 1..Len(trail) : trail[n] = q
        BY <3>1 DEF IInv, TrailInv, TrailIsOrdered
    <3>3. n \in 1..Len(trail')
        BY <1>1, <1>2, <3>1, <3>2
    <3> QED
        BY <1>1, <3>2, <3>3
  <2>3. \A n \in 1..Len(trail') : stage'[trail'[n]] = "audited" => n = Len(trail')
    <3> SUFFICES ASSUME NEW n \in 1..Len(trail'), stage'[trail'[n]] = "audited"
                 PROVE  n = Len(trail')
        OBVIOUS
    <3>1. trail[n] \in Requests /\ stage[trail[n]] = "audited" /\ trail[n] # r /\ n \in 1..Len(trail)
        BY <1>1, <1>3, <1>4
    <3>2. n = Len(trail)
        BY <3>1 DEF IInv, TrailInv, TrailIsOrdered
    <3>3. stage[r] # "audited"
        BY <1>2, <3>1, <3>2
    <3> QED
        BY <1>1, <3>2, <3>3
  <2> QED
      BY <1>1, <2>1, <2>2, <2>3 DEF TrailIsOrdered
<1>6. LinksFollow'
  <2>1. ASSUME NEW n \in 1..Len(trail')
        PROVE  /\ prev'[trail'[n]] \in committed \cup {None}
               /\ trail'[n] \notin ReadsFirst =>
                    prev'[trail'[n]] = IF n = 1 THEN None ELSE trail'[n - 1]
    <3>1. n \in 1..Len(trail) /\ trail'[n] = trail[n] /\ prev'[trail'[n]] = prev[trail[n]]
        BY <1>1, <1>3, <1>4
    <3>2. n # 1 => trail'[n - 1] = trail[n - 1]
        BY <1>1
    <3> QED
        BY <3>1, <3>2 DEF IInv, TrailInv, LinksFollow
  <2>2. /\ \A q \in Requests : view'[q] = None \/ view'[q] \subseteq committed
        /\ \A q \in Requests \ ReadsFirst : view'[q] = None
      BY <1>4 DEF IInv, TrailInv, LinksFollow
  <2> QED
      BY <1>1, <2>1, <2>2 DEF LinksFollow
<1> QED
    BY <1>5, <1>6 DEF TrailInv

\* A row is written at the end of the trail, and names the one before it unless its
\* transaction had looked earlier.
LEMMA TrailAfterAppend ==
  ASSUME IInv, NEW r \in Requests, AppendAudit(r)
  PROVE  TrailInv'
<1>1. /\ stage[r] = "numbered" /\ committed' = committed
      /\ trail' = Append(trail, r)
      /\ \A q \in Requests : /\ stage'[q] = IF q = r THEN "audited" ELSE stage[q]
                             /\ view'[q] = IF q = r THEN None ELSE view[q]
                             /\ prev'[q] = IF q = r THEN ChainHead(r) ELSE prev[q]
    BY DEF AppendAudit, To, IInv, RequestTypeOK
<1>2. r \notin committed /\ \A q \in Requests : stage[q] # "audited"
    BY <1>1, OpenIsUncommitted DEF InTransaction, IInv, NumberInv, LockIsHeld
<1>3. /\ trail \in Seq(Requests) /\ Len(trail) \in Nat
      /\ \A n \in 1..Len(trail) : trail[n] # r /\ trail[n] \in Requests
    BY <1>1, <1>2, PlaceInTrail
<1>4. /\ Len(trail') = Len(trail) + 1 /\ trail'[Len(trail) + 1] = r
      /\ \A n \in 1..Len(trail) : trail'[n] = trail[n]
    BY <1>1, <1>3
<1>5. TrailIsOrdered'
  <2>1. \A n \in 1..Len(trail) : trail[n] \in committed
      BY <1>2, <1>3 DEF IInv, TrailInv, TrailIsOrdered
  <2>2. \A n \in 1..Len(trail') : n \in 1..Len(trail) \/ n = Len(trail) + 1
      BY <1>3, <1>4
  <2>3. \A n \in 1..Len(trail') : trail'[n] \in committed \/ stage'[trail'[n]] = "audited"
      BY <1>1, <1>4, <2>1, <2>2
  <2>4. \A n \in 1..Len(trail') : stage'[trail'[n]] = "audited" => n = Len(trail')
      BY <1>1, <1>2, <1>3, <1>4, <2>2
  <2>5. ASSUME NEW q \in Requests, q \in committed \/ stage'[q] = "audited"
        PROVE  \E n \in 1..Len(trail') : trail'[n] = q
    <3>1. CASE q = r
        BY <1>3, <1>4, <3>1
    <3>2. CASE q # r
      <4>1. PICK n \in 1..Len(trail) : trail[n] = q
          BY <1>1, <2>5, <3>2 DEF IInv, TrailInv, TrailIsOrdered
      <4>2. n \in 1..Len(trail') /\ trail'[n] = q
          BY <1>3, <1>4, <4>1
      <4> QED
          BY <4>2
    <3> QED
        BY <3>1, <3>2
  <2> QED
      BY <1>1, <2>3, <2>4, <2>5 DEF TrailIsOrdered
<1>6. LinksFollow'
  <2>1. /\ ChainHead(r) \in committed \cup {None}
        /\ r \notin ReadsFirst =>
             ChainHead(r) = IF Len(trail) = 0 THEN None ELSE trail[Len(trail)]
      BY <1>1, HeadIsCommitted
  <2>2. ASSUME NEW n \in 1..Len(trail')
        PROVE  /\ prev'[trail'[n]] \in committed \cup {None}
               /\ trail'[n] \notin ReadsFirst =>
                    prev'[trail'[n]] = IF n = 1 THEN None ELSE trail'[n - 1]
    <3>1. CASE n = Len(trail) + 1
      <4>1. trail'[n] = r /\ prev'[r] = ChainHead(r) /\ (n = 1 <=> Len(trail) = 0)
          BY <1>1, <1>3, <1>4, <3>1
      <4>2. n # 1 => trail'[n - 1] = trail[Len(trail)]
          BY <1>3, <1>4, <3>1
      <4> QED
          BY <2>1, <4>1, <4>2
    <3>2. CASE n \in 1..Len(trail)
      <4>1. trail'[n] = trail[n] /\ prev'[trail'[n]] = prev[trail[n]]
          BY <1>1, <1>3, <1>4, <3>2
      <4>2. n # 1 => trail'[n - 1] = trail[n - 1]
          BY <1>3, <1>4, <3>2
      <4> QED
          BY <3>2, <4>1, <4>2 DEF IInv, TrailInv, LinksFollow
    <3> QED
        BY <1>3, <1>4, <3>1, <3>2
  <2>3. /\ \A q \in Requests : view'[q] = None \/ view'[q] \subseteq committed
        /\ \A q \in Requests \ ReadsFirst : view'[q] = None
      BY <1>1 DEF IInv, TrailInv, LinksFollow
  <2> QED
      BY <1>1, <2>2, <2>3 DEF LinksFollow
<1> QED
    BY <1>5, <1>6 DEF TrailInv

\* A commit makes the last row of the trail one of the committed ones.
LEMMA TrailAfterCommit ==
  ASSUME IInv, NEW r \in Requests, Commit(r)
  PROVE  TrailInv'
<1>1. /\ stage[r] = "audited" /\ committed' = committed \cup {r}
      /\ UNCHANGED <<view, trail, prev>>
      /\ \A q \in Requests : stage'[q] = IF q = r THEN "done" ELSE stage[q]
    BY DEF Commit, To, auditVars, IInv, RequestTypeOK
<1>2. \A n \in 1..Len(trail) : trail[n] \in Requests
    BY DEF IInv, RequestTypeOK
<1>3. TrailIsOrdered'
    BY <1>1, <1>2 DEF IInv, TrailInv, TrailIsOrdered
<1>4. LinksFollow'
    BY <1>1 DEF IInv, TrailInv, LinksFollow
<1> QED
    BY <1>3, <1>4 DEF TrailInv

\* The chain is in order, whatever the next step.
LEMMA TrailKeeps == IInv /\ RequestNext => TrailInv'
<1> SUFFICES ASSUME IInv, RequestNext PROVE TrailInv'
    OBVIOUS
<1> USE DEF To
<1>1. ASSUME NEW r \in Requests,
             \/ PassThrough(r) \/ Miss(r) \/ Refuse(r) \/ Replay(r) \/ Reserve(r)
             \/ Answer(r) \/ Allocate(r)
      PROVE  TrailInv'
  <2>1. /\ UNCHANGED <<committed, auditVars>>
        /\ stage[r] # "audited"
        /\ \E s : stage' = [stage EXCEPT ![r] = s] /\ s # "audited"
      BY <1>1 DEF PassThrough, Miss, Refuse, Replay, Reserve, Answer, Allocate
  <2> QED
      BY <2>1, TrailStays
<1>2. ASSUME UNCHANGED <<stage, committed, auditVars>> PROVE TrailInv'
    BY <1>2 DEF IInv, TrailInv, TrailIsOrdered, LinksFollow, auditVars
<1>3. ASSUME NEW r \in Requests, ReadFirst(r) PROVE TrailInv'
  <2>1. /\ r \in ReadsFirst /\ UNCHANGED <<committed, trail, prev>>
        /\ \A q \in Requests : view'[q] = IF q = r THEN committed ELSE view[q]
        /\ \A q \in Requests : stage'[q] = "audited" <=> stage[q] = "audited"
      BY <1>3 DEF ReadFirst, IInv, RequestTypeOK
  <2>2. \A n \in 1..Len(trail) : trail[n] \in Requests
      BY DEF IInv, RequestTypeOK
  <2>3. TrailIsOrdered'
      BY <2>1, <2>2 DEF IInv, TrailInv, TrailIsOrdered
  <2>4. LinksFollow'
      BY <2>1 DEF IInv, TrailInv, LinksFollow
  <2> QED
      BY <2>3, <2>4 DEF TrailInv
<1>4. ASSUME NEW r \in Requests, Fail(r) PROVE TrailInv'
  <2>1. r \notin committed /\ Undo(r) /\ stage' = [stage EXCEPT ![r] = "done"]
      BY <1>4, OpenIsUncommitted DEF Fail
  <2> QED
      BY <2>1, TrailAfterUndo
<1>5. ASSUME NEW r \in Requests, Crash(r) PROVE TrailInv'
  <2>1. stage' = [stage EXCEPT ![r] = "dead"]
      BY <1>5 DEF Crash
  <2>2. CASE stage[r] \in InTransaction
    <3>1. r \notin committed /\ Undo(r)
        BY <1>5, <2>2, OpenIsUncommitted DEF Crash
    <3> QED
        BY <2>1, <3>1, TrailAfterUndo
  <2>3. CASE stage[r] \notin InTransaction
    <3>1. UNCHANGED <<committed, auditVars>> /\ stage[r] # "audited"
        BY <1>5, <2>3 DEF Crash, InTransaction
    <3> QED
        BY <2>1, <3>1, TrailStays
  <2> QED
      BY <2>2, <2>3
<1> QED
  <2>1. ASSUME NEW r \in Requests, HangUp(r) \/ Release(r) \/ Store(r)
        PROVE  UNCHANGED <<stage, committed, auditVars>>
      BY <2>1 DEF HangUp, Release, Store
  <2>2. Expire => UNCHANGED <<stage, committed, auditVars>>
      BY DEF Expire
  <2> QED
      BY <1>1, <1>2, <1>3, <1>4, <1>5, <2>1, <2>2, TrailAfterAppend, TrailAfterCommit
      DEF RequestNext

\* A request that has passed the middleware, and goes on, keeps what is said of the keys.
LEMMA KeysStay ==
  ASSUME IInv, NEW r \in Requests, NEW s, stage' = [stage EXCEPT ![r] = s],
         UNCHANGED keyVars, s \notin {"new", "missed"},
         stage[r] \notin {"new", "refused", "replayed"} \/ s \in {"refused", "replayed"} \/ base[r] = 0
  PROVE  KeyInv'
<1>1. /\ \A q \in Requests : stage'[q] = IF q = r THEN s ELSE stage[q]
      /\ UNCHANGED <<row, order, lapsed, base, hungUp>>
    BY DEF IInv, RequestTypeOK, keyVars
<1>2. KeysAreReserved'
    BY <1>1 DEF IInv, KeyInv, KeysAreReserved
<1>3. SecondRunIsExplained'
  <2> SUFFICES ASSUME NEW q \in Requests, NEW n \in 1..base[q], KeyOf[order[n]] = KeyOf[q],
                      stage'[q] \notin {"new", "refused", "replayed"}
               PROVE  n <= lapsed \/ (row[order[n]] = "deleted" /\ order[n] \in hungUp)
      BY <1>1 DEF SecondRunIsExplained
  <2>1. base[q] # 0
      OBVIOUS
  <2>2. stage[q] \notin {"new", "refused", "replayed"}
      BY <1>1, <2>1
  <2> QED
      BY <2>2 DEF IInv, KeyInv, SecondRunIsExplained
<1> QED
    BY <1>2, <1>3 DEF KeyInv

\* Keys are reserved once, and a second run has its reasons, whatever the next step.
LEMMA KeyKeeps == IInv /\ RequestNext => KeyInv'
<1> SUFFICES ASSUME IInv, RequestNext PROVE KeyInv'
    OBVIOUS
<1> USE DEF To
<1>t. /\ RequestTypeOK /\ KeysAreReserved /\ SecondRunIsExplained
      /\ order \in Seq(Requests) /\ Len(order) \in Nat /\ lapsed \in 0..Len(order)
      /\ \A q \in Requests : base[q] \in 0..Len(order)
      /\ \A n \in 1..Len(order) : order[n] \in Requests
    BY DEF IInv, KeyInv, RequestTypeOK
<1>1. ASSUME NEW r \in Requests, PassThrough(r) \/ Refuse(r) PROVE KeyInv'
  <2>1. base[r] = 0
      BY <1>t, <1>1 DEF PassThrough, Refuse, KeysAreReserved
  <2> QED
      BY <1>1, <2>1, KeysStay DEF PassThrough, Refuse
<1>2. ASSUME NEW r \in Requests, Replay(r) PROVE KeyInv'
  <2>1. /\ \A q \in Requests : stage'[q] = IF q = r THEN "replayed" ELSE stage[q]
        /\ UNCHANGED <<row, order, lapsed, base, hungUp>>
      BY <1>t, <1>2 DEF Replay, RequestTypeOK
  <2> QED
      BY <1>t, <2>1 DEF KeyInv, KeysAreReserved, SecondRunIsExplained
<1>3. ASSUME NEW r \in Requests, Miss(r) PROVE KeyInv'
  <2>1. /\ stage[r] = "new"
        /\ \A q \in Requests : stage'[q] = IF q = r THEN "missed" ELSE stage[q]
        /\ \A q \in Requests : base'[q] = IF q = r THEN Len(order) ELSE base[q]
        /\ UNCHANGED <<row, order, lapsed, hungUp>>
      BY <1>t, <1>3 DEF Miss, RequestTypeOK
  <2>2. KeysAreReserved'
      BY <1>t, <2>1 DEF KeysAreReserved
  <2>3. \A n \in 1..Len(order) : KeyOf[order[n]] = KeyOf[r] =>
          n <= lapsed \/ (row[order[n]] = "deleted" /\ order[n] \in hungUp)
    <3> SUFFICES ASSUME NEW n \in 1..Len(order), KeyOf[order[n]] = KeyOf[r], ~(n <= lapsed)
                 PROVE  row[order[n]] = "deleted" /\ order[n] \in hungUp
        OBVIOUS
    <3>1. n \in (lapsed + 1)..Len(order)
        BY <1>t
    <3>2. row[order[n]] = "deleted"
        BY <1>3, <3>1 DEF Miss, Active
    <3> QED
        BY <1>t, <3>2 DEF KeysAreReserved
  <2>4. SecondRunIsExplained'
      BY <1>t, <2>1, <2>3 DEF SecondRunIsExplained
  <2> QED
      BY <2>2, <2>4 DEF KeyInv
<1>4. ASSUME NEW r \in Requests, Reserve(r) PROVE KeyInv'
  <2>1. /\ stage[r] = "missed" /\ row[r] = "absent" /\ \A n \in 1..Len(order) : order[n] # r
        /\ \A q \in Requests : stage'[q] = IF q = r THEN "handling" ELSE stage[q]
        /\ \A q \in Requests : row'[q] = IF q = r THEN "in_progress" ELSE row[q]
        /\ order' = Append(order, r)
        /\ UNCHANGED <<lapsed, base, hungUp>>
      BY <1>t, <1>4 DEF Reserve, RequestTypeOK, KeysAreReserved
  <2>2. /\ Len(order') = Len(order) + 1 /\ order'[Len(order) + 1] = r
        /\ \A n \in 1..Len(order) : order'[n] = order[n] /\ row'[order[n]] = row[order[n]]
      BY <1>t, <2>1
  <2>3. KeysAreReserved'
    <3>1. ASSUME NEW q \in Requests, row'[q] = "absent", NEW n \in 1..Len(order') PROVE order'[n] # q
      <4>1. q # r /\ row[q] = "absent"
          BY <2>1, <3>1
      <4>2. CASE n = Len(order) + 1
          BY <2>2, <4>1, <4>2
      <4>3. CASE n \in 1..Len(order)
          BY <1>t, <2>2, <4>1, <4>3 DEF KeysAreReserved
      <4> QED
          BY <1>t, <2>2, <4>2, <4>3
    <3> QED
        BY <1>t, <2>1, <3>1 DEF KeysAreReserved
  <2>4. SecondRunIsExplained'
    <3> SUFFICES ASSUME NEW q \in Requests, NEW n \in 1..base[q], KeyOf[order'[n]] = KeyOf[q],
                        stage'[q] \notin {"new", "refused", "replayed"}
                 PROVE  n <= lapsed \/ (row'[order'[n]] = "deleted" /\ order'[n] \in hungUp)
        BY <2>1 DEF SecondRunIsExplained
    <3>1. n \in 1..Len(order) /\ base[q] \in 0..Len(order)
        BY <1>t
    <3>2. stage[q] \notin {"new", "refused", "replayed"}
        BY <2>1
    <3>3. order'[n] = order[n] /\ row'[order[n]] = row[order[n]]
        BY <2>2, <3>1
    <3> QED
        BY <1>t, <3>2, <3>3 DEF SecondRunIsExplained
  <2> QED
      BY <2>3, <2>4 DEF KeyInv
<1>5. ASSUME NEW r \in Requests, HangUp(r) PROVE KeyInv'
  <2>1. /\ UNCHANGED <<stage, row, order, lapsed, base>> /\ hungUp \subseteq hungUp'
      BY <1>5 DEF HangUp
  <2> QED
      BY <1>t, <2>1 DEF KeyInv, KeysAreReserved, SecondRunIsExplained
<1>6. ASSUME NEW r \in Requests, Release(r) \/ Store(r) PROVE KeyInv'
  <2>1. /\ row[r] = "in_progress" /\ row'[r] # "absent" /\ (row'[r] = "deleted" => r \in hungUp)
        /\ \A q \in Requests : q # r => row'[q] = row[q]
        /\ UNCHANGED <<stage, order, lapsed, base, hungUp>>
      BY <1>t, <1>6 DEF Release, Store, RequestTypeOK
  <2>2. KeysAreReserved'
      BY <1>t, <2>1 DEF KeysAreReserved
  <2>3. \A q \in Requests : row[q] = "deleted" => row'[q] = "deleted"
      BY <2>1
  <2>4. SecondRunIsExplained'
    <3> SUFFICES ASSUME NEW q \in Requests, NEW n \in 1..base[q], KeyOf[order[n]] = KeyOf[q],
                        stage[q] \notin {"new", "refused", "replayed"}
                 PROVE  n <= lapsed \/ (row'[order[n]] = "deleted" /\ order[n] \in hungUp)
        BY <2>1 DEF SecondRunIsExplained
    <3>1. n \in 1..Len(order)
        BY <1>t
    <3> QED
        BY <1>t, <2>3, <3>1 DEF SecondRunIsExplained
  <2> QED
      BY <2>2, <2>4 DEF KeyInv
<1>7. ASSUME NEW r \in Requests,
             \/ Answer(r) \/ ReadFirst(r) \/ Allocate(r) \/ AppendAudit(r) \/ Commit(r)
             \/ Fail(r) \/ Crash(r)
      PROVE  KeyInv'
  <2>1. /\ UNCHANGED keyVars
        /\ stage[r] \notin {"new", "refused", "replayed"}
        /\ \E s \in {"answered", "open", "numbered", "audited", "done", "dead"} : stage' = [stage EXCEPT ![r] = s]
    <3> DEFINE Moves == \E s \in {"answered", "open", "numbered", "audited", "done", "dead"} : stage' = [stage EXCEPT ![r] = s]
    <3>1. CASE Answer(r) \/ ReadFirst(r)
      <4>1. stage[r] \in {"done", "handling"} /\ UNCHANGED keyVars /\ Moves
          BY <3>1 DEF Answer, ReadFirst
      <4> QED
          BY <4>1
    <3>2. CASE Allocate(r)
      <4>1. stage[r] \in {"open", "handling"} /\ UNCHANGED keyVars /\ Moves
          BY <3>2 DEF Allocate
      <4> QED
          BY <4>1
    <3>3. CASE AppendAudit(r) \/ Commit(r)
      <4>1. stage[r] \in {"numbered", "audited"} /\ UNCHANGED keyVars /\ Moves
          BY <3>3 DEF AppendAudit, Commit
      <4> QED
          BY <4>1
    <3>4. CASE Fail(r) \/ Crash(r)
      <4>1. stage[r] \in {"missed", "handling"} \cup InTransaction \cup {"done"}
          BY <3>4 DEF Fail, Crash, Handling
      <4>2. UNCHANGED keyVars /\ Moves
          BY <3>4 DEF Fail, Crash
      <4> QED
          BY <4>1, <4>2 DEF InTransaction
    <3> QED
        BY <1>7, <3>1, <3>2, <3>3, <3>4
  <2> QED
      BY <2>1, KeysStay
<1>8. ASSUME Expire PROVE KeyInv'
  <2>1. UNCHANGED <<stage, row, order, base, hungUp>> /\ lapsed' = lapsed + 1
      BY <1>8 DEF Expire
  <2>2. KeysAreReserved'
      BY <1>t, <2>1 DEF KeysAreReserved
  <2>3. SecondRunIsExplained'
    <3> SUFFICES ASSUME NEW q \in Requests, NEW n \in 1..base[q], KeyOf[order[n]] = KeyOf[q],
                        stage[q] \notin {"new", "refused", "replayed"}
                 PROVE  n <= lapsed + 1 \/ (row[order[n]] = "deleted" /\ order[n] \in hungUp)
        BY <2>1 DEF SecondRunIsExplained
    <3>1. n <= lapsed \/ (row[order[n]] = "deleted" /\ order[n] \in hungUp)
        BY <1>t DEF SecondRunIsExplained
    <3> QED
        BY <1>t, <3>1
  <2> QED
      BY <2>2, <2>3 DEF KeyInv
<1> QED
    BY <1>1, <1>2, <1>3, <1>4, <1>5, <1>6, <1>7, <1>8 DEF RequestNext

-----------------------------------------------------------------------------
(* The theorems                                                            *)

\* Every step preserves the invariant.
LEMMA StepKeeps == IInv /\ [RequestNext]_requestVars => IInv'
<1>1. ASSUME IInv, RequestNext PROVE IInv'
    BY <1>1, TypeKeeps, NumberKeeps, TrailKeeps, KeyKeeps DEF IInv
<1>2. ASSUME IInv, UNCHANGED requestVars PROVE IInv'
  <2>1. /\ UNCHANGED <<body, stage, row, order, lapsed, base, hungUp, served, last, holder>>
        /\ UNCHANGED <<number, committed, view, trail, prev>>
      BY <1>2 DEF requestVars, keyVars, sequenceVars, auditVars
  <2>2. RequestTypeOK'
      BY <1>2, <2>1 DEF IInv, RequestTypeOK
  <2>3. NumberInv'
      BY <1>2, <2>1 DEF IInv, NumberInv, LockIsHeld, NumbersFollow, NumbersAreGapFree
  <2>4. TrailInv'
      BY <1>2, <2>1 DEF IInv, TrailInv, TrailIsOrdered, LinksFollow
  <2>5. KeyInv'
      BY <1>2, <2>1 DEF IInv, KeyInv, KeysAreReserved, SecondRunIsExplained
  <2> QED
      BY <2>2, <2>3, <2>4, <2>5 DEF IInv
<1> QED
    BY <1>1, <1>2

\* The inductive invariant holds in every reachable state.
THEOREM RequestInvariantHolds == RequestSpec => []IInv
    BY InitEstablishes, StepKeeps, PTL DEF RequestSpec

\* Every variable keeps its type, whatever the requests and their interleaving.
THEOREM RequestTypesHold == RequestSpec => []RequestTypeOK
<1>1. IInv => RequestTypeOK
    BY DEF IInv
<1> QED
    BY <1>1, RequestInvariantHolds, PTL

\* The numbers of the committed transactions are 1 up to the counter, each once,
\* although transactions roll back and processes die with a number in hand.
THEOREM NumbersAlwaysGapFree == RequestSpec => []NumbersAreGapFree
<1>1. IInv => NumbersAreGapFree
    BY DEF IInv, NumberInv
<1> QED
    BY <1>1, RequestInvariantHolds, PTL

\* No audit row names one that was rolled back, and transactions that read nothing
\* before they took their number never share a predecessor: the trail lists them in the
\* order in which the lock let them pass.
THEOREM LinksAlwaysSound == RequestSpec => []LinksAreSound
<1>1. ASSUME IInv PROVE LinksAreSound
  <2>1. /\ trail \in Seq(Requests) /\ Len(trail) \in Nat /\ committed \subseteq Requests
        /\ \A m, n \in 1..Len(trail) : trail[m] = trail[n] => m = n
    <3>1. trail \in Seq(Requests) /\ IsInjective(trail) /\ committed \subseteq Requests
        BY <1>1 DEF IInv, RequestTypeOK
    <3>2. DOMAIN trail = 1..Len(trail)
        BY <3>1
    <3> QED
        BY <3>1, <3>2 DEF IsInjective
  <2>2. \A n \in 1..Len(trail) :
          /\ prev[trail[n]] \in committed \cup {None}
          /\ trail[n] \notin ReadsFirst => prev[trail[n]] = IF n = 1 THEN None ELSE trail[n - 1]
      BY <1>1 DEF IInv, TrailInv, LinksFollow
  <2>3. \A r \in committed : \E n \in 1..Len(trail) : trail[n] = r
      BY <1>1, <2>1 DEF IInv, TrailInv, TrailIsOrdered
  <2>4. ASSUME NEW q \in committed \ ReadsFirst, NEW r \in committed \ ReadsFirst, q # r
        PROVE  prev[q] # prev[r]
    <3>1. PICK m \in 1..Len(trail) : trail[m] = q
        BY <2>3
    <3>2. PICK n \in 1..Len(trail) : trail[n] = r
        BY <2>3
    <3>3. /\ prev[q] = IF m = 1 THEN None ELSE trail[m - 1]
          /\ prev[r] = IF n = 1 THEN None ELSE trail[n - 1]
          /\ m # n
        BY <2>2, <2>4, <3>1, <3>2
    <3>4. /\ m # 1 => m - 1 \in 1..Len(trail) /\ trail[m - 1] \in Requests
          /\ n # 1 => n - 1 \in 1..Len(trail) /\ trail[n - 1] \in Requests
        BY <2>1
    <3>5. m # 1 /\ n # 1 => trail[m - 1] # trail[n - 1]
      <4>1. m - 1 # n - 1
          BY <3>3
      <4> QED
          BY <2>1, <3>4, <4>1
    <3> QED
        BY <3>3, <3>4, <3>5, RequestAssumption
  <2> QED
      BY <2>2, <2>3, <2>4 DEF LinksAreSound
<1> QED
    BY <1>1, RequestInvariantHolds, PTL

\* A second run under a key follows a lookup that came too early, a client that hung up
\* or a reservation that lapsed.
THEOREM SecondRunAlwaysExplained == RequestSpec => []SecondRunIsExplained
<1>1. IInv => SecondRunIsExplained
    BY DEF IInv, KeyInv
<1> QED
    BY <1>1, RequestInvariantHolds, PTL
=============================================================================
