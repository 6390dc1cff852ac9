--------------------------- MODULE IngressProofs ---------------------------
(***************************************************************************)
(* Proofs about the router's dealings with GitHub, RouterIngress and       *)
(* HookReconcile, for any deliveries, handlers, capacities, repositories   *)
(* and requests.  MCRouterIngress, which this module extends, has the      *)
(* names of both.                                                          *)
(***************************************************************************)
EXTENDS MCRouterIngress, SequenceTheorems, FiniteSetTheorems, WellFoundedInduction, TLAPS

-----------------------------------------------------------------------------
(* The inductive invariant of the ingress                                   *)

Phases == {"admit", "edge", "defer", "deferWake", "enqueue", "managed", "wake", "release"}
Threads == [pc : Phases, delivery : Deliveries, skip : BOOLEAN]
Busy == {h \in Handlers : handlers[h] # NoThread}

Types ==
    /\ kind \in [Deliveries -> Kinds]
    /\ recorded \in Seq(Deliveries)
    /\ scope \in [Deliveries -> {"none", "queued", "claimed", "parked", "done"}]
    /\ handlers \in [Handlers -> {NoThread} \union Threads]
    /\ effects \in [Deliveries -> SUBSET {"edge", "scope"}]
    /\ scopes \in [Deliveries -> Nat] /\ failures \in [Deliveries -> Nat]
    /\ accepted \subseteq Deliveries /\ forgotten \subseteq Deliveries
    /\ struck \subseteq Deliveries

Distinct(q) == \A m, n \in 1..Len(q) : q[m] = q[n] => m = n

\* A delivery has one record, and one that is dispatched has one still unless it was evicted.
RecordsAreClaims ==
    /\ Distinct(recorded)
    /\ \A h \in Handlers : Of(h) \in Deliveries \ forgotten => Seen(Of(h))

\* What a handler has done for its delivery when it gets where it is.
PhaseReached(pc, d) ==
    /\ pc \in {"managed", "wake", "deferWake"} => effects[d] # {}
    /\ pc = "managed" => kind[d] = "comment"

PhasesReached == \A h \in Handlers : handlers[h] # NoThread => PhaseReached(handlers[h].pc, Of(h))

\* An attempt that left its record in place was answered with an error.
StruckHasFailed == \A d \in struck : failures[d] > 0

\* How many scopes an attempt may have made when its handler is at pc.
MadeBy(pc, d) ==
    IF kind[d] = "comment"
    THEN IF pc \in {"admit", "enqueue"} THEN 0 ELSE IF pc \in {"managed", "edge", "defer"} THEN 1 ELSE 2
    ELSE IF pc \in {"admit", "enqueue", "edge", "defer"} THEN 0 ELSE 1

\* Every scope of a delivery is paid for by a failure, by the attempt under way, or, while
\* the delivery is recorded, by the attempt that was accepted.
ScopesArePaid ==
    \A d \in Deliveries \ forgotten :
        /\ scopes[d] <= PerAttempt(d) * (1 + failures[d])
        /\ ~Seen(d) => scopes[d] <= PerAttempt(d) * failures[d]
        /\ \A h \in Handlers : Of(h) = d =>
               scopes[d] <= PerAttempt(d) * failures[d] + MadeBy(handlers[h].pc, d)

IngressInv ==
    /\ Types /\ IsFiniteSet(Busy)
    /\ RecordsAreClaims /\ PhasesReached /\ StruckHasFailed
    /\ RecordedUnlessStruck /\ AcceptedOrReported
    /\ OneDispatcher /\ ScopesArePaid

-----------------------------------------------------------------------------
(* Lemmas about the list of records                                         *)

\* Removing the entry at a place keeps the type of a sequence, shortens it by one and moves the later entries up.
LEMMA RemoveAtProperties ==
    ASSUME NEW S, NEW s \in Seq(S), NEW i \in 1..Len(s)
    PROVE  /\ RemoveAt(s, i) \in Seq(S) /\ Len(RemoveAt(s, i)) = Len(s) - 1
           /\ \A n \in 1..(Len(s) - 1) : RemoveAt(s, i)[n] = IF n < i THEN s[n] ELSE s[n + 1]
<1> DEFINE a == SubSeq(s, 1, i - 1)
           b == SubSeq(s, i + 1, Len(s))
<1>1. a \in Seq(S) /\ Len(a) = i - 1 /\ \A n \in 1..(i - 1) : a[n] = s[n]
  BY SubSeqProperties
<1>2. b \in Seq(S) /\ Len(b) = Len(s) - i /\ \A n \in 1..(Len(s) - i) : b[n] = s[i + n]
  BY SubSeqProperties
<1>3. RemoveAt(s, i) = a \o b
  BY DEF RemoveAt
<1> HIDE DEF a, b
<1>4. /\ a \o b \in Seq(S) /\ Len(a \o b) = Len(a) + Len(b)
      /\ \A k \in 1..(Len(a) + Len(b)) : (a \o b)[k] = IF k <= Len(a) THEN a[k] ELSE b[k - Len(a)]
  BY <1>1, <1>2, ConcatProperties
<1>5. ASSUME NEW n \in 1..(Len(s) - 1)
      PROVE  (a \o b)[n] = IF n < i THEN s[n] ELSE s[n + 1]
  <2>1. CASE n < i
    BY <2>1, <1>1, <1>2, <1>4
  <2>2. CASE ~(n < i)
    <3>1. n - Len(a) \in 1..(Len(s) - i) /\ i + (n - Len(a)) = n + 1
      BY <1>1, <2>2
    <3>2. n \in 1..(Len(a) + Len(b)) /\ ~(n <= Len(a))
      BY <1>1, <1>2, <2>2
    <3>3. (a \o b)[n] = b[n - Len(a)]
      BY <1>4, <3>2
    <3>4. b[n - Len(a)] = s[n + 1]
      BY <1>2, <3>1
    <3>6. (a \o b)[n] = s[n + 1]
      BY <3>3, <3>4
    <3>7. QED
      BY <2>2, <3>6, Zenon
  <2>3. QED
    BY <2>1, <2>2, Zenon
<1>6. QED
  BY <1>1, <1>2, <1>3, <1>4, <1>5

\* Deleting a record deletes that record.
LEMMA UnrecordProperties ==
    ASSUME recorded \in Seq(Deliveries), Distinct(recorded), NEW d \in Deliveries, Unrecord(d)
    PROVE  /\ recorded' \in Seq(Deliveries) /\ Distinct(recorded')
           /\ \A e \in Deliveries : Seen(e)' <=> Seen(e) /\ e # d
<1>1. CASE Seen(d)
  <2>1. PICK i \in 1..Len(recorded) : recorded[i] = d /\ recorded' = RemoveAt(recorded, i)
    BY <1>1 DEF Unrecord
  <2>2. /\ recorded' \in Seq(Deliveries) /\ Len(recorded') = Len(recorded) - 1
        /\ \A n \in 1..(Len(recorded) - 1) : recorded'[n] = IF n < i THEN recorded[n] ELSE recorded[n + 1]
    BY <2>1, RemoveAtProperties
  <2>3. Distinct(recorded')
    BY <2>2 DEF Distinct
  <2>4. ~Seen(d)'
    BY <2>1, <2>2 DEF Distinct, Seen
  <2>5. ASSUME NEW e \in Deliveries, Seen(e)'
        PROVE  Seen(e)
    BY <2>2, <2>5 DEF Seen
  <2>6. ASSUME NEW e \in Deliveries, Seen(e), e # d
        PROVE  Seen(e)'
    <3>1. PICK n \in 1..Len(recorded) : recorded[n] = e
      BY <2>6 DEF Seen
    <3>2. CASE n < i
      BY <2>2, <3>1, <3>2 DEF Seen
    <3>3. CASE n > i
      <4>1. n - 1 \in 1..(Len(recorded) - 1) /\ recorded'[n - 1] = recorded[n]
        BY <2>2, <3>3
      <4>2. QED
        BY <2>2, <3>1, <4>1 DEF Seen
    <3>4. QED
      BY <2>1, <2>6, <3>1, <3>2, <3>3
  <2>7. QED
    BY <2>2, <2>3, <2>4, <2>5, <2>6
<1>2. CASE ~Seen(d)
  BY <1>2 DEF Unrecord, Seen, Distinct
<1>3. QED
  BY <1>1, <1>2

\* Whatever the capacity, the new record is kept and nothing else is added.
LEMMA RecordProperties ==
    ASSUME recorded \in Seq(Deliveries), Distinct(recorded), NEW d \in Deliveries, ~Seen(d),
           recorded' = Capped(Append(recorded, d))
    PROVE  /\ recorded' \in Seq(Deliveries) /\ Distinct(recorded')
           /\ Seen(d)'
           /\ \A e \in Deliveries : Seen(e)' => Seen(e) \/ e = d
<1> DEFINE a == Append(recorded, d)
<1>1. /\ a \in Seq(Deliveries) /\ Len(a) = Len(recorded) + 1 /\ Len(recorded) \in Nat
      /\ \A n \in 1..Len(recorded) : a[n] = recorded[n]
      /\ a[Len(recorded) + 1] = d
  OBVIOUS
<1>2. Distinct(a)
  BY <1>1 DEF Distinct, Seen
<1>3. \A n \in 1..Len(a) : a[n] = d \/ \E m \in 1..Len(recorded) : recorded[m] = a[n]
  BY <1>1
<1>4. CASE Len(a) > MaxEntries
  <2> DEFINE k == Len(a) - MaxEntries
  <2>1. MaxEntries \in Nat \ {0} /\ k \in Nat /\ k >= 1 /\ k + MaxEntries = Len(a)
    BY <1>1, <1>4, IngressAssumption
  <2> HIDE DEF a
  <2>2. \A i \in (k + 1)..Len(a) : a[i] \in Deliveries
    BY <1>1, <2>1
  <2>3. recorded' = SubSeq(a, k + 1, Len(a))
    BY <1>4 DEF Capped, a
  <2> HIDE DEF k
  <2>4. /\ recorded' \in Seq(Deliveries) /\ Len(recorded') = MaxEntries
        /\ \A i \in 1..MaxEntries : recorded'[i] = a[k + i]
    BY <1>1, <2>1, <2>2, <2>3, SubSeqProperties
  <2>5. Distinct(recorded')
    BY <1>1, <1>2, <2>1, <2>4 DEF Distinct
  <2>6. recorded'[MaxEntries] = d
    BY <1>1, <2>1, <2>4
  <2>7. Seen(d)'
    BY <2>1, <2>4, <2>6 DEF Seen
  <2>8. ASSUME NEW e \in Deliveries, Seen(e)'
        PROVE  Seen(e) \/ e = d
    <3>1. PICK i \in 1..MaxEntries : recorded'[i] = e
      BY <2>4, <2>8 DEF Seen
    <3>2. k + i \in 1..Len(a) /\ a[k + i] = e
      BY <2>1, <2>4, <3>1
    <3>3. QED
      BY <1>3, <3>2 DEF Seen
  <2>9. QED
    BY <2>4, <2>5, <2>7, <2>8
<1>5. CASE Len(a) <= MaxEntries
  <2>1. recorded' = a
    BY <1>1, <1>5, IngressAssumption DEF Capped
  <2> HIDE DEF a
  <2>2. Seen(d)'
    BY <1>1, <2>1 DEF Seen
  <2>3. \A e \in Deliveries : Seen(e)' => Seen(e) \/ e = d
    BY <1>3, <2>1 DEF Seen
  <2>4. QED
    BY <1>1, <1>2, <2>1, <2>2, <2>3
<1>6. QED
  BY <1>1, <1>4, <1>5, IngressAssumption

-----------------------------------------------------------------------------
(* Lemmas about the steps of a handler                                      *)

\* A step for d only adds to what was done, and only for d.
Grows(d) ==
    /\ scope' \in [Deliveries -> {"none", "queued", "claimed", "parked", "done"}]
    /\ effects' \in [Deliveries -> SUBSET {"edge", "scope"}]
    /\ scopes' \in [Deliveries -> Nat]
    /\ \A e \in Deliveries : effects[e] \subseteq effects'[e]
    /\ \A e \in Deliveries \ {d} : scopes'[e] = scopes[e]

\* One attempt makes one or two scopes, and what it has made so far never exceeds that.
LEMMA PerAttemptProperties ==
    ASSUME kind \in [Deliveries -> Kinds], NEW d \in Deliveries, NEW n \in Nat
    PROVE  /\ PerAttempt(d) \in 1..2
           /\ PerAttempt(d) * (n + 1) = PerAttempt(d) * n + PerAttempt(d)
           /\ PerAttempt(d) * (1 + n) = PerAttempt(d) * n + PerAttempt(d)
           /\ PerAttempt(d) * n \in Nat
           /\ \A pc \in Phases : MadeBy(pc, d) \in 0..PerAttempt(d)
BY DEF PerAttempt, MadeBy

\* A handler that is not idle works on a delivery, in one of the phases.
LEMMA BusyProperties ==
    ASSUME Types, NEW h \in Handlers, handlers[h] # NoThread
    PROVE  Of(h) \in Deliveries /\ handlers[h] \in Threads /\ handlers[h].pc \in Phases
BY DEF Types, Of, Threads

\* A handler works on a delivery exactly when it is not idle.
LEMMA IdleProperties ==
    ASSUME Types, NEW h \in Handlers
    PROVE  Of(h) \in Deliveries <=> handlers[h] # NoThread
BY IngressAssumption DEF Types, Of, Threads, NoThread

\* A handler that goes on with its delivery keeps the invariant, if it makes no more scopes than its phase pays for
\* and its new phase says nothing untrue of the record.
LEMMA ContinuesKeeps ==
    ASSUME IngressInv, NEW h \in Handlers, handlers[h] # NoThread, NEW d \in Deliveries, Of(h) = d,
           NEW t \in Threads, t.delivery = d,
           handlers' = [handlers EXCEPT ![h] = t],
           UNCHANGED <<kind, recorded, forgotten, failures, accepted, struck>>,
           Grows(d), PhaseReached(t.pc, d)',
           scopes'[d] + MadeBy(handlers[h].pc, d) <= scopes[d] + MadeBy(t.pc, d)
    PROVE  IngressInv'
<1>1. Types /\ d \in Deliveries /\ handlers[h].pc \in Phases /\ t.pc \in Phases
  BY BusyProperties DEF IngressInv, Threads
<1>2. Types'
  BY <1>1 DEF Types, Grows
<1>3. /\ \A g \in Handlers : Of(g)' = Of(g)
      /\ \A g \in Handlers \ {h} : handlers'[g] = handlers[g]
      /\ handlers'[h] = t
  BY <1>1 DEF Types, Of
<1>4. t # NoThread
  BY <1>1 DEF Phases, NoThread
<1>5. Busy' = Busy
  BY <1>3, <1>4 DEF Busy
<1>6. /\ \A e \in Deliveries : Seen(e)' <=> Seen(e)
      /\ \A e \in Deliveries : WorkedOn(e)' <=> WorkedOn(e)
      /\ \A e \in Deliveries : Preserved(e) => Preserved(e)'
  BY <1>3 DEF Seen, WorkedOn, Preserved, Grows
<1>7. RecordsAreClaims'
  BY <1>3, <1>6 DEF IngressInv, RecordsAreClaims, Distinct
<1>8. PhasesReached'
  <2>1. ASSUME NEW g \in Handlers, handlers'[g] # NoThread
        PROVE  PhaseReached(handlers[g].pc, Of(g))'
    <3>1. CASE g = h
      BY <1>3, <3>1
    <3>2. CASE g # h
      <4>1. handlers'[g] = handlers[g] /\ Of(g)' = Of(g) /\ Of(g) \in Deliveries
        BY <1>1, <1>3, <2>1, <3>2, BusyProperties
      <4>2. PhaseReached(handlers[g].pc, Of(g))
        BY <2>1, <4>1 DEF IngressInv, PhasesReached
      <4>3. QED
        BY <4>1, <4>2 DEF PhaseReached, Grows
    <3>3. QED
      BY <3>1, <3>2
  <2>2. QED
    BY <2>1 DEF PhasesReached, PhaseReached
<1>9. StruckHasFailed' /\ RecordedUnlessStruck' /\ AcceptedOrReported'
  BY <1>6 DEF IngressInv, Types, StruckHasFailed, RecordedUnlessStruck, AcceptedOrReported
<1>10. OneDispatcher'
  BY <1>3 DEF IngressInv, OneDispatcher
<1>11. ScopesArePaid'
  <2>1. \A e \in Deliveries : PerAttempt(e)' = PerAttempt(e)
                              /\ \A pc \in Phases : MadeBy(pc, e)' = MadeBy(pc, e)
    BY DEF PerAttempt, MadeBy
  <2>2. ASSUME NEW e \in Deliveries \ forgotten
        PROVE  /\ scopes'[e] <= PerAttempt(e) * (1 + failures[e])
               /\ ~Seen(e) => scopes'[e] <= PerAttempt(e) * failures[e]
               /\ \A g \in Handlers : Of(g) = e =>
                     scopes'[e] <= PerAttempt(e) * failures[e] + MadeBy(handlers'[g].pc, e)
    <3>1. CASE e # d
      <4>1. scopes'[e] = scopes[e] /\ \A g \in Handlers : Of(g) = e => handlers'[g] = handlers[g]
        BY <1>3, <3>1 DEF Grows
      <4>2. QED
        BY <4>1 DEF IngressInv, ScopesArePaid
    <3>2. CASE e = d
      <4>1. Seen(d) /\ \A g \in Handlers : Of(g) = d => g = h
        BY <1>1, <2>2, <3>2 DEF IngressInv, RecordsAreClaims, OneDispatcher
      <4>2. scopes[d] <= PerAttempt(d) * failures[d] + MadeBy(handlers[h].pc, d)
        BY <2>2, <3>2 DEF IngressInv, ScopesArePaid
      <4>3. /\ PerAttempt(d) * failures[d] \in Nat /\ scopes[d] \in Nat /\ scopes'[d] \in Nat
            /\ MadeBy(t.pc, d) \in 0..PerAttempt(d) /\ MadeBy(handlers[h].pc, d) \in 0..PerAttempt(d)
            /\ PerAttempt(d) \in 1..2
            /\ PerAttempt(d) * (1 + failures[d]) = PerAttempt(d) * failures[d] + PerAttempt(d)
        BY <1>1, <1>2, PerAttemptProperties DEF Types
      <4>4. /\ scopes'[d] <= PerAttempt(d) * failures[d] + MadeBy(t.pc, d)
            /\ scopes'[d] <= PerAttempt(d) * failures[d] + PerAttempt(d)
        BY <4>2, <4>3
      <4>5. QED
        BY <1>3, <3>2, <4>1, <4>3, <4>4
    <3>3. QED
      BY <3>1, <3>2
  <2>3. \A g \in Handlers : Of(g)' \in Deliveries => handlers'[g].pc \in Phases
    <3>1. ASSUME NEW g \in Handlers, Of(g)' \in Deliveries
          PROVE  handlers'[g].pc \in Phases
      BY <1>2, <3>1, IngressAssumption DEF Types, Threads, NoThread, Of
    <3>2. QED
      BY <3>1
  <2>4. QED
    BY <1>3, <1>6, <2>1, <2>2, <2>3 DEF ScopesArePaid
<1>12. QED
  BY <1>2, <1>5, <1>7, <1>8, <1>9, <1>10, <1>11 DEF IngressInv

\* The three ends of a handler that worked on d: it answers 202 after the event was
\* dispatched, it fails and leaves the record, or it fails and deletes the record.
AnswersAfter(d) ==
    /\ accepted' = accepted \union {d} /\ (effects'[d] # {} \/ kind[d] = "noop")
    /\ UNCHANGED <<recorded, failures, struck>>
FailsStruck(d) ==
    /\ failures' = [failures EXCEPT ![d] = @ + 1] /\ struck' = struck \union {d}
    /\ UNCHANGED <<recorded, accepted>>
FailsReleased(d) ==
    /\ failures' = [failures EXCEPT ![d] = @ + 1] /\ Unrecord(d)
    /\ UNCHANGED <<accepted, struck>>

\* A handler that ends keeps the invariant, whichever of the three ends it has: answered, failed with the record
\* left behind, failed with the record released.
LEMMA EndsKeep ==
    ASSUME IngressInv, NEW h \in Handlers, handlers[h] # NoThread, NEW d \in Deliveries, Of(h) = d,
           handlers' = [handlers EXCEPT ![h] = NoThread],
           UNCHANGED <<kind, forgotten>>,
           Grows(d),
           scopes'[d] + MadeBy(handlers[h].pc, d) <= scopes[d] + PerAttempt(d),
           AnswersAfter(d) \/ FailsStruck(d) \/ FailsReleased(d)
    PROVE  IngressInv'
<1>1. Types /\ d \in Deliveries /\ handlers[h].pc \in Phases
  BY BusyProperties DEF IngressInv
<1>2. /\ recorded' \in Seq(Deliveries) /\ Distinct(recorded')
      /\ \A e \in Deliveries : Seen(e)' => Seen(e)
      /\ \A e \in Deliveries \ {d} : Seen(e)' <=> Seen(e)
      /\ FailsReleased(d) => ~Seen(d)'
      /\ ~FailsReleased(d) => UNCHANGED recorded
  <2>1. CASE FailsReleased(d)
    BY <1>1, <2>1, UnrecordProperties DEF IngressInv, Types, RecordsAreClaims, FailsReleased
  <2>2. CASE ~FailsReleased(d)
    <3>1. UNCHANGED recorded
      BY <2>2 DEF AnswersAfter, FailsStruck
    <3>2. QED
      BY <1>1, <2>2, <3>1 DEF IngressInv, Types, RecordsAreClaims, Distinct, Seen
  <2>3. QED
    BY <2>1, <2>2
<1>3. /\ failures' \in [Deliveries -> Nat]
      /\ \A e \in Deliveries : failures[e] <= failures'[e]
      /\ \A e \in Deliveries \ {d} : failures'[e] = failures[e]
      /\ ~AnswersAfter(d) => failures'[d] = failures[d] + 1
  <2>1. CASE AnswersAfter(d)
    BY <1>1, <2>1 DEF Types, AnswersAfter
  <2>2. CASE ~AnswersAfter(d)
    <3>1. failures' = [failures EXCEPT ![d] = @ + 1]
      BY <2>2 DEF FailsStruck, FailsReleased
    <3>2. QED
      BY <1>1, <2>2, <3>1 DEF Types
  <2>3. QED
    BY <2>1, <2>2
<1>4. Types'
  BY <1>1, <1>2, <1>3 DEF Types, Grows, AnswersAfter, FailsStruck, FailsReleased
<1>5. /\ \A g \in Handlers \ {h} : handlers'[g] = handlers[g]
      /\ handlers'[h] = NoThread
  BY <1>1 DEF Types
<1>6. Of(h)' \notin Deliveries
  BY <1>5, IngressAssumption DEF Of, NoThread
<1>7. \A g \in Handlers : Of(g)' \in Deliveries => g # h /\ Of(g)' = Of(g) /\ handlers'[g] = handlers[g]
  BY <1>5, <1>6 DEF Of
<1>8. IsFiniteSet(Busy')
  <2>1. Busy' \subseteq Busy
    BY <1>5 DEF Busy
  <2>2. QED
    BY <2>1, FS_Subset DEF IngressInv
<1>9. \A e \in Deliveries : /\ WorkedOn(e)' => WorkedOn(e)
                            /\ e # d => (WorkedOn(e) => WorkedOn(e)')
                            /\ Preserved(e) => Preserved(e)'
  BY <1>5, <1>7 DEF WorkedOn, Preserved, Grows, Of
<1>10. RecordsAreClaims'
  <2>1. ASSUME NEW g \in Handlers, Of(g)' \in Deliveries \ forgotten
        PROVE  Seen(Of(g))'
    <3>1. g # h /\ Of(g)' = Of(g) /\ Seen(Of(g))
      BY <1>7, <2>1 DEF IngressInv, RecordsAreClaims
    <3>2. Of(g) # d
      BY <1>1, <2>1, <3>1 DEF IngressInv, OneDispatcher
    <3>3. Seen(Of(g)) <=> \E n \in 1..Len(recorded) : recorded[n] = Of(g)
      BY DEF Seen
    <3>4. \E n \in 1..Len(recorded') : recorded'[n] = Of(g)
      BY <1>2, <2>1, <3>1, <3>2 DEF Seen
    <3>5. QED
      BY <3>1, <3>4 DEF Seen
  <2>2. QED
    BY <1>2, <2>1 DEF RecordsAreClaims
<1>11. PhasesReached'
  <2>1. ASSUME NEW g \in Handlers, handlers'[g] # NoThread
        PROVE  PhaseReached(handlers[g].pc, Of(g))'
    <3>1. handlers'[g] = handlers[g] /\ Of(g)' = Of(g) /\ Of(g) \in Deliveries /\ handlers[g] # NoThread
      BY <1>1, <1>5, <2>1, BusyProperties DEF Of
    <3>2. PhaseReached(handlers[g].pc, Of(g))
      BY <3>1 DEF IngressInv, PhasesReached
    <3>3. QED
      BY <3>1, <3>2 DEF PhaseReached, Grows
  <2>2. QED
    BY <2>1 DEF PhasesReached, PhaseReached
<1>12. StruckHasFailed'
  BY <1>1, <1>3 DEF IngressInv, Types, StruckHasFailed, AnswersAfter, FailsStruck, FailsReleased
<1>13. RecordedUnlessStruck'
  <2>1. ASSUME NEW e \in Deliveries \ struck', Seen(e)', ~WorkedOn(e)'
        PROVE  Preserved(e)'
    <3>1. CASE e = d
      <4>1. AnswersAfter(d)
        BY <1>2, <2>1, <3>1 DEF FailsStruck
      <4>2. QED
        BY <3>1, <4>1 DEF AnswersAfter, Preserved
    <3>2. CASE e # d
      <4>1. e \notin struck /\ Seen(e) /\ ~WorkedOn(e)
        BY <1>2, <1>9, <2>1, <3>2 DEF AnswersAfter, FailsStruck, FailsReleased
      <4>2. QED
        BY <1>9, <2>1, <4>1 DEF IngressInv, RecordedUnlessStruck
    <3>3. QED
      BY <3>1, <3>2
  <2>2. QED
    BY <2>1 DEF RecordedUnlessStruck
<1>14. AcceptedOrReported'
  <2>1. ASSUME NEW e \in accepted', ~WorkedOn(e)'
        PROVE  Preserved(e)' \/ failures'[e] > 0
    <3>1. CASE e = d
      <4>1. CASE AnswersAfter(d)
        BY <3>1, <4>1 DEF AnswersAfter, Preserved
      <4>2. CASE ~AnswersAfter(d)
        BY <1>1, <1>3, <3>1, <4>2 DEF Types
      <4>3. QED
        BY <4>1, <4>2
    <3>2. CASE e # d
      <4>1. e \in accepted /\ e \in Deliveries /\ ~WorkedOn(e)
        BY <1>1, <1>4, <1>9, <2>1, <3>2 DEF Types, AnswersAfter, FailsStruck, FailsReleased
      <4>2. Preserved(e) \/ failures[e] > 0
        BY <4>1 DEF IngressInv, AcceptedOrReported
      <4>3. QED
        BY <1>3, <1>9, <3>2, <4>1, <4>2
    <3>3. QED
      BY <3>1, <3>2
  <2>2. QED
    BY <2>1 DEF AcceptedOrReported
<1>15. OneDispatcher'
  BY <1>7 DEF IngressInv, OneDispatcher
<1>16. ScopesArePaid'
  <2>1. \A e \in Deliveries : PerAttempt(e)' = PerAttempt(e)
                              /\ \A pc \in Phases : MadeBy(pc, e)' = MadeBy(pc, e)
    BY DEF PerAttempt, MadeBy
  <2>2. ASSUME NEW e \in Deliveries \ forgotten
        PROVE  /\ scopes'[e] <= PerAttempt(e) * (1 + failures'[e])
               /\ ~Seen(e)' => scopes'[e] <= PerAttempt(e) * failures'[e]
               /\ \A g \in Handlers : Of(g)' = e =>
                     scopes'[e] <= PerAttempt(e) * failures'[e] + MadeBy(handlers'[g].pc, e)
    <3>1. CASE e # d
      BY <1>2, <1>3, <1>7, <2>2, <3>1 DEF Grows, IngressInv, ScopesArePaid
    <3>2. CASE e = d
      <4>1. \A g \in Handlers : Of(g)' # d
        BY <1>1, <1>7, <2>2, <3>2 DEF IngressInv, OneDispatcher
      <4>2. Seen(d) /\ scopes[d] <= PerAttempt(d) * failures[d] + MadeBy(handlers[h].pc, d)
        BY <1>1, <2>2, <3>2 DEF IngressInv, ScopesArePaid, RecordsAreClaims
      <4>3. /\ scopes[d] \in Nat /\ scopes'[d] \in Nat /\ failures[d] \in Nat
            /\ PerAttempt(d) * failures[d] \in Nat
            /\ MadeBy(handlers[h].pc, d) \in 0..PerAttempt(d) /\ PerAttempt(d) \in 1..2
            /\ PerAttempt(d) * (failures[d] + 1) = PerAttempt(d) * failures[d] + PerAttempt(d)
            /\ PerAttempt(d) * (1 + failures[d]) = PerAttempt(d) * failures[d] + PerAttempt(d)
        BY <1>1, <1>4, PerAttemptProperties DEF Types
      <4>4. scopes'[d] <= PerAttempt(d) * failures[d] + PerAttempt(d)
        BY <4>2, <4>3
      <4>5. CASE AnswersAfter(d)
        <5>1. failures'[d] = failures[d] /\ Seen(d)'
          BY <4>2, <4>5 DEF AnswersAfter, Seen
        <5>2. QED
          BY <3>2, <4>1, <4>3, <4>4, <5>1
      <4>6. CASE ~AnswersAfter(d)
        <5>1. /\ failures'[d] = failures[d] + 1 /\ failures[d] + 1 \in Nat
              /\ PerAttempt(d) * (1 + (failures[d] + 1)) = PerAttempt(d) * (failures[d] + 1) + PerAttempt(d)
          BY <1>1, <1>3, <4>3, <4>6, PerAttemptProperties DEF Types
        <5>2. /\ scopes'[d] <= PerAttempt(d) * failures'[d]
              /\ PerAttempt(d) * failures'[d] <= PerAttempt(d) * (1 + failures'[d])
              /\ PerAttempt(d) * failures'[d] \in Nat
          BY <4>3, <4>4, <5>1
        <5>3. PerAttempt(d) * (1 + failures'[d]) \in Nat
          BY <4>3, <5>1, <5>2
        <5>4. QED
          BY <3>2, <4>1, <4>3, <5>2, <5>3
      <4>7. QED
        BY <4>5, <4>6
    <3>3. QED
      BY <3>1, <3>2
  <2>3. \A g \in Handlers : Of(g)' \in Deliveries => handlers'[g].pc \in Phases
    BY <1>1, <1>7, BusyProperties, IdleProperties
  <2>4. QED
    BY <1>4, <2>1, <2>2, <2>3 DEF ScopesArePaid
<1>17. QED
  BY <1>4, <1>8, <1>10, <1>11, <1>12, <1>13, <1>14, <1>15, <1>16 DEF IngressInv

\* ContinuesKeeps for a step that only changes the phase of the handler.
LEMMA GotoKeeps ==
    ASSUME IngressInv, NEW h \in Handlers, handlers[h] # NoThread, NEW d \in Deliveries, Of(h) = d,
           NEW pc \in Phases, Goto(h, pc), Unanswered,
           UNCHANGED <<kind, recorded, forgotten>>,
           Grows(d), PhaseReached(pc, d)',
           scopes'[d] + MadeBy(handlers[h].pc, d) <= scopes[d] + MadeBy(pc, d)
    PROVE  IngressInv'
<1>1. Types /\ handlers[h] \in Threads
  BY BusyProperties DEF IngressInv
<1>2. PICK t : t = [handlers[h] EXCEPT !.pc = pc]
  OBVIOUS
<1>3. t \in Threads /\ t.delivery = d /\ t.pc = pc
  BY <1>1, <1>2 DEF Threads, Of
<1>4. handlers' = [handlers EXCEPT ![h] = t]
  BY <1>2 DEF Goto
<1>5. QED
  BY <1>3, <1>4, ContinuesKeeps DEF Unanswered

\* EndsKeep for the answer "accepted": something was done for the delivery, or it is of a kind that needs nothing.
LEMMA AcceptsKeeps ==
    ASSUME IngressInv, NEW h \in Handlers, handlers[h] # NoThread, NEW d \in Deliveries, Of(h) = d,
           Accepts(h), UNCHANGED <<kind, recorded, forgotten>>,
           Grows(d), effects'[d] # {} \/ kind[d] = "noop",
           scopes'[d] + MadeBy(handlers[h].pc, d) <= scopes[d] + PerAttempt(d)
    PROVE  IngressInv'
BY EndsKeep DEF Accepts, AnswersAfter

\* EndsKeep for a failure that leaves the record behind: the delivery is struck.
LEMMA StrikesKeeps ==
    ASSUME IngressInv, NEW h \in Handlers, handlers[h] # NoThread, NEW d \in Deliveries, Of(h) = d,
           Strikes(h), UNCHANGED <<kind, recorded, forgotten, scope, effects, scopes>>
    PROVE  IngressInv'
<1>1. Types /\ handlers[h].pc \in Phases
  BY BusyProperties DEF IngressInv
<1>2. Grows(d)
  BY <1>1 DEF Types, Grows
<1>3. scopes'[d] + MadeBy(handlers[h].pc, d) <= scopes[d] + PerAttempt(d)
  <2>1. MadeBy(handlers[h].pc, d) \in 0..PerAttempt(d) /\ scopes[d] \in Nat /\ PerAttempt(d) \in 1..2
    BY <1>1, PerAttemptProperties DEF Types
  <2>2. QED
    BY <2>1
<1>4. QED
  BY <1>2, <1>3, EndsKeep DEF Strikes, Fails, FailsStruck

\* A step that touches neither scope nor effects satisfies what the lemmas above ask of the effects.
LEMMA NothingDone ==
    ASSUME Types, NEW d \in Deliveries, UNCHANGED <<scope, effects, scopes>>
    PROVE  Grows(d) /\ effects'[d] = effects[d] /\ scopes'[d] = scopes[d] /\ scopes[d] \in Nat
BY DEF Types, Grows

\* So does the edge call, which makes no scope.
LEMMA EdgeDone ==
    ASSUME Types, NEW d \in Deliveries,
           effects' = [effects EXCEPT ![d] = @ \union {"edge"}], UNCHANGED <<scope, scopes>>
    PROVE  Grows(d) /\ effects'[d] # {} /\ scopes'[d] = scopes[d] /\ scopes[d] \in Nat
BY DEF Types, Grows

\* And enqueueing, which makes at most one.
LEMMA ScopeEnqueued ==
    ASSUME Types, NEW d \in Deliveries, EnqueueScope(d)
    PROVE  Grows(d) /\ effects'[d] # {} /\ scopes'[d] \in {scopes[d], scopes[d] + 1} /\ scopes[d] \in Nat
<1>1. effects' \in [Deliveries -> SUBSET {"edge", "scope"}] /\ effects'[d] # {}
      /\ \A e \in Deliveries : effects[e] \subseteq effects'[e]
  BY DEF Types, EnqueueScope
<1>2. CASE scope[d] \in {"none", "done"}
  <2>1. /\ scope' = [scope EXCEPT ![d] = "queued"]
        /\ scopes' = [scopes EXCEPT ![d] = @ + 1]
    BY <1>2 DEF EnqueueScope
  <2>2. /\ scope' \in [Deliveries -> {"none", "queued", "claimed", "parked", "done"}]
        /\ scopes' \in [Deliveries -> Nat] /\ scopes'[d] = scopes[d] + 1 /\ scopes[d] \in Nat
        /\ \A e \in Deliveries \ {d} : scopes'[e] = scopes[e]
    BY <2>1 DEF Types
  <2>3. QED
    BY <1>1, <2>2 DEF Grows
<1>3. CASE scope[d] \notin {"none", "done"}
  BY <1>1, <1>3 DEF Types, EnqueueScope, Grows
<1>4. QED
  BY <1>2, <1>3

\* Every step of a handler keeps the invariant: one case for each phase.
LEMMA HandlerSteps ==
    ASSUME IngressInv, NEW h \in Handlers, HandlerStep(h)
    PROVE  IngressInv'
<1>1. /\ handlers[h] # NoThread
      /\ Types
  BY DEF IngressInv, HandlerStep, Admit, Edge, Defer, DeferWake, Enqueue, Managed, Wake, Release, At, NoThread
<1>2. PICK d \in Deliveries : Of(h) = d
  BY <1>1, BusyProperties
<1>3. /\ PhaseReached(handlers[h].pc, d) /\ kind[d] \in Kinds
      /\ \A pc \in Phases : MadeBy(pc, d) \in 0..PerAttempt(d)
      /\ PerAttempt(d) \in 1..2
  BY <1>1, <1>2, PerAttemptProperties DEF IngressInv, PhasesReached, Types
\* What a step of one of these shapes has to bring along.
<1>4. ASSUME NEW pc \in Phases, Goto(h, pc), Unanswered, UNCHANGED <<kind, recorded, forgotten>>, Grows(d),
             pc \in {"managed", "wake", "deferWake"} => effects'[d] # {},
             pc = "managed" => kind[d] = "comment",
             scopes'[d] + MadeBy(handlers[h].pc, d) <= scopes[d] + MadeBy(pc, d)
      PROVE  IngressInv'
  <2>1. PhaseReached(pc, d)'
    BY <1>4 DEF PhaseReached
  <2>2. QED
    BY <1>1, <1>2, <1>4, <2>1, GotoKeeps
<1>5. ASSUME AfterEdge(h), UNCHANGED <<kind, recorded, forgotten>>, Grows(d), effects'[d] # {},
             kind[d] = "comment" => scopes'[d] + MadeBy(handlers[h].pc, d) <= scopes[d] + 2,
             kind[d] # "comment" => scopes'[d] + MadeBy(handlers[h].pc, d) <= scopes[d] + 1
      PROVE  IngressInv'
  <2>1. CASE kind[d] = "comment"
    <3>1. Goto(h, "wake") /\ Unanswered /\ MadeBy("wake", d) = 2
      BY <1>2, <1>5, <2>1 DEF AfterEdge, MadeBy
    <3>2. QED
      BY <1>4, <1>5, <2>1, <3>1 DEF Phases
  <2>2. CASE kind[d] # "comment"
    <3>1. Accepts(h) /\ PerAttempt(d) = 1
      BY <1>2, <1>5, <2>2 DEF AfterEdge, PerAttempt
    <3>2. QED
      BY <1>1, <1>2, <1>5, <2>2, <3>1, AcceptsKeeps
  <2>3. QED
    BY <2>1, <2>2
<1>6. CASE Admit(h)
  <2>1. /\ handlers[h].pc = "admit" /\ MadeBy("admit", d) = 0 /\ Grows(d)
        /\ UNCHANGED <<kind, recorded, forgotten, scope, effects, scopes>>
        /\ scopes[d] \in Nat /\ scopes'[d] = scopes[d]
    BY <1>1, <1>6, NothingDone DEF Admit, At, DispatchStep, MadeBy
  <2>2. CASE kind[Of(h)] = "noop" /\ Accepts(h)
    BY <1>1, <1>2, <1>3, <2>1, <2>2, AcceptsKeeps
  <2>3. CASE kind[Of(h)] \in {"pr", "prOther"} /\ Goto(h, "edge") /\ Unanswered
    BY <1>2, <1>4, <2>1, <2>3 DEF MadeBy, Phases
  <2>4. CASE Goto(h, "enqueue") /\ Unanswered
    BY <1>2, <1>4, <2>1, <2>4 DEF MadeBy, Phases
  <2>5. CASE Strikes(h)
    BY <1>1, <1>2, <2>1, <2>5, StrikesKeeps
  <2>6. QED
    BY <1>6, <2>2, <2>3, <2>4, <2>5 DEF Admit
<1>7. CASE Edge(h)
  <2>1. /\ handlers[h].pc = "edge" /\ UNCHANGED <<kind, recorded, forgotten, scope, scopes>>
        /\ MadeBy("edge", d) = (IF kind[d] = "comment" THEN 1 ELSE 0)
    BY <1>7 DEF Edge, At, DispatchStep, MadeBy
  <2>2. CASE AfterEdge(h) /\ effects' = [effects EXCEPT ![Of(h)] = @ \union {"edge"}]
    <3>1. Grows(d) /\ effects'[d] # {} /\ scopes'[d] = scopes[d] /\ scopes[d] \in Nat
      BY <1>1, <1>2, <2>1, <2>2, EdgeDone
    <3>2. QED
      BY <1>5, <2>1, <2>2, <3>1
  <2>3. CASE /\ Goto(h, IF kind[Of(h)] = "prOther" THEN "release" ELSE "defer")
             /\ Unanswered /\ UNCHANGED effects
    <3>1. Grows(d) /\ scopes'[d] = scopes[d] /\ scopes[d] \in Nat
      BY <1>1, <2>1, <2>3, NothingDone
    <3>2. CASE kind[d] = "prOther"
      BY <1>2, <1>4, <2>1, <2>3, <3>1, <3>2 DEF MadeBy, Phases
    <3>3. CASE kind[d] # "prOther"
      BY <1>2, <1>4, <2>1, <2>3, <3>1, <3>3 DEF MadeBy, Phases
    <3>4. QED
      BY <3>2, <3>3
  <2>4. QED
    BY <1>7, <2>2, <2>3 DEF Edge
<1>8. CASE Defer(h)
  <2>1. /\ handlers[h].pc = "defer" /\ UNCHANGED <<kind, recorded, forgotten>>
        /\ MadeBy("defer", d) = (IF kind[d] = "comment" THEN 1 ELSE 0)
    BY <1>8 DEF Defer, At, DispatchStep, MadeBy
  <2>2. CASE EnqueueScope(d) /\ (AfterEdge(h) \/ (Goto(h, "deferWake") /\ Unanswered))
    <3>1. Grows(d) /\ effects'[d] # {} /\ scopes'[d] \in {scopes[d], scopes[d] + 1} /\ scopes[d] \in Nat
      BY <1>1, <2>2, ScopeEnqueued
    <3>2. CASE AfterEdge(h)
      BY <1>5, <2>1, <3>1, <3>2
    <3>3. CASE Goto(h, "deferWake") /\ Unanswered
      <4>1. MadeBy("deferWake", d) = (IF kind[d] = "comment" THEN 2 ELSE 1)
        BY DEF MadeBy
      <4>2. scopes'[d] + MadeBy("defer", d) <= scopes[d] + MadeBy("deferWake", d)
        BY <2>1, <3>1, <4>1
      <4>3. QED
        BY <1>4, <2>1, <3>1, <3>3, <4>2 DEF Phases
    <3>4. QED
      BY <2>2, <3>2, <3>3
  <2>3. CASE Goto(h, "release") /\ Unanswered /\ UNCHANGED <<scope, effects, scopes>>
    <3>1. Grows(d) /\ scopes'[d] = scopes[d] /\ scopes[d] \in Nat
      BY <1>1, <2>3, NothingDone
    <3>2. QED
      BY <1>4, <2>1, <2>3, <3>1 DEF MadeBy, Phases
  <2>4. QED
    BY <1>2, <1>8, <2>2, <2>3 DEF Defer
<1>9. CASE DeferWake(h)
  <2>1. /\ handlers[h].pc = "deferWake" /\ UNCHANGED <<kind, recorded, forgotten>>
        /\ MadeBy("deferWake", d) = (IF kind[d] = "comment" THEN 2 ELSE 1)
        /\ MadeBy("release", d) = (IF kind[d] = "comment" THEN 2 ELSE 1)
        /\ Grows(d) /\ effects'[d] = effects[d] /\ scopes'[d] = scopes[d] /\ scopes[d] \in Nat
        /\ effects[d] # {}
    BY <1>1, <1>3, <1>9, NothingDone DEF DeferWake, At, DispatchStep, MadeBy, PhaseReached
  <2>2. CASE AfterEdge(h)
    BY <1>5, <2>1, <2>2
  <2>3. CASE Goto(h, "release") /\ Unanswered
    BY <1>4, <2>1, <2>3 DEF Phases
  <2>4. QED
    BY <1>9, <2>2, <2>3 DEF DeferWake
<1>10. CASE Enqueue(h)
  <2>1. /\ handlers[h].pc = "enqueue" /\ UNCHANGED <<kind, recorded, forgotten>>
        /\ MadeBy("enqueue", d) = 0
    BY <1>10 DEF Enqueue, At, DispatchStep, MadeBy
  <2>2. CASE /\ EnqueueScope(Of(h)) /\ Unanswered
             /\ handlers' = [handlers EXCEPT ![h].skip = ActiveOrPending(Of(h)),
                                 ![h].pc = IF kind[Of(h)] = "comment" THEN "managed" ELSE "wake"]
    <3> DEFINE pc == IF kind[d] = "comment" THEN "managed" ELSE "wake"
    <3>1. Grows(d) /\ effects'[d] # {} /\ scopes'[d] \in {scopes[d], scopes[d] + 1} /\ scopes[d] \in Nat
      BY <1>1, <1>2, <2>2, ScopeEnqueued
    <3>2. handlers[h] \in Threads /\ ActiveOrPending(d) \in BOOLEAN
      BY <1>1, BusyProperties DEF ActiveOrPending
    <3>3. PICK t : t = [handlers[h] EXCEPT !.skip = ActiveOrPending(d), !.pc = pc]
      OBVIOUS
    <3>4. t \in Threads /\ t.delivery = d /\ t.pc = pc
      BY <1>2, <3>2, <3>3 DEF Threads, Phases, Of
    <3>5. handlers' = [handlers EXCEPT ![h] = t]
      BY <1>1, <1>2, <2>2, <3>2, <3>3 DEF Types, Threads
    <3>6. MadeBy(pc, d) = 1 /\ PhaseReached(t.pc, d)'
      BY <2>1, <3>1, <3>4 DEF MadeBy, PhaseReached
    <3>7. scopes'[d] + MadeBy(handlers[h].pc, d) <= scopes[d] + MadeBy(t.pc, d)
      BY <2>1, <3>1, <3>4, <3>6
    <3>8. QED
      BY <1>1, <1>2, <2>1, <2>2, <3>1, <3>4, <3>5, <3>6, <3>7, ContinuesKeeps DEF Unanswered
  <2>3. CASE Goto(h, "release") /\ Unanswered /\ UNCHANGED <<scope, effects, scopes>>
    <3>1. Grows(d) /\ scopes'[d] = scopes[d] /\ scopes[d] \in Nat
      BY <1>1, <2>3, NothingDone
    <3>2. QED
      BY <1>4, <2>1, <2>3, <3>1 DEF MadeBy, Phases
  <2>4. CASE Strikes(h) /\ UNCHANGED <<scope, effects, scopes>>
    BY <1>1, <1>2, <2>1, <2>4, StrikesKeeps
  <2>5. QED
    BY <1>10, <2>2, <2>3, <2>4 DEF Enqueue
<1>11. CASE Managed(h)
  <2>1. /\ handlers[h].pc = "managed" /\ UNCHANGED <<kind, recorded, forgotten>> /\ Unanswered
        /\ kind[d] = "comment" /\ effects[d] # {}
        /\ Grows(d) /\ effects'[d] = effects[d] /\ scopes'[d] = scopes[d] /\ scopes[d] \in Nat
    BY <1>1, <1>3, <1>11, NothingDone DEF Managed, At, DispatchStep, PhaseReached
  <2>2. PICK pc \in {"edge", "wake", "release"} : Goto(h, pc)
    BY <1>11 DEF Managed
  <2>3. MadeBy("managed", d) = 1 /\ MadeBy(pc, d) \in 1..2
    BY <2>1, <2>2 DEF MadeBy
  <2>4. QED
    BY <1>4, <2>1, <2>2, <2>3 DEF Phases
<1>12. CASE Wake(h)
  <2>1. /\ handlers[h].pc = "wake" /\ UNCHANGED <<kind, recorded, forgotten>>
        /\ Grows(d) /\ effects'[d] = effects[d] /\ scopes'[d] = scopes[d] /\ scopes[d] \in Nat
        /\ effects[d] # {} /\ MadeBy("release", d) = MadeBy("wake", d)
        /\ MadeBy("wake", d) \in 0..PerAttempt(d)
    BY <1>1, <1>3, <1>12, NothingDone DEF Wake, At, DispatchStep, PhaseReached, MadeBy, Phases
  <2>2. CASE Accepts(h)
    BY <1>1, <1>2, <1>3, <2>1, <2>2, AcceptsKeeps
  <2>3. CASE Goto(h, "release") /\ Unanswered
    BY <1>4, <2>1, <2>3 DEF Phases
  <2>4. QED
    BY <1>12, <2>2, <2>3 DEF Wake
<1>13. CASE Release(h)
  <2>1. /\ UNCHANGED <<kind, forgotten, scope, effects, scopes>>
        /\ Grows(d) /\ scopes'[d] = scopes[d] /\ scopes[d] \in Nat
        /\ MadeBy("release", d) \in 0..PerAttempt(d) /\ handlers[h].pc = "release"
    BY <1>1, <1>3, <1>13, NothingDone DEF Release, At, Phases
  <2>2. CASE Unrecord(Of(h)) /\ Fails(h) /\ UNCHANGED struck
    <3>1. FailsReleased(d) /\ handlers' = [handlers EXCEPT ![h] = NoThread]
      BY <1>2, <2>2 DEF Fails, FailsReleased
    <3>2. scopes'[d] + MadeBy(handlers[h].pc, d) <= scopes[d] + PerAttempt(d)
      BY <1>3, <2>1
    <3>3. QED
      BY <1>1, <1>2, <2>1, <3>1, <3>2, EndsKeep
  <2>3. CASE UNCHANGED recorded /\ Strikes(h)
    BY <1>1, <1>2, <2>1, <2>3, StrikesKeeps
  <2>4. QED
    BY <1>13, <2>2, <2>3 DEF Release
<1>14. QED
  BY <1>6, <1>7, <1>8, <1>9, <1>10, <1>11, <1>12, <1>13 DEF HandlerStep

-----------------------------------------------------------------------------
(* The other steps                                                          *)

\* Receiving a delivery keeps the invariant, whether it was seen, is recorded with room to spare, or evicts the oldest.
LEMMA ReceiveStep ==
    ASSUME IngressInv, NEW h \in Handlers, NEW d \in Deliveries, Receive(h, d)
    PROVE  IngressInv'
<1>1. /\ Types /\ handlers[h] = NoThread
      /\ UNCHANGED <<kind, scope, effects, scopes, failures, struck>>
      /\ \A e \in Deliveries : Preserved(e)' <=> Preserved(e)
  BY DEF IngressInv, Receive, Preserved
<1>2. CASE Seen(d) /\ accepted' = accepted \union {d} /\ UNCHANGED <<recorded, handlers, forgotten>>
  <2>1. \A e \in Deliveries : (Seen(e)' <=> Seen(e)) /\ (WorkedOn(e)' <=> WorkedOn(e))
    BY <1>2 DEF Seen, WorkedOn, Of
  <2>2. AcceptedOrReported'
    <3>1. ASSUME NEW e \in accepted', ~WorkedOn(e)'
          PROVE  Preserved(e)' \/ failures'[e] > 0
      <4>1. CASE e \in accepted
        BY <1>1, <2>1, <3>1, <4>1 DEF IngressInv, Types, AcceptedOrReported
      <4>2. CASE e = d /\ d \in struck
        BY <1>1, <4>2 DEF IngressInv, StruckHasFailed
      <4>3. CASE e = d /\ d \notin struck
        BY <1>1, <1>2, <2>1, <3>1, <4>3 DEF IngressInv, RecordedUnlessStruck
      <4>4. QED
        BY <1>2, <4>1, <4>2, <4>3
    <3>2. QED
      BY <3>1 DEF AcceptedOrReported
  <2>3. Types' /\ IsFiniteSet(Busy')
    BY <1>1, <1>2 DEF IngressInv, Types, Busy
  <2>4. RecordsAreClaims' /\ PhasesReached' /\ StruckHasFailed' /\ OneDispatcher'
    BY <1>1, <1>2 DEF IngressInv, RecordsAreClaims, PhasesReached, StruckHasFailed, OneDispatcher,
                      Distinct, Seen, PhaseReached, Of
  <2>5. RecordedUnlessStruck'
    BY <1>1, <2>1 DEF IngressInv, RecordedUnlessStruck
  <2>6. ScopesArePaid'
    BY <1>1, <1>2, <2>1 DEF IngressInv, ScopesArePaid, PerAttempt, MadeBy, Of
  <2>7. QED
    BY <2>2, <2>3, <2>4, <2>5, <2>6 DEF IngressInv
<1>3. CASE /\ ~Seen(d)
           /\ recorded' = Capped(Append(recorded, d))
           /\ forgotten' = forgotten \union (Recorded(recorded) \ Recorded(recorded'))
           /\ handlers' = [handlers EXCEPT ![h] = Thread("admit", d, FALSE)]
           /\ UNCHANGED accepted
  <2>1. /\ recorded' \in Seq(Deliveries) /\ Distinct(recorded')
        /\ Seen(d)'
        /\ \A e \in Deliveries : Seen(e)' => Seen(e) \/ e = d
    BY <1>1, <1>3, RecordProperties DEF IngressInv, Types, RecordsAreClaims
  <2>2. /\ \A e \in Deliveries : Seen(e) => Seen(e)' \/ e \in forgotten'
        /\ forgotten \subseteq forgotten' /\ forgotten' \subseteq Deliveries
    <3>1. \A e \in Deliveries : /\ Seen(e) <=> e \in Recorded(recorded)
                                /\ Seen(e)' <=> e \in Recorded(recorded')
      BY DEF Seen, Recorded
    <3>2. Recorded(recorded) \subseteq Deliveries
      BY <1>1 DEF Types, Recorded
    <3>3. QED
      BY <1>1, <1>3, <3>1, <3>2 DEF Types
  <2>3. Thread("admit", d, FALSE) \in Threads /\ Thread("admit", d, FALSE) # NoThread
    BY DEF Thread, Threads, Phases, NoThread
  <2>4. /\ \A g \in Handlers \ {h} : handlers'[g] = handlers[g] /\ Of(g)' = Of(g)
        /\ handlers'[h] = Thread("admit", d, FALSE) /\ Of(h)' = d /\ handlers'[h].pc = "admit"
        /\ Of(h) \notin Deliveries
    BY <1>1, <1>3, IngressAssumption DEF Types, Of, Thread, NoThread
  <2>5. Types'
    BY <1>1, <1>3, <2>1, <2>2, <2>3 DEF Types
  <2>6. IsFiniteSet(Busy')
    <3>1. Busy' = Busy \union {h}
      BY <1>1, <2>3, <2>4 DEF Busy
    <3>2. QED
      BY <3>1, FS_AddElement DEF IngressInv
  <2>7. RecordsAreClaims'
    <3>1. ASSUME NEW g \in Handlers, Of(g)' \in Deliveries \ forgotten'
          PROVE  Seen(Of(g))'
      <4>1. CASE g = h
        BY <2>1, <2>4, <4>1 DEF Seen
      <4>2. CASE g # h
        <5>1. Of(g)' = Of(g) /\ Seen(Of(g)) /\ Of(g) \in Deliveries /\ Of(g) \notin forgotten'
          BY <2>2, <2>4, <3>1, <4>2 DEF IngressInv, RecordsAreClaims
        <5>2. PICK e \in Deliveries : e = Of(g)
          BY <5>1
        <5>3. Seen(e)'
          BY <2>2, <5>1, <5>2
        <5>4. QED
          BY <5>1, <5>2, <5>3 DEF Seen
      <4>3. QED
        BY <4>1, <4>2
    <3>2. QED
      BY <2>1, <3>1 DEF RecordsAreClaims
  <2>8. PhasesReached'
    <3>1. ASSUME NEW g \in Handlers, handlers'[g] # NoThread
          PROVE  PhaseReached(handlers[g].pc, Of(g))'
      <4>1. CASE g = h
        BY <2>4, <4>1 DEF PhaseReached
      <4>2. CASE g # h
        <5>1. handlers'[g] = handlers[g] /\ Of(g)' = Of(g) /\ handlers[g] # NoThread
          BY <2>4, <3>1, <4>2
        <5>2. PhaseReached(handlers[g].pc, Of(g))
          BY <5>1 DEF IngressInv, PhasesReached
        <5>3. QED
          BY <1>1, <5>1, <5>2 DEF PhaseReached
      <4>3. QED
        BY <4>1, <4>2
    <3>2. QED
      BY <3>1 DEF PhasesReached, PhaseReached
  <2>9. StruckHasFailed'
    BY <1>1 DEF IngressInv, StruckHasFailed
  <2>10. \A e \in Deliveries : WorkedOn(e)' <=> WorkedOn(e) \/ e = d
    BY <2>4 DEF WorkedOn
  <2>11. RecordedUnlessStruck' /\ AcceptedOrReported'
    BY <1>1, <1>3, <2>1, <2>10 DEF IngressInv, Types, RecordedUnlessStruck, AcceptedOrReported
  <2>12. \A g \in Handlers : Of(g) = d => d \in forgotten
    BY <1>3 DEF IngressInv, RecordsAreClaims
  <2>13. OneDispatcher'
    <3>1. ASSUME NEW f \in Handlers, NEW g \in Handlers, Of(f)' = Of(g)', Of(f)' \in Deliveries \ forgotten'
          PROVE  f = g
      <4>1. CASE f # h /\ g # h
        BY <2>2, <2>4, <3>1, <4>1 DEF IngressInv, OneDispatcher
      <4>2. CASE f = h \/ g = h
        BY <2>2, <2>4, <2>12, <3>1, <4>2
      <4>3. QED
        BY <4>1, <4>2
    <3>2. QED
      BY <3>1 DEF OneDispatcher
  <2>14. ScopesArePaid'
    <3>1. \A e \in Deliveries : PerAttempt(e)' = PerAttempt(e)
                                /\ \A pc \in Phases : MadeBy(pc, e)' = MadeBy(pc, e)
      BY <1>1 DEF PerAttempt, MadeBy
    <3>2. ASSUME NEW e \in Deliveries \ forgotten'
          PROVE  /\ scopes[e] <= PerAttempt(e) * (1 + failures[e])
                 /\ ~Seen(e)' => scopes[e] <= PerAttempt(e) * failures[e]
                 /\ \A g \in Handlers : Of(g)' = e =>
                       scopes[e] <= PerAttempt(e) * failures[e] + MadeBy(handlers'[g].pc, e)
      <4>1. e \notin forgotten /\ (Seen(e) => Seen(e)')
        BY <2>2, <3>2
      <4>2. ASSUME NEW g \in Handlers, Of(g)' = e
            PROVE  scopes[e] <= PerAttempt(e) * failures[e] + MadeBy(handlers'[g].pc, e)
        <5>1. CASE g = h
          <6>1. e = d /\ scopes[e] <= PerAttempt(e) * failures[e]
            BY <1>3, <2>4, <4>1, <4>2, <5>1 DEF IngressInv, ScopesArePaid
          <6>2. PerAttempt(e) * failures[e] \in Nat /\ scopes[e] \in Nat
            BY <1>1, PerAttemptProperties DEF Types
          <6>3. handlers'[g].pc = "admit"
            BY <2>4, <5>1
          <6>4. MadeBy(handlers'[g].pc, e) = 0
            BY <6>3 DEF MadeBy
          <6>5. QED
            BY <6>1, <6>2, <6>4
        <5>2. CASE g # h
          BY <2>4, <4>1, <4>2, <5>2 DEF IngressInv, ScopesArePaid
        <5>3. QED
          BY <5>1, <5>2
      <4>3. QED
        BY <4>1, <4>2 DEF IngressInv, ScopesArePaid
    <3>3. ASSUME NEW g \in Handlers, Of(g)' \in Deliveries
          PROVE  handlers'[g].pc \in Phases
      BY <2>5, <3>3, IngressAssumption DEF Types, Threads, NoThread, Of
    <3>4. QED
      BY <1>1, <3>1, <3>2, <3>3 DEF ScopesArePaid
  <2>15. QED
    BY <2>5, <2>6, <2>7, <2>8, <2>9, <2>11, <2>13, <2>14 DEF IngressInv
<1>4. QED
  BY <1>2, <1>3 DEF Receive

\* A record that grows too old is dropped only when nobody works on its delivery.
LEMMA ExpireStep ==
    ASSUME IngressInv, NEW d \in Deliveries, Expire(d)
    PROVE  IngressInv'
<1>1. /\ Types /\ ~WorkedOn(d) /\ forgotten' = forgotten \union {d}
      /\ UNCHANGED <<kind, scope, handlers, effects, scopes, failures, accepted, struck>>
      /\ recorded' \in Seq(Deliveries) /\ Distinct(recorded')
      /\ \A e \in Deliveries : Seen(e)' <=> Seen(e) /\ e # d
  BY UnrecordProperties DEF IngressInv, Types, RecordsAreClaims, Expire
<1>2. /\ \A e \in Deliveries : (WorkedOn(e)' <=> WorkedOn(e)) /\ (Preserved(e)' <=> Preserved(e))
      /\ \A g \in Handlers : Of(g)' = Of(g) /\ Of(g) # d
  BY <1>1 DEF WorkedOn, Preserved, Of
<1>3. Types' /\ IsFiniteSet(Busy') /\ PhasesReached' /\ StruckHasFailed'
  BY <1>1 DEF IngressInv, Types, Busy, PhasesReached, PhaseReached, StruckHasFailed, Of
<1>4. RecordsAreClaims'
  <2>1. ASSUME NEW g \in Handlers, Of(g)' \in Deliveries \ forgotten'
        PROVE  Seen(Of(g))'
    <3>1. PICK e \in Deliveries : e = Of(g)
      BY <1>2, <2>1
    <3>2. Seen(e)'
      BY <1>1, <1>2, <2>1, <3>1 DEF IngressInv, RecordsAreClaims
    <3>3. QED
      BY <1>2, <3>1, <3>2 DEF Seen
  <2>2. QED
    BY <1>1, <2>1 DEF RecordsAreClaims
<1>5. RecordedUnlessStruck' /\ AcceptedOrReported'
  BY <1>1, <1>2 DEF IngressInv, Types, RecordedUnlessStruck, AcceptedOrReported
<1>6. OneDispatcher'
  BY <1>1, <1>2 DEF IngressInv, OneDispatcher
<1>7. ScopesArePaid'
  BY <1>1, <1>2 DEF IngressInv, ScopesArePaid, PerAttempt, MadeBy
<1>8. QED
  BY <1>3, <1>4, <1>5, <1>6, <1>7 DEF IngressInv

\* A step that leaves everything but the scopes' places and the counts of the model alone.
LEMMA QuietStep ==
    ASSUME IngressInv,
           scope' \in [Deliveries -> {"none", "queued", "claimed", "parked", "done"}],
           UNCHANGED <<kind, recorded, handlers, effects, scopes, failures, accepted, forgotten, struck>>
    PROVE  IngressInv'
<1>1. Types' /\ IsFiniteSet(Busy') /\ RecordsAreClaims' /\ PhasesReached' /\ StruckHasFailed'
  BY DEF IngressInv, Types, Busy, RecordsAreClaims, Distinct, Seen, PhasesReached, PhaseReached, StruckHasFailed, Of
<1>2. RecordedUnlessStruck' /\ AcceptedOrReported' /\ OneDispatcher'
  BY DEF IngressInv, RecordedUnlessStruck, AcceptedOrReported, OneDispatcher, Seen, WorkedOn, Preserved, Of
<1>3. ScopesArePaid'
  BY DEF IngressInv, ScopesArePaid, PerAttempt, MadeBy, Seen, Of
<1>4. QED
  BY <1>1, <1>2, <1>3 DEF IngressInv

\* A crash of the router ends every handler, and each delivery is charged one failure for each handler it had.
LEMMA CrashStep ==
    ASSUME IngressInv, Crash
    PROVE  IngressInv'
<1> DEFINE On(d) == {h \in Handlers : Of(h) = d}
<1>1. /\ Types
      /\ handlers' = [h \in Handlers |-> NoThread]
      /\ failures' = [d \in Deliveries |-> failures[d] + Cardinality(On(d))]
      /\ struck' = struck \union {Of(h) : h \in {g \in Handlers : handlers[g] # NoThread}}
      /\ UNCHANGED <<kind, recorded, scope, effects, scopes, accepted, forgotten>>
  BY DEF IngressInv, Crash
<1>2. ASSUME NEW d \in Deliveries
      PROVE  /\ IsFiniteSet(On(d)) /\ Cardinality(On(d)) \in Nat
             /\ Cardinality(On(d)) = 0 <=> On(d) = {}
             /\ WorkedOn(d) <=> On(d) # {}
  <2>1. On(d) \subseteq Busy
    BY <1>1, IdleProperties DEF Busy
  <2>2. IsFiniteSet(On(d))
    BY <2>1, FS_Subset DEF IngressInv
  <2> HIDE DEF On
  <2>3. Cardinality(On(d)) \in Nat /\ (Cardinality(On(d)) = 0 <=> On(d) = {})
    BY <2>2, FS_CardinalityType, FS_EmptySet
  <2>4. WorkedOn(d) <=> On(d) # {}
    BY DEF WorkedOn, On
  <2>5. QED
    BY <2>2, <2>3, <2>4
<1> HIDE DEF On
<1>3. /\ failures' \in [Deliveries -> Nat]
      /\ \A d \in Deliveries : failures'[d] = failures[d] + Cardinality(On(d))
  BY <1>1, <1>2 DEF Types
<1>4. /\ struck' \subseteq Deliveries /\ struck \subseteq struck'
      /\ \A d \in struck' : d \in struck \/ WorkedOn(d)
      /\ \A d \in Deliveries : WorkedOn(d) => d \in struck'
  <2>1. \A h \in Handlers : handlers[h] # NoThread <=> Of(h) \in Deliveries
    BY <1>1, IdleProperties
  <2>2. QED
    BY <1>1, <2>1 DEF Types, WorkedOn
<1>5. \A h \in Handlers : Of(h)' \notin Deliveries
  BY <1>1, IngressAssumption DEF Of, NoThread
<1>6. Types' /\ IsFiniteSet(Busy')
  <2>1. Busy' = {}
    BY <1>1 DEF Busy
  <2>2. QED
    BY <1>1, <1>3, <1>4, <2>1, FS_EmptySet DEF Types
<1>7. RecordsAreClaims' /\ PhasesReached' /\ OneDispatcher'
  BY <1>1, <1>5 DEF IngressInv, RecordsAreClaims, Distinct, PhasesReached, OneDispatcher
<1>8. \A d \in Deliveries : ~WorkedOn(d)' /\ (Preserved(d)' <=> Preserved(d)) /\ (Seen(d)' <=> Seen(d))
  BY <1>1, <1>5 DEF WorkedOn, Preserved, Seen
<1>9. \A d \in Deliveries : WorkedOn(d) \/ failures[d] > 0 => failures'[d] > 0
  BY <1>1, <1>2, <1>3 DEF Types
<1>10. StruckHasFailed' /\ RecordedUnlessStruck' /\ AcceptedOrReported'
  <2>1. StruckHasFailed'
    BY <1>4, <1>9 DEF IngressInv, Types, StruckHasFailed
  <2>2. RecordedUnlessStruck'
    BY <1>4, <1>8 DEF IngressInv, RecordedUnlessStruck
  <2>3. AcceptedOrReported'
    BY <1>1, <1>8, <1>9 DEF IngressInv, Types, AcceptedOrReported
  <2>4. QED
    BY <2>1, <2>2, <2>3
<1>11. ScopesArePaid'
  <2>1. ASSUME NEW d \in Deliveries \ forgotten
        PROVE  /\ scopes[d] <= PerAttempt(d) * (1 + failures'[d])
               /\ ~Seen(d) => scopes[d] <= PerAttempt(d) * failures'[d]
    <3>1. /\ failures[d] \in Nat /\ scopes[d] \in Nat /\ PerAttempt(d) \in 1..2
          /\ PerAttempt(d) * failures[d] \in Nat
          /\ PerAttempt(d) * (1 + failures[d]) = PerAttempt(d) * failures[d] + PerAttempt(d)
          /\ \A pc \in Phases : MadeBy(pc, d) \in 0..PerAttempt(d)
      BY <1>1, PerAttemptProperties DEF Types
    <3>2. CASE ~WorkedOn(d)
      <4>1. Cardinality(On(d)) = 0
        BY <1>2, <3>2
      <4>2. failures'[d] = failures[d]
        BY <1>3, <3>1, <4>1
      <4>3. QED
        BY <4>2 DEF IngressInv, ScopesArePaid
    <3>3. CASE WorkedOn(d)
      <4>1. PICK h \in Handlers : Of(h) = d
        BY <3>3 DEF WorkedOn
      <4>2. On(d) = {h}
        BY <4>1 DEF IngressInv, OneDispatcher, On
      <4>3. failures'[d] = failures[d] + 1
        BY <1>3, <4>2, FS_Singleton
      <4>4. PerAttempt(d) * (failures[d] + 1) = PerAttempt(d) * (1 + failures[d])
        BY <3>1
      <4> DEFINE n == failures[d] + 1
      <4>8. n \in Nat
        BY <3>1
      <4> HIDE DEF n
      <4>9. PerAttempt(d) * (1 + n) = PerAttempt(d) * n + PerAttempt(d) /\ PerAttempt(d) * n \in Nat
        BY <1>1, <4>8, PerAttemptProperties DEF Types
      <4>5. scopes[d] <= PerAttempt(d) * (1 + failures[d]) /\ Seen(d)
        BY <4>1 DEF IngressInv, ScopesArePaid, RecordsAreClaims
      <4>6. scopes[d] <= PerAttempt(d) * (1 + failures'[d])
        <5>1. PerAttempt(d) * n = PerAttempt(d) * (1 + failures[d]) /\ failures'[d] = n
          BY <4>3, <4>4 DEF n
        <5>2. scopes[d] <= PerAttempt(d) * n
          BY <4>5, <5>1
        <5>3. QED
          BY <3>1, <4>9, <5>1, <5>2
      <4>7. QED
        <5>1. failures'[d] = 1 + failures[d]
          BY <3>1, <4>3
        <5>2. QED
          BY <4>5, <4>6, <5>1
    <3>4. QED
      BY <3>2, <3>3
  <2>2. \A d \in Deliveries : PerAttempt(d)' = PerAttempt(d)
    BY <1>1 DEF PerAttempt
  <2>3. QED
    BY <1>1, <1>5, <1>8, <2>1, <2>2 DEF ScopesArePaid
<1>12. QED
  BY <1>6, <1>7, <1>10, <1>11 DEF IngressInv

\* The invariant is inductive.
LEMMA IngressStep ==
    ASSUME IngressInv, [Next]_vars
    PROVE  IngressInv'
<1>1. ASSUME NEW d \in Deliveries, ScopeMoves(d)
      PROVE  IngressInv'
  <2>1. scope' \in [Deliveries -> {"none", "queued", "claimed", "parked", "done"}]
    BY <1>1 DEF IngressInv, Types, ScopeMoves
  <2>2. QED
    BY <1>1, <2>1, QuietStep DEF ScopeMoves
<1>2. CASE UNCHANGED vars
  <2>1. scope' \in [Deliveries -> {"none", "queued", "claimed", "parked", "done"}]
    BY <1>2 DEF IngressInv, Types, vars
  <2>2. QED
    BY <1>2, <2>1, QuietStep DEF vars
<1>3. QED
  BY <1>1, <1>2, ReceiveStep, HandlerSteps, ExpireStep, CrashStep DEF Next

\* The invariant holds before anything was received.
LEMMA IngressInitially == Init => IngressInv
<1> SUFFICES ASSUME Init  PROVE IngressInv
  OBVIOUS
<1>1. Types /\ Distinct(recorded) /\ \A h \in Handlers : Of(h) \notin Deliveries
  BY IngressAssumption DEF Init, Types, Distinct, Of, NoThread
<1>2. IsFiniteSet(Busy)
  <2>1. Busy = {}
    BY DEF Init, Busy
  <2>2. QED
    BY <2>1, FS_EmptySet
<1>3. /\ RecordsAreClaims /\ PhasesReached /\ StruckHasFailed
      /\ RecordedUnlessStruck /\ AcceptedOrReported /\ OneDispatcher
  BY <1>1 DEF Init, RecordsAreClaims, PhasesReached, StruckHasFailed, RecordedUnlessStruck, AcceptedOrReported,
              OneDispatcher, Seen
<1>4. ScopesArePaid
  BY <1>1, PerAttemptProperties DEF Init, ScopesArePaid, Types, PerAttempt
<1>5. QED
  BY <1>1, <1>2, <1>3, <1>4 DEF IngressInv

\* A delivery that was received is dispatched or its failure is known, whatever
\* redeliveries, evictions, failing calls and crashes overlap (_github_event,
\* _claim_delivery, _release_delivery).
THEOREM IngressSwallowsNothing == Spec => []NothingIsSwallowed
<1>1. IngressInv => NothingIsSwallowed
  BY DEF IngressInv, NothingIsSwallowed
<1>2. QED
  BY <1>1, IngressInitially, IngressStep, PTL DEF Spec

\* One handler at a time dispatches a delivery, and a further scope of it is paid for by
\* an answer that reported a failure (_claim_delivery, _cap_deliveries).
THEOREM IngressCountsEffects == Spec => []EffectsAreCounted
<1>1. IngressInv => EffectsAreCounted
  BY DEF IngressInv, EffectsAreCounted, SecondScopeNeedsFailure, ScopesArePaid
<1>2. QED
  BY <1>1, IngressInitially, IngressStep, PTL DEF Spec

-----------------------------------------------------------------------------
(* The hooks and the record of them                                         *)

Ids == 1..MaxHooks
Runs == [pc : {"idle", "record", "list", "keep", "delete", "create"},
         current : SUBSET Repos, previous : SUBSET Repos, left : SUBSET Repos,
         listed : SUBSET Ids, touched : SUBSET Repos, alone : BOOLEAN]
Working == {"list", "keep", "delete", "create"}

HookTypes ==
    /\ topic \in SUBSET Repos /\ managed \in SUBSET Repos /\ loose \in SUBSET Repos
    /\ hooks \in [Repos -> SUBSET Ids]
    /\ run \in [Requests -> Runs]
    /\ made \in 0..MaxHooks /\ changes \in 0..MaxChanges /\ faults \in 0..MaxFaults

\* The hooks of r are those of a repository that is owed one, or of one that is not.
Right(r, owed) == IF r \in owed THEN \E k \in Ids : hooks[r] = {k} ELSE hooks[r] = {}

\* What a thread names, visits and has touched belong together.
RunShape(p) ==
    /\ ~H!At(p, "idle") /\ run[p].alone => \A q \in Requests \ {p} : H!At(q, "idle")
    /\ run[p].left \union run[p].touched \subseteq run[p].current \union run[p].previous
    /\ run[p].pc \in {"idle", "record"} => run[p].touched = {}
    /\ run[p].pc \in {"keep", "delete", "create"} => run[p].left # {}
    /\ run[p].pc \in {"keep", "delete"} => run[p].listed # {}

\* What others recorded since a thread read the record is known to be loose.
RecordIsRead(p) ==
    run[p].pc \in Working => \A r \in Repos \ loose : r \in managed <=> r \in run[p].previous

\* How far a thread that is alone has come with the repository it visits.
Visiting(p, r) ==
    /\ H!At(p, "keep") => r \in run[p].current /\ hooks[r] = run[p].listed
    /\ H!At(p, "create") => r \in run[p].current /\ hooks[r] = {}
    /\ H!At(p, "delete") =>
         IF r \in run[p].current
         THEN \E k \in Ids \ run[p].listed : hooks[r] = run[p].listed \union {k}
         ELSE hooks[r] = run[p].listed

\* A thread that is alone leaves each repository it has visited as it will record it.
AloneIsRight(p) ==
    run[p].alone /\ run[p].pc \in Working =>
        /\ \A r \in (run[p].current \union run[p].previous) \ run[p].left : Right(r, run[p].current)
        /\ H!At(p, "list") \/ Visiting(p, H!Visited(p))

\* What no thread has touched is as it is recorded, unless it is loose.
UntouchedIsRight ==
    \A r \in Repos \ loose :
        (\A p \in Requests : r \notin run[p].touched) => Right(r, managed)

HookInv ==
    /\ HookTypes
    /\ \A p \in Requests : RunShape(p) /\ RecordIsRead(p) /\ AloneIsRight(p)
    /\ UntouchedIsRight

\* A set of numbers that is not empty has a least one.
LEMMA LeastExists ==
    ASSUME NEW S, S \subseteq Nat, S # {}
    PROVE  \E x \in S : \A y \in S : x <= y
<1>1. PICK R : R = OpToRel(<, Nat)
  OBVIOUS
<1>2. IsWellFoundedOn(R, Nat)
  BY <1>1, NatLessThanWellFounded
<1>3. PICK x \in S : \A y \in S : ~ (<<y, x>> \in R)
  BY <1>2, WFMin
<1>4. \A y \in S : ~(y < x)
  BY <1>1, <1>3 DEF OpToRel
<1>5. QED
  BY <1>3, <1>4

\* The least number of a set is in it.
LEMMA LeastIsMember ==
    ASSUME NEW S, S \subseteq Nat, S # {}
    PROVE  H!Min(S) \in S
BY LeastExists DEF H!Min

\* The repository a thread visits is one it still has to visit.
LEMMA VisitedIsLeft ==
    ASSUME HookTypes, NEW p \in Requests, run[p].left # {}
    PROVE  H!Visited(p) \in run[p].left
<1>1. run[p].left \subseteq Nat
  BY RegistrationAssumption DEF HookTypes, Runs, H!HookAssumption
<1> DEFINE wanted == run[p].left \intersect run[p].current
           S == IF wanted # {} THEN wanted ELSE run[p].left
<1>2. S \subseteq Nat /\ S # {} /\ S \subseteq run[p].left
  BY <1>1
<1>3. H!Min(S) \in S
  BY <1>2, LeastIsMember
<1>4. QED
  BY <1>2, <1>3 DEF H!Visited

\* A step of one thread leaves the others as they were: none of them is alone.
LEMMA OthersStay ==
    ASSUME HookInv, NEW p \in Requests, ~H!At(p, "idle"),
           NEW new, run' = [run EXCEPT ![p] = new],
           managed' = managed, loose \subseteq loose'
    PROVE  \A q \in Requests \ {p} : RunShape(q)' /\ RecordIsRead(q)' /\ AloneIsRight(q)'
<1> SUFFICES ASSUME NEW q \in Requests \ {p}
             PROVE  RunShape(q)' /\ RecordIsRead(q)' /\ AloneIsRight(q)'
    OBVIOUS
<1>1. run'[q] = run[q]
  BY DEF HookInv, HookTypes
<1>2. RunShape(q) /\ RecordIsRead(q)
  BY DEF HookInv
<1>3. ~(run[q].alone /\ ~H!At(q, "idle"))
  BY <1>2 DEF RunShape
<1>4. RunShape(q)'
  BY <1>1, <1>2, <1>3 DEF RunShape, H!At
<1>5. RecordIsRead(q)'
  BY <1>1, <1>2 DEF RecordIsRead
<1>6. AloneIsRight(q)'
  BY <1>1, <1>3 DEF AloneIsRight, Working, H!At
<1>7. QED
  BY <1>4, <1>5, <1>6

\* A reconciliation that ends before it records leaves what it touched loose.
LEMMA FailureKeeps ==
    ASSUME HookInv, NEW p \in Requests, ~H!At(p, "idle"), HookTypes', NEW X \in SUBSET Repos,
           run' = [run EXCEPT ![p] = H!Idle], loose' = loose \union run[p].touched \union X,
           managed' = managed, \A r \in Repos \ X : hooks'[r] = hooks[r]
    PROVE  HookInv'
<1>1. run'[p] = H!Idle
  BY DEF HookInv, HookTypes
<1>2. RunShape(p)' /\ RecordIsRead(p)' /\ AloneIsRight(p)'
  BY <1>1 DEF RunShape, RecordIsRead, AloneIsRight, Working, H!At, H!Idle
<1>3. \A q \in Requests \ {p} : RunShape(q)' /\ RecordIsRead(q)' /\ AloneIsRight(q)'
  BY OthersStay
<1>4. UntouchedIsRight'
  <2> SUFFICES ASSUME NEW r \in Repos \ loose', \A q \in Requests : r \notin run'[q].touched
               PROVE  Right(r, managed)'
    BY DEF UntouchedIsRight
  <2>1. r \notin loose /\ r \notin run[p].touched /\ r \notin X
    OBVIOUS
  <2>2. \A q \in Requests \ {p} : run'[q] = run[q]
    BY DEF HookInv, HookTypes
  <2>3. \A q \in Requests : r \notin run[q].touched
    BY <2>1, <2>2
  <2>4. Right(r, managed)
    BY <2>1, <2>3 DEF HookInv, UntouchedIsRight
  <2>5. QED
    BY <2>1, <2>4 DEF Right
<1>5. QED
  BY <1>2, <1>3, <1>4 DEF HookInv

\* A thread goes on with the repository it visits, or with the next one.
LEMMA VisitKeeps ==
    ASSUME HookInv, NEW p \in Requests, run[p].pc \in Working, run[p].left # {}, HookTypes',
           NEW new \in Runs, run' = [run EXCEPT ![p] = new], UNCHANGED <<managed, loose>>,
           new.pc \in Working, new.alone = run[p].alone, new.current = run[p].current,
           new.previous = run[p].previous, new.left \subseteq run[p].left,
           new.pc # "list" => new.left # {},
           new.pc \in {"keep", "delete"} => new.listed # {},
           run[p].touched \subseteq new.touched,
           new.touched \subseteq run[p].touched \union run[p].left,
           \A r \in Repos : hooks'[r] = hooks[r] \/ r \in new.touched,
           AloneIsRight(p)'
    PROVE  HookInv'
<1>1. run'[p] = new /\ \A q \in Requests \ {p} : run'[q] = run[q]
  BY DEF HookInv, HookTypes
<1>2. \A q \in Requests \ {p} : RunShape(q)' /\ RecordIsRead(q)' /\ AloneIsRight(q)'
  BY OthersStay DEF H!At, Working
<1>3. RunShape(p) /\ RecordIsRead(p)
  BY DEF HookInv
<1>4. RunShape(p)'
  BY <1>1, <1>3 DEF RunShape, H!At, Working
<1>5. RecordIsRead(p)'
  BY <1>1, <1>3 DEF RecordIsRead
<1>6. UntouchedIsRight'
  <2> SUFFICES ASSUME NEW r \in Repos \ loose, \A q \in Requests : r \notin run'[q].touched
               PROVE  Right(r, managed)'
    BY DEF UntouchedIsRight
  <2>1. \A q \in Requests : r \notin run[q].touched
    BY <1>1
  <2>2. Right(r, managed) /\ hooks'[r] = hooks[r]
    BY <1>1, <2>1 DEF HookInv, UntouchedIsRight
  <2>3. QED
    BY <2>2 DEF Right
<1>7. QED
  BY <1>2, <1>4, <1>5, <1>6 DEF HookInv

\* So it does when it is done with the hooks it saw, but for those still to be deleted.
LEMMA ProceedingKeeps ==
    ASSUME HookInv, NEW p \in Requests, run[p].pc \in Working, run[p].left # {}, HookTypes',
           NEW listed \in SUBSET Ids, NEW touched \in SUBSET {H!Visited(p)},
           H!Proceeds(p, H!Visited(p), listed, touched), UNCHANGED <<managed, loose>>,
           \A r \in Repos \ touched : hooks'[r] = hooks[r],
           run[p].alone =>
               IF H!Visited(p) \in run[p].current
               THEN \E k \in Ids \ listed : hooks'[H!Visited(p)] = listed \union {k}
               ELSE hooks'[H!Visited(p)] = listed
    PROVE  HookInv'
<1> DEFINE r == H!Visited(p)
           new == run'[p]
<1>1. r \in run[p].left
  BY VisitedIsLeft DEF HookInv
<1>2. run \in [Requests -> Runs] /\ run[p] \in Runs
  BY DEF HookInv, HookTypes
<1>3. /\ new.pc = (IF listed = {} THEN "list" ELSE "delete")
      /\ new.left = (IF listed = {} THEN run[p].left \ {r} ELSE run[p].left)
      /\ new.listed = listed /\ new.touched = run[p].touched \union touched
      /\ new.alone = run[p].alone /\ new.current = run[p].current /\ new.previous = run[p].previous
  <2>1. run' = [run EXCEPT ![p] = [@ EXCEPT
                   !.pc = IF listed = {} THEN "list" ELSE "delete",
                   !.left = IF listed = {} THEN run[p].left \ {r} ELSE run[p].left,
                   !.listed = listed, !.touched = run[p].touched \union touched]]
    BY DEF H!Proceeds
  <2>2. QED
    BY <2>1, <1>2 DEF Runs
<1>4. run' = [run EXCEPT ![p] = new] /\ new \in Runs
  BY <1>2 DEF H!Proceeds, HookTypes
<1>5. AloneIsRight(p)'
  <2> SUFFICES ASSUME run[p].alone
               PROVE  /\ \A s \in (run[p].current \union run[p].previous) \ new.left :
                            Right(s, run[p].current)'
                      /\ H!At(p, "list")' \/ Visiting(p, H!Visited(p))'
    BY <1>3 DEF AloneIsRight
  <2>1. \A s \in (run[p].current \union run[p].previous) \ run[p].left : Right(s, run[p].current)
    BY DEF HookInv, AloneIsRight
  <2>2. \A s \in (run[p].current \union run[p].previous) \ run[p].left :
           s \in Repos /\ s # r /\ hooks'[s] = hooks[s]
    BY <1>1, <1>2 DEF Runs
  <2>3. \A s \in (run[p].current \union run[p].previous) \ run[p].left : Right(s, run[p].current)'
    <3> SUFFICES ASSUME NEW s \in (run[p].current \union run[p].previous) \ run[p].left
                 PROVE  Right(s, run[p].current)'
      OBVIOUS
    <3>1. Right(s, run[p].current) /\ hooks'[s] = hooks[s]
      BY <2>1, <2>2
    <3>2. QED
      BY <1>3, <3>1 DEF Right
  <2>4. CASE listed = {}
    <3>1. IF r \in run[p].current THEN \E k \in Ids : hooks'[r] = {k} ELSE hooks'[r] = {}
      BY <2>4
    <3>2. \A s \in (run[p].current \union run[p].previous) \ new.left : Right(s, run[p].current)'
      <4> SUFFICES ASSUME NEW s \in (run[p].current \union run[p].previous) \ new.left
                   PROVE  Right(s, run[p].current)'
        OBVIOUS
      <4>1. CASE s = r
        BY <4>1, <3>1, <1>3 DEF Right
      <4>2. CASE s # r
        BY <4>2, <2>3, <2>4, <1>3
      <4>3. QED
        BY <4>1, <4>2
    <3>3. H!At(p, "list")'
      BY <2>4, <1>3 DEF H!At
    <3>4. QED
      BY <3>2, <3>3
  <2>5. CASE listed # {}
    <3>1. new.left = run[p].left
      BY <2>5, <1>3
    <3>2. H!Visited(p)' = r
      BY <3>1, <1>3 DEF H!Visited
    <3>3. Visiting(p, H!Visited(p))'
      BY <3>2, <2>5, <1>3 DEF Visiting, H!At
    <3>4. QED
      BY <2>3, <3>1, <3>3
  <2>6. QED
    BY <2>4, <2>5
<1>6. /\ new.pc \in Working /\ new.left \subseteq run[p].left
      /\ new.pc # "list" => new.left # {}
      /\ new.pc \in {"keep", "delete"} => new.listed # {}
      /\ new.touched \subseteq run[p].touched \union run[p].left
  BY <1>1, <1>3 DEF Working
<1>7. \A s \in Repos : hooks'[s] = hooks[s] \/ s \in new.touched
  BY <1>3
<1>8. QED
  BY <1>3, <1>4, <1>5, <1>6, <1>7, VisitKeeps

\* A thread that begins alone finds every other idle, and the others are alone no more.
LEMMA DiscoverKeeps ==
    ASSUME HookInv, NEW p \in Requests, H!Discover(p)
    PROVE  HookInv'
<1> DEFINE Begun(q) == IF q = p THEN [H!Idle EXCEPT !.pc = "record", !.current = topic, !.alone = H!AllIdle]
                       ELSE [run[q] EXCEPT !.alone = H!At(q, "idle")]
<1>1. HookTypes /\ run' = [q \in Requests |-> Begun(q)]
  BY DEF HookInv, H!Discover
<1>2. \A q \in Requests : run[q] \in Runs
  BY <1>1 DEF HookTypes
<1>3. /\ run'[p] = [H!Idle EXCEPT !.pc = "record", !.current = topic, !.alone = H!AllIdle]
      /\ \A q \in Requests \ {p} : run'[q] = [run[q] EXCEPT !.alone = H!At(q, "idle")]
  BY <1>1
<1>4. /\ run'[p] \in Runs /\ run'[p].pc = "record" /\ run'[p].touched = {} /\ run'[p].left = {}
      /\ run'[p].alone = H!AllIdle
  BY <1>1, <1>3 DEF H!Idle, Runs, HookTypes, H!AllIdle
<1>5. \A q \in Requests \ {p} :
         /\ run'[q] \in Runs
         /\ run'[q].pc = run[q].pc /\ run'[q].current = run[q].current
         /\ run'[q].previous = run[q].previous /\ run'[q].left = run[q].left
         /\ run'[q].listed = run[q].listed /\ run'[q].touched = run[q].touched
         /\ run'[q].alone = H!At(q, "idle")
  <2> SUFFICES ASSUME NEW q \in Requests \ {p}
               PROVE  /\ run'[q] \in Runs
                      /\ run'[q].pc = run[q].pc /\ run'[q].current = run[q].current
                      /\ run'[q].previous = run[q].previous /\ run'[q].left = run[q].left
                      /\ run'[q].listed = run[q].listed /\ run'[q].touched = run[q].touched
                      /\ run'[q].alone = H!At(q, "idle")
    OBVIOUS
  <2>1. H!At(q, "idle") \in BOOLEAN
    BY DEF H!At
  <2>2. PICK b \in BOOLEAN : b = H!At(q, "idle")
    BY <2>1
  <2>3. run'[q] = [run[q] EXCEPT !.alone = b]
    BY <2>2, <1>3
  <2>4. run'[q].alone = b
    BY <2>3, <1>2 DEF Runs
  <2>5. /\ run'[q] \in Runs
        /\ run'[q].pc = run[q].pc /\ run'[q].current = run[q].current
        /\ run'[q].previous = run[q].previous /\ run'[q].left = run[q].left
        /\ run'[q].listed = run[q].listed /\ run'[q].touched = run[q].touched
    BY <2>3, <1>2 DEF Runs
  <2>6. QED
    BY <2>2, <2>4, <2>5
<1>6. HookTypes'
  <2>1. \A q \in Requests : run'[q] \in Runs
    BY <1>4, <1>5
  <2>2. run' \in [Requests -> Runs]
    BY <2>1, <1>1
  <2>3. QED
    BY <2>2, <1>1 DEF HookTypes, H!Discover
<1>7. RunShape(p)' /\ RecordIsRead(p)' /\ AloneIsRight(p)'
  <2>1. H!AllIdle => \A q \in Requests \ {p} : run'[q].pc = "idle"
    BY <1>5 DEF H!AllIdle, H!At
  <2>2. RunShape(p)'
    BY <2>1, <1>4 DEF RunShape, H!At
  <2>3. QED
    BY <2>2, <1>4 DEF RecordIsRead, AloneIsRight, Working
<1>8. ASSUME NEW q \in Requests \ {p}
      PROVE  RunShape(q)' /\ RecordIsRead(q)' /\ AloneIsRight(q)'
  <2>1. RunShape(q) /\ RecordIsRead(q)
    BY DEF HookInv
  <2>2. ~(run'[q].alone /\ ~H!At(q, "idle")')
    BY <1>5 DEF H!At
  <2>3. RunShape(q)'
    BY <2>1, <2>2, <1>5 DEF RunShape
  <2>4. RecordIsRead(q)'
    BY <2>1, <1>5 DEF RecordIsRead, H!Discover
  <2>5. AloneIsRight(q)'
    BY <2>2 DEF AloneIsRight, Working, H!At
  <2>6. QED
    BY <2>3, <2>4, <2>5
<1>9. UntouchedIsRight'
  <2>1. \A q \in Requests : run'[q].touched = run[q].touched
    <3>1. run[p].touched = {}
      BY DEF HookInv, RunShape, H!Discover, H!At
    <3>2. QED
      BY <3>1, <1>4, <1>5
  <2>2. UNCHANGED <<hooks, managed, loose>>
    BY DEF H!Discover
  <2>3. QED
    BY <2>1, <2>2 DEF HookInv, UntouchedIsRight, Right
<1>10. QED
  BY <1>6, <1>7, <1>8, <1>9 DEF HookInv

\* The record a thread has just read is what it has read.
LEMMA ReadRecordKeeps ==
    ASSUME HookInv, NEW p \in Requests, H!ReadRecord(p)
    PROVE  HookInv'
<1> DEFINE new == run'[p]
<1>1. run \in [Requests -> Runs] /\ run[p] \in Runs /\ run[p].pc = "record" /\ managed \in SUBSET Repos
  BY DEF HookInv, HookTypes, H!ReadRecord, H!At
<1>2. run' = [run EXCEPT ![p] = [@ EXCEPT
                  !.pc = "list", !.previous = managed,
                  !.left = run[p].current \union H!Gone(run[p].current, managed)]]
  BY DEF H!ReadRecord
<1>3. /\ new.pc = "list" /\ new.previous = managed
      /\ new.left = run[p].current \union H!Gone(run[p].current, managed)
      /\ new.current = run[p].current /\ new.alone = run[p].alone
      /\ new.touched = run[p].touched /\ new.listed = run[p].listed
  BY <1>1, <1>2 DEF Runs
<1>4. /\ H!Gone(run[p].current, managed) \subseteq managed
      /\ managed \ run[p].current \subseteq H!Gone(run[p].current, managed)
  BY DEF H!Gone
<1>5. new \in Runs
  <2>1. new = [run[p] EXCEPT !.pc = "list", !.previous = managed,
                             !.left = run[p].current \union H!Gone(run[p].current, managed)]
    BY <1>1, <1>2
  <2>2. run[p].current \union H!Gone(run[p].current, managed) \in SUBSET Repos
    BY <1>1, <1>4 DEF Runs
  <2>3. QED
    BY <1>1, <2>1, <2>2 DEF Runs
<1>6. HookTypes'
  <2>1. run' = [run EXCEPT ![p] = new]
    BY <1>1, <1>2
  <2>2. run' \in [Requests -> Runs]
    BY <2>1, <1>1, <1>5
  <2>3. QED
    BY <2>2 DEF HookInv, HookTypes, H!ReadRecord
<1>7. run[p].touched = {} /\ RunShape(p)
  BY <1>1 DEF HookInv, RunShape
<1>8. \A q \in Requests \ {p} : RunShape(q)' /\ RecordIsRead(q)' /\ AloneIsRight(q)'
  BY <1>1, OthersStay DEF H!ReadRecord, H!At
<1>9. RunShape(p)'
  <2>1. \A q \in Requests \ {p} : run'[q] = run[q]
    BY <1>1, <1>2
  <2>2. QED
    BY <2>1, <1>1, <1>3, <1>4, <1>7 DEF RunShape, H!At
<1>10. RecordIsRead(p)' /\ AloneIsRight(p)'
  BY <1>3, <1>4 DEF RecordIsRead, AloneIsRight, H!At, H!ReadRecord
<1>11. UntouchedIsRight'
  <2>1. \A q \in Requests : run'[q].touched = run[q].touched
    BY <1>1, <1>2, <1>3
  <2>2. QED
    BY <2>1 DEF HookInv, UntouchedIsRight, Right, H!ReadRecord
<1>12. QED
  BY <1>6, <1>8, <1>9, <1>10, <1>11 DEF HookInv

\* What a thread does next is typed.
LEMMA ProceedsTyped ==
    ASSUME HookTypes, NEW p \in Requests, NEW r, NEW listed \in SUBSET Ids,
           NEW touched \in SUBSET {r}, r \in run[p].left, H!Proceeds(p, r, listed, touched),
           UNCHANGED <<topic, managed, loose, changes, faults>>,
           hooks' \in [Repos -> SUBSET Ids], made' \in 0..MaxHooks
    PROVE  HookTypes'
<1>1. run \in [Requests -> Runs] /\ run[p] \in Runs /\ r \in Repos
  BY DEF HookTypes, Runs
<1>2. /\ (IF listed = {} THEN "list" ELSE "delete") \in {"list", "delete"}
      /\ (IF listed = {} THEN run[p].left \ {r} ELSE run[p].left) \in SUBSET Repos
      /\ run[p].touched \union touched \in SUBSET Repos
  BY <1>1 DEF Runs
<1>3. [run[p] EXCEPT !.pc = IF listed = {} THEN "list" ELSE "delete",
                     !.left = IF listed = {} THEN run[p].left \ {r} ELSE run[p].left,
                     !.listed = listed, !.touched = run[p].touched \union touched] \in Runs
  BY <1>1, <1>2 DEF Runs
<1>4. run' = [run EXCEPT ![p] = [@ EXCEPT
                 !.pc = IF listed = {} THEN "list" ELSE "delete",
                 !.left = IF listed = {} THEN run[p].left \ {r} ELSE run[p].left,
                 !.listed = listed, !.touched = run[p].touched \union touched]]
  BY DEF H!Proceeds
<1>5. run' \in [Requests -> Runs]
  BY <1>1, <1>3, <1>4
<1>6. QED
  BY <1>5 DEF HookTypes

\* A call that fails changes no hook.
LEMMA FailsKeep ==
    ASSUME HookInv, NEW p \in Requests, ~H!At(p, "idle"), H!Fails(p),
           UNCHANGED <<topic, hooks, managed, made, changes>>, faults' \in 0..MaxFaults
    PROVE  HookInv'
<1>1. run' = [run EXCEPT ![p] = H!Idle] /\ loose' = loose \union run[p].touched
  BY DEF H!Fails
<1>2. HookTypes
  BY DEF HookInv
<1>3. H!Idle \in Runs
  BY DEF H!Idle, Runs
<1>4. run' \in [Requests -> Runs] /\ loose' \in SUBSET Repos
  BY <1>1, <1>2, <1>3 DEF HookTypes, Runs
<1>5. HookTypes'
  BY <1>2, <1>4 DEF HookTypes
<1>6. loose' = loose \union run[p].touched \union {} /\ {} \in SUBSET Repos
  BY <1>1
<1>7. QED
  BY <1>1, <1>5, <1>6, FailureKeeps

\* A thread lists the hooks of the repository it visits.
LEMMA ListKeeps ==
    ASSUME HookInv, NEW p \in Requests, H!List(p)
    PROVE  HookInv'
<1> DEFINE r == H!Visited(p)
           new == run'[p]
<1>1. /\ run \in [Requests -> Runs] /\ run[p] \in Runs /\ run[p].pc = "list" /\ run[p].left # {}
      /\ hooks \in [Repos -> SUBSET Ids]
  BY DEF HookInv, HookTypes, H!List, H!At
<1>2. r \in run[p].left /\ r \in Repos /\ hooks[r] \in SUBSET Ids
  BY <1>1, VisitedIsLeft DEF HookInv, Runs
<1>3. CASE r \in run[p].current
  <2>1. run' = [run EXCEPT ![p] = [@ EXCEPT
                  !.pc = IF hooks[r] = {} THEN "create" ELSE "keep", !.listed = hooks[r]]]
    BY <1>3 DEF H!List
  <2>2. /\ new.pc = (IF hooks[r] = {} THEN "create" ELSE "keep") /\ new.listed = hooks[r]
        /\ new.left = run[p].left /\ new.current = run[p].current /\ new.previous = run[p].previous
        /\ new.touched = run[p].touched /\ new.alone = run[p].alone
    BY <2>1, <1>1 DEF Runs
  <2>3. new \in Runs /\ run' = [run EXCEPT ![p] = new]
    <3>1. new = [run[p] EXCEPT !.pc = IF hooks[r] = {} THEN "create" ELSE "keep", !.listed = hooks[r]]
      BY <2>1, <1>1
    <3>2. (IF hooks[r] = {} THEN "create" ELSE "keep") \in {"create", "keep"}
      OBVIOUS
    <3>3. QED
      BY <3>1, <3>2, <2>1, <1>1, <1>2 DEF Runs
  <2>4. HookTypes'
    <3>1. run' \in [Requests -> Runs]
      BY <2>3, <1>1
    <3>2. QED
      BY <3>1 DEF HookInv, HookTypes, H!List
  <2>5. H!Visited(p)' = r
    BY <2>2 DEF H!Visited
  <2>6. UNCHANGED <<hooks, managed, loose>>
    BY DEF H!List
  <2>7. AloneIsRight(p)'
    <3> SUFFICES ASSUME run[p].alone
                 PROVE  /\ \A s \in (run[p].current \union run[p].previous) \ run[p].left :
                              Right(s, run[p].current)'
                        /\ Visiting(p, H!Visited(p))'
      BY <2>2 DEF AloneIsRight
    <3>1. \A s \in (run[p].current \union run[p].previous) \ run[p].left : Right(s, run[p].current)
      BY <1>1 DEF HookInv, AloneIsRight, Working
    <3>2. \A s \in (run[p].current \union run[p].previous) \ run[p].left : Right(s, run[p].current)'
      BY <3>1, <2>2, <2>6 DEF Right
    <3>3. Visiting(p, H!Visited(p))'
      BY <2>2, <2>5, <2>6, <1>3 DEF Visiting, H!At
    <3>4. QED
      BY <3>2, <3>3
  <2>8. new.pc \in Working /\ run[p].pc \in Working
    BY <2>2, <1>1 DEF Working
  <2>9. new.pc \in {"keep", "delete"} => new.listed # {}
    BY <2>2
  <2>10. QED
    BY <1>1, <2>2, <2>3, <2>4, <2>6, <2>7, <2>8, <2>9, VisitKeeps
<1>4. CASE r \notin run[p].current
  <2>1. H!Proceeds(p, r, hooks[r], {}) /\ UNCHANGED <<topic, hooks, managed, made, changes, faults, loose>>
    BY <1>4 DEF H!List
  <2>2. HookTypes'
    <3>1. HookTypes /\ hooks' \in [Repos -> SUBSET Ids] /\ made' \in 0..MaxHooks
      BY <2>1 DEF HookInv, HookTypes
    <3>2. QED
      BY <2>1, <3>1, <1>2, ProceedsTyped
  <2>3. run[p].pc \in Working
    BY <1>1 DEF Working
  <2>4. QED
    BY <1>1, <1>2, <1>4, <2>1, <2>2, <2>3, ProceedingKeeps
<1>5. QED
  BY <1>3, <1>4

\* The first hook of a repository is kept.
LEMMA KeepKeeps ==
    ASSUME HookInv, NEW p \in Requests, H!Keep(p)
    PROVE  HookInv'
<1> DEFINE r == H!Visited(p)
           oldest == H!Min(run[p].listed)
<1>1. /\ run \in [Requests -> Runs] /\ run[p] \in Runs /\ run[p].pc = "keep"
      /\ UNCHANGED <<topic, hooks, managed, made, changes, faults>>
  BY DEF HookInv, HookTypes, H!Keep, H!At
<1>2. run[p].left # {} /\ run[p].listed # {} /\ run[p].listed \subseteq Nat
  <2>1. RunShape(p)
    BY DEF HookInv
  <2>2. QED
    BY <2>1, <1>1 DEF RunShape, Runs, Ids
<1>3. oldest \in run[p].listed
  BY <1>2, LeastIsMember
<1>4. CASE oldest \in hooks[r]
  <2>1. H!Proceeds(p, r, run[p].listed \ {oldest}, {}) /\ UNCHANGED loose
    BY <1>4 DEF H!Keep
  <2>2. run[p].listed \ {oldest} \in SUBSET Ids /\ run[p].pc \in Working
    BY <1>1 DEF Runs, Working
  <2>3. HookTypes'
    BY <2>1, <2>2, <1>1, <1>2, VisitedIsLeft, ProceedsTyped DEF HookInv, HookTypes
  <2>4. run[p].alone => r \in run[p].current /\ hooks[r] = run[p].listed
    BY <1>1, <2>2 DEF HookInv, AloneIsRight, Visiting, H!At
  <2>5. run[p].alone => \E k \in Ids \ (run[p].listed \ {oldest}) :
                            hooks'[r] = (run[p].listed \ {oldest}) \union {k}
    <3>1. oldest \in Ids
      BY <1>1, <1>3 DEF Runs
    <3>2. QED
      BY <1>1, <1>3, <2>4, <3>1
  <2>6. QED
    BY <1>1, <1>2, <2>1, <2>2, <2>3, <2>4, <2>5, ProceedingKeeps
<1>5. CASE oldest \notin hooks[r]
  <2>1. H!Fails(p)
    BY <1>5 DEF H!Keep
  <2>2. QED
    BY <2>1, <1>1, FailsKeep DEF H!At, HookInv, HookTypes
<1>6. QED
  BY <1>4, <1>5

\* A doubled hook, or one of a repository that lost the topic, is deleted.
LEMMA DeleteKeeps ==
    ASSUME HookInv, NEW p \in Requests, H!Delete(p)
    PROVE  HookInv'
<1> DEFINE r == H!Visited(p)
           oldest == H!Min(run[p].listed)
<1>1. /\ run \in [Requests -> Runs] /\ run[p] \in Runs /\ run[p].pc = "delete"
      /\ UNCHANGED <<topic, managed, made, changes, faults>>
      /\ hooks \in [Repos -> SUBSET Ids]
  BY DEF HookInv, HookTypes, H!Delete, H!At
<1>2. run[p].left # {} /\ run[p].listed # {} /\ run[p].listed \subseteq Nat
  <2>1. RunShape(p)
    BY DEF HookInv
  <2>2. QED
    BY <2>1, <1>1 DEF RunShape, Runs, Ids
<1>3. oldest \in run[p].listed
  BY <1>2, LeastIsMember
<1>4. r \in Repos
  BY <1>1, <1>2, VisitedIsLeft DEF HookInv, Runs
<1>5. CASE oldest \in hooks[r]
  <2>1. /\ H!Proceeds(p, r, run[p].listed \ {oldest}, {r}) /\ UNCHANGED loose
        /\ hooks' = [hooks EXCEPT ![r] = @ \ {oldest}]
    BY <1>5 DEF H!Delete
  <2>2. run[p].listed \ {oldest} \in SUBSET Ids /\ run[p].pc \in Working
    BY <1>1 DEF Runs, Working
  <2>3. /\ hooks' \in [Repos -> SUBSET Ids] /\ hooks'[r] = hooks[r] \ {oldest}
        /\ \A s \in Repos \ {r} : hooks'[s] = hooks[s]
    BY <2>1, <1>1, <1>4
  <2>4. HookTypes'
    BY <2>1, <2>2, <2>3, <1>1, <1>2, VisitedIsLeft, ProceedsTyped DEF HookInv, HookTypes
  <2>5. run[p].alone =>
           IF r \in run[p].current
           THEN \E k \in Ids \ run[p].listed : hooks[r] = run[p].listed \union {k}
           ELSE hooks[r] = run[p].listed
    BY <1>1, <2>2 DEF HookInv, AloneIsRight, Visiting, H!At
  <2>6. run[p].alone =>
           IF r \in run[p].current
           THEN \E k \in Ids \ (run[p].listed \ {oldest}) :
                    hooks'[r] = (run[p].listed \ {oldest}) \union {k}
           ELSE hooks'[r] = run[p].listed \ {oldest}
    BY <1>3, <2>3, <2>5
  <2>7. QED
    BY <1>1, <1>2, <2>1, <2>2, <2>3, <2>4, <2>6, ProceedingKeeps
<1>6. CASE oldest \notin hooks[r]
  <2>1. H!Fails(p) /\ UNCHANGED hooks
    BY <1>6 DEF H!Delete
  <2>2. QED
    BY <2>1, <1>1, FailsKeep DEF H!At, HookInv, HookTypes
<1>7. QED
  BY <1>5, <1>6

\* A repository without a hook gets one, or GitHub refuses a second.
LEMMA CreateKeeps ==
    ASSUME HookInv, NEW p \in Requests, H!Create(p)
    PROVE  HookInv'
<1> DEFINE r == H!Visited(p)
<1>1. /\ run \in [Requests -> Runs] /\ run[p] \in Runs /\ run[p].pc = "create"
      /\ UNCHANGED <<topic, managed, changes, faults>>
      /\ hooks \in [Repos -> SUBSET Ids] /\ made \in 0..MaxHooks /\ MaxHooks \in Nat
  BY RegistrationAssumption DEF HookInv, HookTypes, H!Create, H!At, H!HookAssumption
<1>2. run[p].left # {}
  <2>1. RunShape(p)
    BY DEF HookInv
  <2>2. QED
    BY <2>1, <1>1 DEF RunShape
<1>3. r \in run[p].left /\ r \in Repos
  BY <1>1, <1>2, VisitedIsLeft DEF HookInv, Runs
<1>4. CASE /\ made < MaxHooks /\ made' = made + 1
           /\ hooks' = [hooks EXCEPT ![r] = @ \union {made'}]
           /\ H!Proceeds(p, r, {}, {r}) /\ UNCHANGED loose
  <2>1. made' \in Ids /\ made' \in 0..MaxHooks
    BY <1>1, <1>4 DEF Ids
  <2>2. /\ hooks' \in [Repos -> SUBSET Ids] /\ hooks'[r] = hooks[r] \union {made'}
        /\ \A s \in Repos \ {r} : hooks'[s] = hooks[s]
    BY <1>1, <1>3, <1>4, <2>1
  <2>3. HookTypes /\ {} \in SUBSET Ids
    BY DEF HookInv
  <2>4. HookTypes'
    BY <1>1, <1>3, <1>4, <2>1, <2>2, <2>3, ProceedsTyped
  <2>5. run[p].alone => r \in run[p].current /\ hooks[r] = {}
    BY <1>1 DEF HookInv, AloneIsRight, Visiting, H!At, Working
  <2>6. run[p].alone => \E k \in Ids \ {} : hooks'[r] = {} \union {k}
    BY <2>1, <2>2, <2>5
  <2>7. run[p].pc \in Working
    BY <1>1 DEF Working
  <2>8. QED
    BY <1>1, <1>2, <1>4, <2>2, <2>3, <2>4, <2>5, <2>6, <2>7, ProceedingKeeps
<1>5. CASE H!Fails(p) /\ UNCHANGED <<hooks, made>>
  BY <1>5, <1>1, FailsKeep DEF H!At, HookInv, HookTypes
<1>6. QED
  BY <1>4, <1>5 DEF H!Create

\* A hook that was created without an answer is one the repository may have too many.
LEMMA AnswerLostKeeps ==
    ASSUME HookInv, NEW p \in Requests, H!AnswerLost(p)
    PROVE  HookInv'
<1> DEFINE r == H!Visited(p)
<1>1. /\ run \in [Requests -> Runs] /\ run[p] \in Runs /\ run[p].pc = "create"
      /\ UNCHANGED <<topic, managed, changes>> /\ faults \in 0..MaxFaults /\ MaxFaults \in Nat
      /\ hooks \in [Repos -> SUBSET Ids] /\ made \in 0..MaxHooks /\ MaxHooks \in Nat
      /\ faults' = faults + 1 /\ faults < MaxFaults /\ made' = made + 1 /\ made < MaxHooks
  BY RegistrationAssumption DEF HookInv, HookTypes, H!AnswerLost, H!At, H!Fault, H!HookAssumption
<1>2. run[p].left # {}
  <2>1. RunShape(p)
    BY DEF HookInv
  <2>2. QED
    BY <2>1, <1>1 DEF RunShape
<1>3. r \in run[p].left /\ r \in Repos
  BY <1>1, <1>2, VisitedIsLeft DEF HookInv, Runs
<1>4. made' \in Ids /\ made' \in 0..MaxHooks /\ faults' \in 0..MaxFaults
  BY <1>1 DEF Ids
<1>5. /\ hooks' = [hooks EXCEPT ![r] = @ \union {made'}]
      /\ run' = [run EXCEPT ![p] = H!Idle]
      /\ loose' = loose \union run[p].touched \union {r}
  BY DEF H!AnswerLost
<1>6. hooks' \in [Repos -> SUBSET Ids] /\ \A s \in Repos \ {r} : hooks'[s] = hooks[s]
  BY <1>1, <1>3, <1>4, <1>5
<1>7. run' \in [Requests -> Runs] /\ loose' \in SUBSET Repos
  <2>1. H!Idle \in Runs
    BY DEF H!Idle, Runs
  <2>2. run[p].touched \in SUBSET Repos /\ loose \in SUBSET Repos
    BY <1>1 DEF HookInv, HookTypes, Runs
  <2>3. QED
    BY <2>1, <2>2, <1>1, <1>3, <1>5
<1>8. HookTypes'
  BY <1>1, <1>4, <1>6, <1>7 DEF HookInv, HookTypes
<1>9. {r} \in SUBSET Repos /\ ~H!At(p, "idle")
  BY <1>1, <1>3 DEF H!At
<1>10. QED
  BY <1>1, <1>5, <1>6, <1>8, <1>9, FailureKeeps

\* Anything else that fails changes no hook.
LEMMA CallFailsKeeps ==
    ASSUME HookInv, NEW p \in Requests, H!CallFails(p)
    PROVE  HookInv'
<1>1. faults' \in 0..MaxFaults
  BY RegistrationAssumption DEF HookInv, HookTypes, H!CallFails, H!Fault, H!HookAssumption
<1>2. QED
  BY <1>1, FailsKeep DEF H!CallFails

\* What a thread that was alone records is right, and what another records is loose.
LEMMA SaveKeeps ==
    ASSUME HookInv, NEW p \in Requests, H!Save(p)
    PROVE  HookInv'
<1> DEFINE named == run[p].current \union run[p].previous
<1>1. /\ run \in [Requests -> Runs] /\ run[p] \in Runs /\ run[p].pc = "list" /\ run[p].left = {}
      /\ loose \in SUBSET Repos /\ managed \in SUBSET Repos
  BY DEF HookInv, HookTypes, H!Save, H!At
<1>2. /\ managed' = run[p].current /\ run' = [run EXCEPT ![p] = H!Idle]
      /\ loose' = IF run[p].alone THEN loose \ named ELSE loose \union named
      /\ UNCHANGED <<topic, hooks, made, changes, faults>>
  BY DEF H!Save
<1>3. named \in SUBSET Repos
  BY <1>1 DEF Runs
<1>4. /\ run'[p] = H!Idle /\ \A q \in Requests \ {p} : run'[q] = run[q]
      /\ H!Idle \in Runs
  BY <1>1, <1>2 DEF H!Idle, Runs
<1>5. HookTypes'
  <2>1. run' \in [Requests -> Runs] /\ loose' \in SUBSET Repos /\ managed' \in SUBSET Repos
    BY <1>1, <1>2, <1>3, <1>4 DEF Runs
  <2>2. QED
    BY <2>1, <1>2 DEF HookInv, HookTypes
<1>6. RunShape(p)' /\ RecordIsRead(p)' /\ AloneIsRight(p)'
  BY <1>4 DEF RunShape, RecordIsRead, AloneIsRight, Working, H!At, H!Idle
<1>7. \A r \in Repos \ loose : r \in managed <=> r \in run[p].previous
  BY <1>1 DEF HookInv, RecordIsRead, Working
<1>8. run[p].alone => \A q \in Requests \ {p} : run[q].pc = "idle"
  <2>1. RunShape(p)
    BY DEF HookInv
  <2>2. QED
    BY <2>1, <1>1 DEF RunShape, H!At
<1>9. run[p].touched \subseteq named
  BY DEF HookInv, RunShape
<1>10. ASSUME NEW q \in Requests \ {p}
       PROVE  RunShape(q)' /\ RecordIsRead(q)' /\ AloneIsRight(q)'
  <2>1. RunShape(q) /\ RecordIsRead(q)
    BY DEF HookInv
  <2>2. ~(run[q].alone /\ ~H!At(q, "idle"))
    BY <2>1, <1>1 DEF RunShape, H!At
  <2>3. RunShape(q)' /\ AloneIsRight(q)'
    BY <1>4, <2>1, <2>2 DEF RunShape, AloneIsRight, Working, H!At
  <2>4. RecordIsRead(q)'
    <3> SUFFICES ASSUME run[q].pc \in Working, NEW r \in Repos \ loose'
                 PROVE  r \in run[p].current <=> r \in run[q].previous
      BY <1>2, <1>4 DEF RecordIsRead
    <3>1. ~run[p].alone
      BY <1>8 DEF Working
    <3>2. r \notin loose /\ r \notin named
      BY <3>1, <1>2
    <3>3. r \in managed <=> r \in run[q].previous
      BY <2>1, <3>2 DEF RecordIsRead
    <3>4. QED
      BY <3>2, <3>3, <1>7
  <2>5. QED
    BY <2>3, <2>4
<1>11. UntouchedIsRight'
  <2> SUFFICES ASSUME NEW r \in Repos \ loose', \A q \in Requests : r \notin run'[q].touched
               PROVE  Right(r, managed)'
    BY DEF UntouchedIsRight
  <2>1. CASE run[p].alone /\ r \in named
    <3>1. Right(r, run[p].current)
      BY <2>1, <1>1 DEF HookInv, AloneIsRight, Working
    <3>2. QED
      BY <3>1, <1>2 DEF Right
  <2>2. CASE r \notin named
    <3>1. r \notin loose
      BY <2>2, <1>2
    <3>2. \A q \in Requests : r \notin run[q].touched
      BY <2>2, <1>4, <1>9
    <3>3. Right(r, managed)
      BY <3>1, <3>2 DEF HookInv, UntouchedIsRight
    <3>4. r \notin managed /\ r \notin run[p].current
      BY <3>1, <2>2, <1>7
    <3>5. QED
      BY <3>3, <3>4, <1>2 DEF Right
  <2>3. r \in named => run[p].alone
    BY <1>2
  <2>4. QED
    BY <2>1, <2>2, <2>3
<1>12. QED
  BY <1>5, <1>6, <1>10, <1>11 DEF HookInv

\* What does not concern the threads, the hooks and the record leaves the invariant as it is.
LEMMA NothingRuns ==
    ASSUME HookInv, HookTypes', UNCHANGED <<hooks, managed, run, loose>>
    PROVE  HookInv'
<1>1. UntouchedIsRight'
  BY DEF HookInv, UntouchedIsRight, Right
<1>2. ASSUME NEW p \in Requests
      PROVE  RunShape(p)' /\ RecordIsRead(p)' /\ AloneIsRight(p)'
  <2>1. RunShape(p)' /\ RecordIsRead(p)'
    BY DEF HookInv, RunShape, RecordIsRead, H!At
  <2>2. H!Visited(p)' = H!Visited(p)
    BY DEF H!Visited
  <2>3. \A r, R : Right(r, R)' = Right(r, R)
    BY DEF Right
  <2>4. \A r : Visiting(p, r)' = Visiting(p, r)
    BY DEF Visiting, H!At
  <2>5. AloneIsRight(p)'
    BY <2>2, <2>3, <2>4 DEF HookInv, AloneIsRight, H!At
  <2>6. QED
    BY <2>1, <2>5
<1>3. QED
  BY <1>1, <1>2 DEF HookInv

\* The topic is read once, when a thread begins.
LEMMA RetagKeeps ==
    ASSUME HookInv, NEW r \in Repos, H!Retag(r)
    PROVE  HookInv'
<1>1. HookTypes'
  <2>1. topic' \in SUBSET Repos
    BY DEF HookInv, HookTypes, H!Retag
  <2>2. changes' \in 0..MaxChanges
    BY RegistrationAssumption DEF HookInv, HookTypes, H!Retag, H!HookAssumption
  <2>3. QED
    BY <2>1, <2>2 DEF HookInv, HookTypes, H!Retag
<1>2. UNCHANGED <<hooks, managed, run, loose>>
  BY DEF H!Retag
<1>3. QED
  BY <1>1, <1>2, NothingRuns

\* Every step keeps the invariant.
LEMMA HookStep == HookInv /\ [H!Next]_registration => HookInv'
<1> SUFFICES ASSUME HookInv, [H!Next]_registration  PROVE HookInv'
  OBVIOUS
<1>1. CASE \E p \in Requests : H!Reconciles(p)
  BY <1>1, DiscoverKeeps, ReadRecordKeeps, ListKeeps, KeepKeeps, DeleteKeeps, CreateKeeps,
     AnswerLostKeeps, CallFailsKeeps, SaveKeeps DEF H!Reconciles
<1>2. CASE \E r \in Repos : H!Retag(r)
  BY <1>2, RetagKeeps
<1>3. CASE UNCHANGED registration
  <2>1. HookTypes'
    BY <1>3 DEF registration, HookInv, HookTypes
  <2>2. QED
    BY <1>3, <2>1, NothingRuns DEF registration
<1>4. QED
  BY <1>1, <1>2, <1>3 DEF H!Next

\* The invariant holds before the first reconciliation.
LEMMA HookInitially == H!Init => HookInv
<1> SUFFICES ASSUME H!Init  PROVE HookInv
  OBVIOUS
<1>1. H!Idle \in Runs
  BY DEF H!Idle, Runs
<1>2. HookTypes
  BY <1>1, RegistrationAssumption DEF H!Init, HookTypes, H!HookAssumption
<1>3. \A p \in Requests : RunShape(p) /\ RecordIsRead(p) /\ AloneIsRight(p)
  BY DEF H!Init, H!Idle, H!At, RunShape, RecordIsRead, AloneIsRight, Working
<1>4. UntouchedIsRight
  BY DEF H!Init, UntouchedIsRight, Right
<1>5. QED
  BY <1>2, <1>3, <1>4 DEF HookInv

\* HookReconcile counts as this module does.
LEMMA HooksCountedAlike == \A S : H!Cardinality(S) = Cardinality(S)
BY DEF H!Cardinality, Cardinality

\* When no reconciliation is under way a recorded repository has one hook and another none,
\* unless a reconciliation that failed or overlapped left it otherwise and no later one alone
\* has named it (_reconcile_webhooks).
THEOREM HooksFollowRecord == H!Spec => []HooksAreAccounted
<1>1. HookInv => HooksAreAccounted
  <2> SUFFICES ASSUME HookInv, H!AllIdle, NEW r \in Repos \ loose
               PROVE  H!Cardinality(hooks[r]) = IF r \in managed THEN 1 ELSE 0
    BY DEF HooksAreAccounted, H!HooksAreAccounted
  <2>1. \A p \in Requests : run[p].touched = {}
    BY DEF HookInv, RunShape, H!AllIdle, H!At
  <2>2. Right(r, managed)
    BY <2>1 DEF HookInv, UntouchedIsRight
  <2>3. QED
    BY <2>2, FS_EmptySet, FS_Singleton, HooksCountedAlike DEF Right
<1>2. QED
  BY <1>1, HookInitially, HookStep, PTL DEF H!Spec, H!vars, registration
=============================================================================
