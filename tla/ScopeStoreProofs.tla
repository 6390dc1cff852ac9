-------------------------- MODULE ScopeStoreProofs --------------------------
(***************************************************************************)
(* Proofs about ScopeStore, for every configuration that satisfies         *)
(* StoreAssumption.  GoodStore is the inductive invariant, stated of any   *)
(* three lists so that it can be claimed of the recovered lists, which     *)
(* every operation starts from, as well as of the stored ones.             *)
(***************************************************************************)
EXTENDS ScopeStore, FiniteSetTheorems, TLAPS

-----------------------------------------------------------------------------
(* The inductive invariant                                                  *)

\* Q, C, P: queue, claims, pending; h, m, a: handed, made, acked.
ListTypes(Q, C, P, h, m, a) ==
    /\ Q \in SUBSET ItemType /\ C \in SUBSET ClaimType /\ P \in SUBSET ItemType
    /\ h \in [ScopeIds -> Nat]
    /\ m \in SUBSET ScopeIds /\ a \in SUBSET m

OneHome(Q, C, P) ==
    /\ \A i, j \in Q : i.id = j.id => i = j
    /\ \A i, j \in C : i.id = j.id => i = j
    /\ \A i, j \in P : i.id = j.id => i = j
    /\ \A i \in Q : \A j \in C : i.id # j.id
    /\ \A i \in Q : \A j \in P : i.id # j.id
    /\ \A i \in C : \A j \in P : i.id # j.id

\* "when" is the wall clock: a stored time may be ahead of a sampled one.
ItemsLive(S, when, m, a) ==
    \A i \in S : /\ i.id \in m /\ i.id \notin a
                 /\ i.created <= when
                 /\ i.created < i.expires
                 /\ i.notBefore <= i.expires

Budgets(Q, C, P, h, m) ==
    /\ \A i \in Q : i.attempts < MaxAttempts /\ h[i.id] <= i.attempts
    /\ \A c \in C : /\ c.attempts < MaxAttempts
                    /\ c.token = h[c.id]
                    /\ h[c.id] <= c.attempts + 1
    /\ \A p \in P : p.attempts = MaxAttempts
    /\ \A id \in ScopeIds : h[id] <= MaxAttempts
    /\ \A id \in ScopeIds \ m : h[id] = 0

OneDelivery(Q, C, P) ==
    \A i, j \in Q \union C \union P :
        i.delivery = j.delivery /\ i.delivery # NoDelivery => i.id = j.id

GoodStore(Q, C, P, when, h, m, a) ==
    /\ ListTypes(Q, C, P, h, m, a)
    /\ OneHome(Q, C, P)
    /\ ItemsLive(Q, when, m, a) /\ ItemsLive(C, when, m, a) /\ ItemsLive(P, when, m, a)
    /\ Budgets(Q, C, P, h, m)
    /\ OneDelivery(Q, C, P)

Clocks ==
    /\ now \in Nat /\ now >= MaxLockWait + 1
    /\ stamp \in Nat

LastType ==
    \/ last = NoTransition
    \/ last \in [id : ScopeIds, status : {"acknowledged", "requeued", "pending"}, token : Nat]

IInv ==
    /\ Clocks
    /\ LastType
    /\ GoodStore(queue, claims, pending, now, handed, made, acked)

-----------------------------------------------------------------------------
(* Lemmas about recovery                                                    *)

\* A record built by Retry or Park keeps its scope, delivery and creation time.
LEMMA RetryFields ==
    ASSUME NEW i, NEW t, NEW nb, NEW ord
    PROVE  LET r == Retry(i, t, nb, ord)
           IN  /\ r.id = i.id /\ r.delivery = i.delivery /\ r.created = i.created
               /\ r.expires = t + TTL /\ r.attempts = i.attempts + 1
               /\ r.notBefore = nb /\ r.ord = ord
BY DEF Retry, Item

\* What parking does to the fields of an item.
LEMMA ParkFields ==
    ASSUME NEW i, NEW ord
    PROVE  LET r == Park(i, ord)
           IN  /\ r.id = i.id /\ r.delivery = i.delivery /\ r.created = i.created
               /\ r.expires = i.expires /\ r.attempts = i.attempts + 1
               /\ r.notBefore = i.notBefore /\ r.ord = ord
BY DEF Park, Item

\* What a sampled time is.
LEMMA SampledTime ==
    ASSUME Clocks, NEW t \in (now - MaxLockWait)..now
    PROVE  t \in Nat /\ t <= now /\ now - MaxLockWait <= t /\ Settled(t) \in Nat
BY StoreAssumption DEF Clocks, Settled

\* Nothing stored is rejected, so recovery works on the whole lists.
LEMMA AllSound ==
    ASSUME IInv
    PROVE  /\ NothingRejected
           /\ SoundQueue = queue /\ SoundClaims = claims
           /\ {p \in pending : Sound(p)} = pending
<1>1. \A i \in queue : Sound(i)
  <2>1. \A i \in queue : i.attempts <= MaxAttempts
    BY StoreAssumption DEF IInv, GoodStore, Budgets, ListTypes, ItemType
  <2>2. QED  BY <2>1 DEF IInv, GoodStore, ItemsLive, Sound
<1>2. \A i \in claims : Sound(i)
  <2>1. \A i \in claims : i.attempts <= MaxAttempts
    BY StoreAssumption DEF IInv, GoodStore, Budgets, ListTypes, ClaimType
  <2>2. QED  BY <2>1 DEF IInv, GoodStore, ItemsLive, Sound
<1>3. \A i \in pending : Sound(i)
  <2>1. \A i \in pending : i.attempts <= MaxAttempts
    BY StoreAssumption DEF IInv, GoodStore, Budgets, ListTypes, ItemType
  <2>2. QED  BY <2>1 DEF IInv, GoodStore, ItemsLive, Sound
<1>4. QED  BY <1>1, <1>2, <1>3 DEF SoundQueue, SoundClaims, NothingRejected, Live

\* Where the members of the recovered lists come from.
LEMMA RecoveryOrigin ==
    ASSUME IInv, NEW t \in (now - MaxLockWait)..now
    PROVE  /\ \A i \in RecoveredQueue(t) :
                \/ i \in queue
                \/ \E j \in queue : ~Exhausted(j) /\ i = Retry(j, t, t, j.ord)
                \/ \E c \in claims : /\ c.until <= t /\ ~Exhausted(c)
                                     /\ i = Retry(c, t, t, Settled(t))
           /\ \A c \in RecoveredClaims(t) : c \in claims /\ c.until > t
           /\ \A p \in RecoveredPending(t) :
                \/ p \in pending
                \/ \E j \in queue : /\ j.expires <= t /\ Exhausted(j)
                                    /\ p = Park(j, Settled(t))
                \/ \E c \in claims : /\ c.until <= t /\ Exhausted(c)
                                     /\ p = Park(c, Settled(t))
BY AllSound DEF RecoveredQueue, QueueInPlace, RecoveredClaims, RecoveredPending,
                AppendPending, ExpiredQueued, ExpiredClaims

\* A scope of a recovered list was in the list it says before recovery, with the
\* same delivery, and kept its creation time.
LEMMA RecoveryAncestor ==
    ASSUME IInv, NEW t \in (now - MaxLockWait)..now
    PROVE  /\ \A i \in RecoveredQueue(t) : \E j \in queue \union claims :
                i.id = j.id /\ i.delivery = j.delivery /\ i.created = j.created
           /\ \A p \in RecoveredPending(t) : \E j \in queue \union claims \union pending :
                p.id = j.id /\ p.delivery = j.delivery /\ p.created = j.created
BY RecoveryOrigin, RetryFields, ParkFields

\* Recovery leaves a scope in one list.
LEMMA RecoveryOneHome ==
    ASSUME IInv, NEW t \in (now - MaxLockWait)..now
    PROVE  OneHome(RecoveredQueue(t), RecoveredClaims(t), RecoveredPending(t))
<1> DEFINE Q == RecoveredQueue(t)
           C == RecoveredClaims(t)
           P == RecoveredPending(t)
<1>1. OneHome(queue, claims, pending)  BY DEF IInv, GoodStore
<1>2. /\ SoundQueue = queue /\ SoundClaims = claims
      /\ {p \in pending : Sound(p)} = pending
  BY AllSound
<1>q. \A i \in Q :
         \/ i \in queue /\ i.expires > t
         \/ \E j \in queue : j.expires <= t /\ ~Exhausted(j) /\ i = Retry(j, t, t, j.ord)
         \/ \E c \in claims : c.until <= t /\ ~Exhausted(c) /\ i = Retry(c, t, t, Settled(t))
  BY <1>2 DEF RecoveredQueue, QueueInPlace, ExpiredQueued, ExpiredClaims
<1>c. \A c \in C : c \in claims /\ c.until > t
  BY <1>2 DEF RecoveredClaims
<1>p. \A p \in P :
         \/ p \in pending
         \/ \E j \in queue : j.expires <= t /\ Exhausted(j) /\ p = Park(j, Settled(t))
         \/ \E c \in claims : c.until <= t /\ Exhausted(c) /\ p = Park(c, Settled(t))
  BY <1>2 DEF RecoveredPending, AppendPending, ExpiredQueued, ExpiredClaims
<1>qt. \A j \in queue : j.expires \in Int
  BY DEF IInv, GoodStore, ListTypes, ItemType
<1>ct. \A c \in claims : c.until \in Int
  BY DEF IInv, GoodStore, ListTypes, ClaimType
<1>tt. t \in Int  BY SampledTime DEF IInv
<1>3. \A i, j \in Q : i.id = j.id => i = j
  BY <1>1, <1>q, <1>qt, <1>tt, RetryFields DEF OneHome
<1>4. \A i, j \in C : i.id = j.id => i = j
  BY <1>1, <1>c DEF OneHome
<1>5. \A i, j \in P : i.id = j.id => i = j
  BY <1>1, <1>p, ParkFields DEF OneHome
<1>6. \A i \in Q : \A j \in C : i.id # j.id
  BY <1>1, <1>q, <1>c, <1>ct, <1>tt, RetryFields DEF OneHome
<1>7. \A i \in Q : \A j \in P : i.id # j.id
  BY <1>1, <1>q, <1>p, <1>qt, <1>tt, RetryFields, ParkFields DEF OneHome
<1>8. \A i \in C : \A j \in P : i.id # j.id
  BY <1>1, <1>c, <1>p, <1>ct, <1>tt, ParkFields DEF OneHome
<1>9. QED  BY <1>3, <1>4, <1>5, <1>6, <1>7, <1>8 DEF OneHome

\* The recovered lists are typed.
LEMMA RecoveryTypes ==
    ASSUME IInv, NEW t \in (now - MaxLockWait)..now
    PROVE  ListTypes(RecoveredQueue(t), RecoveredClaims(t), RecoveredPending(t),
                     handed, made, acked)
<1>1. ListTypes(queue, claims, pending, handed, made, acked)
  BY DEF IInv, GoodStore
<1>2. t \in Nat /\ Settled(t) \in Nat /\ t + TTL \in Nat
  BY SampledTime, StoreAssumption DEF IInv
<1>3. \A i \in queue \union claims :
         /\ i.ord \in Nat => Retry(i, t, t, i.ord) \in ItemType
         /\ Retry(i, t, t, Settled(t)) \in ItemType
         /\ Park(i, Settled(t)) \in ItemType
  BY <1>1, <1>2 DEF ListTypes, ItemType, ClaimType, Retry, Park, Item
<1>4. \A i \in queue : i.ord \in Nat
  BY <1>1 DEF ListTypes, ItemType
<1>5. RecoveredQueue(t) \subseteq ItemType
  BY <1>1, <1>3, <1>4, RecoveryOrigin DEF ListTypes
<1>6. RecoveredClaims(t) \subseteq ClaimType
  BY <1>1, RecoveryOrigin DEF ListTypes
<1>7. RecoveredPending(t) \subseteq ItemType
  BY <1>1, <1>3, RecoveryOrigin DEF ListTypes
<1>8. QED  BY <1>1, <1>5, <1>6, <1>7 DEF ListTypes

\* A retried item expires later than it was created although the clock it was
\* recovered by may be behind the one it was created by.
LEMMA RecoveryLive ==
    ASSUME IInv, NEW t \in (now - MaxLockWait)..now
    PROVE  /\ ItemsLive(RecoveredQueue(t), now, made, acked)
           /\ ItemsLive(RecoveredClaims(t), now, made, acked)
           /\ ItemsLive(RecoveredPending(t), now, made, acked)
<1>1. /\ ItemsLive(queue, now, made, acked) /\ ItemsLive(claims, now, made, acked)
      /\ ItemsLive(pending, now, made, acked)
  BY DEF IInv, GoodStore
<1>2. /\ t \in Nat /\ now \in Nat /\ now < t + TTL /\ t <= t + TTL
  BY SampledTime, StoreAssumption DEF IInv, Clocks
<1>3. \A i \in queue \union claims : i.created \in Nat
  BY DEF IInv, GoodStore, ListTypes, ItemType, ClaimType
<1>4. \A i \in queue \union claims : \A ord :
         LET r == Retry(i, t, t, ord)
         IN  /\ r.id \in made /\ r.id \notin acked /\ r.created <= now
             /\ r.created < r.expires /\ r.notBefore <= r.expires
  <2> SUFFICES ASSUME NEW i \in queue \union claims, NEW ord
               PROVE  LET r == Retry(i, t, t, ord)
                      IN  /\ r.id \in made /\ r.id \notin acked /\ r.created <= now
                          /\ r.created < r.expires /\ r.notBefore <= r.expires
    OBVIOUS
  <2>1. i.id \in made /\ i.id \notin acked /\ i.created <= now
    BY <1>1 DEF ItemsLive
  <2>2. i.created < t + TTL
    BY <2>1, <1>2, <1>3, StoreAssumption
  <2>3. QED  BY <2>1, <2>2, <1>2, RetryFields
<1>5. ItemsLive(RecoveredQueue(t), now, made, acked)
  BY <1>1, <1>4, RecoveryOrigin DEF ItemsLive
<1>6. ItemsLive(RecoveredClaims(t), now, made, acked)
  BY <1>1, RecoveryOrigin DEF ItemsLive
<1>7. ItemsLive(RecoveredPending(t), now, made, acked)
  BY <1>1, ParkFields, RecoveryOrigin DEF ItemsLive
<1>8. QED  BY <1>5, <1>6, <1>7

\* Recovery keeps the count of the handouts an item has used up.
LEMMA RecoveryBudgets ==
    ASSUME IInv, NEW t \in (now - MaxLockWait)..now
    PROVE  Budgets(RecoveredQueue(t), RecoveredClaims(t), RecoveredPending(t), handed, made)
<1>1. Budgets(queue, claims, pending, handed, made)
  BY DEF IInv, GoodStore
<1>2. /\ \A i \in queue \union claims : i.attempts \in Nat /\ i.id \in ScopeIds
      /\ handed \in [ScopeIds -> Nat]
  BY DEF IInv, GoodStore, ListTypes, ItemType, ClaimType
<1>3. \A i \in RecoveredQueue(t) : i.attempts < MaxAttempts /\ handed[i.id] <= i.attempts
  <2> SUFFICES ASSUME NEW i \in RecoveredQueue(t)
               PROVE  i.attempts < MaxAttempts /\ handed[i.id] <= i.attempts
    OBVIOUS
  <2>1. CASE i \in queue
    BY <2>1, <1>1 DEF Budgets
  <2>2. CASE \E j \in queue : ~Exhausted(j) /\ i = Retry(j, t, t, j.ord)
    <3>1. PICK j \in queue : ~Exhausted(j) /\ i = Retry(j, t, t, j.ord)
      BY <2>2
    <3>2. i.id = j.id /\ i.attempts = j.attempts + 1
      BY <3>1, RetryFields
    <3>3. j.attempts \in Nat /\ handed[j.id] \in Nat
      BY <1>2
    <3>4. handed[j.id] <= j.attempts
      BY <1>1 DEF Budgets
    <3>5. ~(j.attempts + 1 >= MaxAttempts)
      BY <3>1 DEF Exhausted
    <3>6. MaxAttempts \in Nat
      BY StoreAssumption
    <3>7. i.attempts < MaxAttempts
      BY <3>2, <3>3, <3>5, <3>6
    <3>8. handed[i.id] <= i.attempts
      BY <3>2, <3>3, <3>4
    <3>9. QED  BY <3>7, <3>8
  <2>3. CASE \E c \in claims : ~Exhausted(c) /\ i = Retry(c, t, t, Settled(t))
    <3>1. PICK c \in claims : ~Exhausted(c) /\ i = Retry(c, t, t, Settled(t))
      BY <2>3
    <3>2. i.id = c.id /\ i.attempts = c.attempts + 1
      BY <3>1, RetryFields
    <3>3. c.attempts \in Nat /\ handed[c.id] \in Nat
      BY <1>2
    <3>4. handed[c.id] <= c.attempts + 1
      BY <1>1 DEF Budgets
    <3>5. ~(c.attempts + 1 >= MaxAttempts)
      BY <3>1 DEF Exhausted
    <3>6. MaxAttempts \in Nat
      BY StoreAssumption
    <3>7. i.attempts < MaxAttempts
      BY <3>2, <3>3, <3>5, <3>6
    <3>8. handed[i.id] <= i.attempts
      BY <3>2, <3>4
    <3>9. QED  BY <3>7, <3>8
  <2>4. QED  BY <2>1, <2>2, <2>3, RecoveryOrigin
<1>4. \A p \in RecoveredPending(t) : p.attempts = MaxAttempts
  <2>1. \A i \in queue \union claims : Exhausted(i) => i.attempts + 1 = MaxAttempts
    BY <1>1, <1>2, StoreAssumption DEF Budgets, Exhausted
  <2>2. QED  BY <2>1, <1>1, RecoveryOrigin, ParkFields DEF Budgets
<1>5. \A c \in RecoveredClaims(t) : c \in claims
  BY RecoveryOrigin
<1>6. QED  BY <1>1, <1>3, <1>4, <1>5 DEF Budgets

\* Recovery leaves one scope per delivery.
LEMMA RecoveryOneDelivery ==
    ASSUME IInv, NEW t \in (now - MaxLockWait)..now
    PROVE  OneDelivery(RecoveredQueue(t), RecoveredClaims(t), RecoveredPending(t))
<1>1. OneDelivery(queue, claims, pending)
  BY DEF IInv, GoodStore
<1>2. \A i \in RecoveredQueue(t) \union RecoveredClaims(t) \union RecoveredPending(t) :
         \E j \in queue \union claims \union pending : i.id = j.id /\ i.delivery = j.delivery
  BY RecoveryAncestor, RecoveryOrigin
<1>3. QED  BY <1>1, <1>2 DEF OneDelivery

\* Fewer pending entries keep a good store good: eviction breaks nothing else.
LEMMA FewerPending ==
    ASSUME NEW Q, NEW C, NEW P, NEW when, NEW h, NEW m, NEW a,
           GoodStore(Q, C, P, when, h, m, a), NEW R \in SUBSET P
    PROVE  GoodStore(Q, C, R, when, h, m, a)
BY DEF GoodStore, ListTypes, OneHome, ItemsLive, Budgets, OneDelivery

\* The recovered lists, after eviction, are a good store.
LEMMA RecoveryGood ==
    ASSUME IInv, NEW t \in (now - MaxLockWait)..now, NEW P \in Newest(RecoveredPending(t))
    PROVE  GoodStore(RecoveredQueue(t), RecoveredClaims(t), P, now, handed, made, acked)
<1>1. GoodStore(RecoveredQueue(t), RecoveredClaims(t), RecoveredPending(t), now,
                handed, made, acked)
  BY RecoveryTypes, RecoveryOneHome, RecoveryLive, RecoveryBudgets, RecoveryOneDelivery
     DEF GoodStore
<1>2. P \in SUBSET RecoveredPending(t)
  BY DEF Newest
<1>3. QED  BY <1>1, <1>2, FewerPending

-----------------------------------------------------------------------------
(* What each operation does to a good store                                 *)

\* A new scope joins the queue of good lists.
LEMMA EnqueueGood ==
    ASSUME NEW Q, NEW C, NEW P, NEW id \in ScopeIds \ made,
           NEW d \in Deliveries \union {NoDelivery}, NEW t \in Nat, NEW ord \in Nat,
           now \in Nat, t <= now,
           GoodStore(Q, C, P, now, handed, made, acked),
           d # NoDelivery => \A i \in Q \union C \union P : i.delivery # d
    PROVE  GoodStore(Q \union {Item(id, d, t, t + TTL, 0, t, ord)}, C, P, now,
                     handed, made \union {id}, acked)
<1> DEFINE new == Item(id, d, t, t + TTL, 0, t, ord)
<1>1. /\ new.id = id /\ new.delivery = d /\ new.created = t /\ new.expires = t + TTL
      /\ new.attempts = 0 /\ new.notBefore = t
  BY DEF Item
<1>2. new \in ItemType /\ t < t + TTL /\ t <= t + TTL /\ 0 < MaxAttempts
  BY StoreAssumption DEF Item, ItemType
<1> HIDE DEF new
<1>3. ListTypes(Q \union {new}, C, P, handed, made \union {id}, acked)
  BY <1>2 DEF GoodStore, ListTypes
<1>4. \A i \in Q \union C \union P : i.id # id
  BY DEF GoodStore, ItemsLive
<1>5. OneHome(Q \union {new}, C, P)
  BY <1>1, <1>4 DEF GoodStore, OneHome
<1>6. /\ ItemsLive(Q \union {new}, now, made \union {id}, acked)
      /\ ItemsLive(C, now, made \union {id}, acked)
      /\ ItemsLive(P, now, made \union {id}, acked)
  BY <1>1, <1>2 DEF GoodStore, ItemsLive, ListTypes
<1>7. Budgets(Q \union {new}, C, P, handed, made \union {id})
  BY <1>1, <1>2 DEF GoodStore, Budgets
<1>8. OneDelivery(Q \union {new}, C, P)
  BY <1>1 DEF GoodStore, OneDelivery
<1>9. QED  BY <1>3, <1>5, <1>6, <1>7, <1>8 DEF GoodStore, new

\* An item moves from the queue to the claims, with one more handout.
LEMMA ClaimGood ==
    ASSUME NEW Q, NEW C, NEW P, NEW i \in Q, NEW t \in Nat, now \in Nat,
           GoodStore(Q, C, P, now, handed, made, acked)
    PROVE  GoodStore(Q \ {i},
                     {c \in C : c.id # i.id} \union {Claimed(i, t + ClaimLease, handed[i.id] + 1)},
                     P, now, [handed EXCEPT ![i.id] = @ + 1], made, acked)
<1> DEFINE new == Claimed(i, t + ClaimLease, handed[i.id] + 1)
           h   == [handed EXCEPT ![i.id] = @ + 1]
<1>0. i \in ItemType /\ i.id \in ScopeIds /\ handed \in [ScopeIds -> Nat]
  BY DEF GoodStore, ListTypes, ItemType
<1>1. /\ new.id = i.id /\ new.delivery = i.delivery /\ new.created = i.created
      /\ new.expires = i.expires /\ new.attempts = i.attempts
      /\ new.notBefore = i.notBefore /\ new.token = handed[i.id] + 1
  BY DEF Claimed
<1>2. new \in ClaimType
  BY <1>0, StoreAssumption DEF Claimed, ItemType, ClaimType
<1>3. /\ h \in [ScopeIds -> Nat] /\ h[i.id] = handed[i.id] + 1
      /\ \A id \in ScopeIds : id # i.id => h[id] = handed[id]
  BY <1>0
<1> HIDE DEF new, h
<1> DEFINE D == {c \in C : c.id # i.id} \union {new}
<1>4. ListTypes(Q \ {i}, D, P, h, made, acked)
  BY <1>2, <1>3 DEF GoodStore, ListTypes
<1>5. OneHome(Q \ {i}, D, P)
  BY <1>1 DEF GoodStore, OneHome
<1>6. /\ ItemsLive(Q \ {i}, now, made, acked) /\ ItemsLive(D, now, made, acked)
      /\ ItemsLive(P, now, made, acked)
  BY <1>1 DEF GoodStore, ItemsLive
<1>7. Budgets(Q \ {i}, D, P, h, made)
  <2>1. /\ i.attempts \in Nat /\ i.attempts < MaxAttempts /\ handed[i.id] <= i.attempts
        /\ handed[i.id] \in Nat /\ MaxAttempts \in Nat /\ i.id \in made
    BY <1>0, StoreAssumption DEF GoodStore, Budgets, ItemType, ItemsLive
  <2>2. \A j \in Q \ {i} : j.id # i.id /\ j.id \in ScopeIds
    BY DEF GoodStore, OneHome, ListTypes, ItemType
  <2>3. \A j \in Q \ {i} : j.attempts < MaxAttempts /\ h[j.id] <= j.attempts
    BY <1>3, <2>2 DEF GoodStore, Budgets
  <2>4. \A c \in C : c.id # i.id => c.id \in ScopeIds /\ h[c.id] = handed[c.id]
    BY <1>3 DEF GoodStore, ListTypes, ClaimType
  <2>5. \A c \in D : c.attempts < MaxAttempts /\ c.token = h[c.id] /\ h[c.id] <= c.attempts + 1
    BY <1>1, <1>3, <2>1, <2>4 DEF GoodStore, Budgets
  <2>6. \A id \in ScopeIds : h[id] <= MaxAttempts
    BY <1>3, <2>1 DEF GoodStore, Budgets
  <2>7. \A id \in ScopeIds \ made : h[id] = 0
    BY <1>3, <2>1 DEF GoodStore, Budgets
  <2>8. QED  BY <2>3, <2>5, <2>6, <2>7 DEF GoodStore, Budgets
<1>8. OneDelivery(Q \ {i}, D, P)
  BY <1>1 DEF GoodStore, OneDelivery
<1>9. QED  BY <1>4, <1>5, <1>6, <1>7, <1>8 DEF GoodStore, new, h

\* A claim is retired.
LEMMA AckGood ==
    ASSUME NEW Q, NEW C, NEW P, NEW c \in C,
           GoodStore(Q, C, P, now, handed, made, acked)
    PROVE  GoodStore(Q, {d \in C : d.id # c.id}, P, now, handed, made, acked \union {c.id})
BY DEF GoodStore, ListTypes, OneHome, ItemsLive, Budgets, OneDelivery, ClaimType

\* A claim with attempts to spare goes back to the queue.
LEMMA RetryGood ==
    ASSUME NEW Q, NEW C, NEW P, NEW c \in C, NEW t \in Nat, NEW nb \in Nat, NEW ord \in Nat,
           now \in Nat, now < t + TTL, nb <= t + TTL, ~Exhausted(c),
           GoodStore(Q, C, P, now, handed, made, acked)
    PROVE  GoodStore(Q \union {Retry(c, t, nb, ord)}, {d \in C : d.id # c.id}, P, now,
                     handed, made, acked)
<1> DEFINE new == Retry(c, t, nb, ord)
           D   == {d \in C : d.id # c.id}
<1>0. c \in ClaimType /\ t + TTL \in Nat
  BY StoreAssumption DEF GoodStore, ListTypes
<1>1. /\ new.id = c.id /\ new.delivery = c.delivery /\ new.created = c.created
      /\ new.expires = t + TTL /\ new.attempts = c.attempts + 1 /\ new.notBefore = nb
  BY RetryFields
<1>2. new \in ItemType
  BY <1>0 DEF Retry, Item, ItemType, ClaimType
<1> HIDE DEF new
<1>3. ListTypes(Q \union {new}, D, P, handed, made, acked)
  BY <1>2 DEF GoodStore, ListTypes
<1>4. OneHome(Q \union {new}, D, P)
  BY <1>1 DEF GoodStore, OneHome
<1>5. c.id \in made /\ c.id \notin acked /\ c.created <= now /\ c.created < t + TTL
  BY <1>0, StoreAssumption DEF GoodStore, ItemsLive, ClaimType
<1>6. /\ ItemsLive(Q \union {new}, now, made, acked) /\ ItemsLive(D, now, made, acked)
      /\ ItemsLive(P, now, made, acked)
  BY <1>1, <1>5 DEF GoodStore, ItemsLive
<1>7. c.attempts + 1 < MaxAttempts /\ handed[c.id] <= c.attempts + 1
  BY <1>0, StoreAssumption DEF GoodStore, Budgets, Exhausted, ClaimType
<1>8. Budgets(Q \union {new}, D, P, handed, made)
  BY <1>1, <1>7 DEF GoodStore, Budgets
<1>9. OneDelivery(Q \union {new}, D, P)
  BY <1>1 DEF GoodStore, OneDelivery
<1>10. QED  BY <1>3, <1>4, <1>6, <1>8, <1>9 DEF GoodStore, new

\* A claim without attempts to spare goes to the parking lot.
LEMMA ParkGood ==
    ASSUME NEW Q, NEW C, NEW P, NEW c \in C, NEW ord \in Nat, Exhausted(c),
           GoodStore(Q, C, P, now, handed, made, acked)
    PROVE  GoodStore(Q, {d \in C : d.id # c.id}, AppendPending(P, {Park(c, ord)}), now,
                     handed, made, acked)
<1> DEFINE new == Park(c, ord)
           D   == {d \in C : d.id # c.id}
<1>0. c \in ClaimType
  BY DEF GoodStore, ListTypes
<1>1. /\ new.id = c.id /\ new.delivery = c.delivery /\ new.created = c.created
      /\ new.expires = c.expires /\ new.attempts = c.attempts + 1
      /\ new.notBefore = c.notBefore
  BY ParkFields
<1>2. new \in ItemType
  BY <1>0 DEF Park, Item, ItemType, ClaimType
<1> HIDE DEF new
<1> DEFINE R == P \union {new}
<1>3. ListTypes(Q, D, R, handed, made, acked)
  BY <1>2 DEF GoodStore, ListTypes
<1>4. OneHome(Q, D, R)
  BY <1>1 DEF GoodStore, OneHome
<1>5. ItemsLive(Q, now, made, acked) /\ ItemsLive(D, now, made, acked) /\ ItemsLive(R, now, made, acked)
  BY <1>1 DEF GoodStore, ItemsLive
<1>6. c.attempts + 1 = MaxAttempts
  BY <1>0, StoreAssumption DEF GoodStore, Budgets, Exhausted, ClaimType
<1>7. Budgets(Q, D, R, handed, made)
  BY <1>1, <1>6 DEF GoodStore, Budgets
<1>8. OneDelivery(Q, D, R)
  BY <1>1 DEF GoodStore, OneDelivery
<1>9. GoodStore(Q, D, R, now, handed, made, acked)
  BY <1>3, <1>4, <1>5, <1>7, <1>8 DEF GoodStore
<1>10. AppendPending(P, {Park(c, ord)}) \in SUBSET R
  BY DEF AppendPending, new
<1>11. QED  BY <1>9, <1>10, FewerPending

-----------------------------------------------------------------------------
(* The invariant is inductive                                               *)

\* The empty store is good.
LEMMA InitGood == Init => IInv
BY StoreAssumption DEF Init, IInv, Clocks, LastType, GoodStore, ListTypes, OneHome, ItemsLive,
       Budgets, OneDelivery, NoTransition

\* Time alone harms nothing: what has run out is only removed by a recovery.
LEMMA TickGood == ASSUME IInv, Tick PROVE IInv'
<1>1. Clocks'
  BY StoreAssumption DEF IInv, Clocks, Tick
<1>2. LastType'
  BY DEF IInv, LastType, Tick
<1>3. GoodStore(queue, claims, pending, now + 1, handed, made, acked)
  BY DEF IInv, Clocks, GoodStore, ListTypes, ItemType, ClaimType, ItemsLive
<1>4. QED  BY <1>1, <1>2, <1>3 DEF IInv, Tick

\* An operation refused after its recovery keeps the invariant.
LEMMA OnlyRecoversGood ==
    ASSUME IInv, NEW t \in (now - MaxLockWait)..now, OnlyRecovers(t), now' = now
    PROVE  IInv'
BY RecoveryGood, SampledTime DEF IInv, Clocks, LastType, OnlyRecovers

\* Every operation keeps the invariant: recovery first, then one of the moves above.
LEMMA OperationGood ==
    ASSUME IInv, NEW t \in (now - MaxLockWait)..now, Operation(t), now' = now
    PROVE  IInv'
<1>0. /\ t \in Nat /\ t <= now /\ now < t + TTL /\ now \in Nat
      /\ Settled(t) \in Nat /\ Settled(t) + 1 \in Nat
  BY SampledTime, StoreAssumption DEF IInv, Clocks
<1>1. CASE \E id \in ScopeIds, d \in Deliveries \union {NoDelivery} : Enqueue(t, id, d)
  <2>1. PICK id \in ScopeIds, d \in Deliveries \union {NoDelivery} : Enqueue(t, id, d)
    BY <1>1
  <2>2. GoodStore(RecoveredQueue(t), RecoveredClaims(t), pending', now, handed, made, acked)
    BY <2>1, RecoveryGood DEF Enqueue
  <2>3. GoodStore(queue', claims', pending', now, handed, made', acked)
    BY <2>1, <2>2, <1>0, EnqueueGood DEF Enqueue, Known
  <2>4. QED  BY <2>1, <2>3, <1>0 DEF IInv, Clocks, LastType, Enqueue
<1>2. CASE \E d \in Deliveries : EnqueueExisting(t, d)
  BY <1>2, OnlyRecoversGood DEF EnqueueExisting
<1>3. CASE \E i \in RecoveredQueue(t) : Claim(t, i)
  <2>1. PICK i \in RecoveredQueue(t) : Claim(t, i)
    BY <1>3
  <2>2. GoodStore(RecoveredQueue(t), RecoveredClaims(t), pending', now, handed, made, acked)
    BY <2>1, RecoveryGood DEF Claim
  <2>3. GoodStore(queue', claims', pending', now, handed', made, acked)
    BY <2>1, <2>2, <1>0, ClaimGood DEF Claim
  <2>4. QED  BY <2>1, <2>3, <1>0 DEF IInv, Clocks, LastType, Claim
<1>4. CASE ClaimNothing(t) \/ QueueStatus(t)
  BY <1>4, OnlyRecoversGood DEF ClaimNothing, QueueStatus
<1>5. ASSUME NEW id \in ScopeIds, NEW token \in 1..handed[id], Ack(t, id, token)
      PROVE  IInv'
  <2>1. PICK c \in RecoveredClaims(t) : c.id = id /\ c.token = token
    BY <1>5 DEF Ack, HasClaim
  <2>2. GoodStore(RecoveredQueue(t), RecoveredClaims(t), pending', now, handed, made, acked)
    BY <1>5, RecoveryGood DEF Ack
  <2>3. GoodStore(queue', claims', pending', now, handed, made, acked')
    BY <1>5, <2>1, <2>2, AckGood DEF Ack
  <2>4. id \in ScopeIds /\ token \in Nat
    BY <1>5 DEF IInv, GoodStore, ListTypes
  <2>5. QED  BY <1>5, <2>3, <2>4, <1>0 DEF IInv, Clocks, LastType, Ack
<1>6. ASSUME NEW id \in ScopeIds, NEW token \in 1..handed[id],
             AckRepeated(t, id, token) \/ RequeueRepeated(t, id, token)
      PROVE  IInv'
  BY <1>6, OnlyRecoversGood DEF AckRepeated, RequeueRepeated, Repeated
<1>7. ASSUME NEW id \in ScopeIds, NEW token \in 1..handed[id], RequeueRetry(t, id, token)
      PROVE  IInv'
  <2>1. PICK c \in RecoveredClaims(t) :
           /\ c.id = id /\ c.token = token /\ ~Exhausted(c)
           /\ queue' = RecoveredQueue(t)
                \union {Retry(c, t, t + RetryDelay(c.attempts + 1), Settled(t) + 1)}
           /\ claims' = {d \in RecoveredClaims(t) : d.id # id}
           /\ pending' \in Newest(RecoveredPending(t))
           /\ last' = [id |-> id, status |-> "requeued", token |-> token]
           /\ stamp' = Settled(t) + 1
           /\ UNCHANGED <<handed, made, acked>>
    BY <1>7 DEF RequeueRetry
  <2>2. GoodStore(RecoveredQueue(t), RecoveredClaims(t), pending', now, handed, made, acked)
    BY <2>1, RecoveryGood
  <2>3. c.attempts \in Nat
    BY <2>2 DEF GoodStore, ListTypes, ClaimType
  <2>4. RetryDelay(c.attempts + 1) \in Nat /\ RetryDelay(c.attempts + 1) <= TTL
    BY <2>3, StoreAssumption DEF RetryDelay
  <2>5. GoodStore(queue', claims', pending', now, handed, made, acked)
    <3>1. /\ t + RetryDelay(c.attempts + 1) \in Nat
          /\ t + RetryDelay(c.attempts + 1) <= t + TTL
      BY <2>4, <1>0, StoreAssumption
    <3>2. GoodStore(RecoveredQueue(t)
                      \union {Retry(c, t, t + RetryDelay(c.attempts + 1), Settled(t) + 1)},
                    {d \in RecoveredClaims(t) : d.id # c.id}, pending', now, handed, made, acked)
      BY <2>1, <2>2, <3>1, <1>0, RetryGood
    <3>3. QED  BY <2>1, <3>2
  <2>6. id \in ScopeIds /\ token \in Nat
    BY <1>7 DEF IInv, GoodStore, ListTypes
  <2>7. QED  BY <2>1, <2>5, <2>6, <1>0 DEF IInv, Clocks, LastType
<1>8. ASSUME NEW id \in ScopeIds, NEW token \in 1..handed[id], RequeuePending(t, id, token)
      PROVE  IInv'
  <2>1. PICK c \in RecoveredClaims(t) :
           /\ c.id = id /\ c.token = token /\ Exhausted(c)
           /\ queue' = RecoveredQueue(t)
           /\ claims' = {d \in RecoveredClaims(t) : d.id # id}
           /\ pending' \in Newest(AppendPending(RecoveredPending(t), {Park(c, Settled(t) + 1)}))
           /\ last' = [id |-> id, status |-> "pending", token |-> token]
           /\ stamp' = Settled(t) + 1
           /\ UNCHANGED <<handed, made, acked>>
    BY <1>8 DEF RequeuePending
  <2>2. GoodStore(RecoveredQueue(t), RecoveredClaims(t), RecoveredPending(t), now,
                  handed, made, acked)
    BY RecoveryTypes, RecoveryOneHome, RecoveryLive, RecoveryBudgets, RecoveryOneDelivery
       DEF GoodStore
  <2>3. GoodStore(queue', claims', AppendPending(RecoveredPending(t), {Park(c, Settled(t) + 1)}),
                  now, handed, made, acked)
    BY <2>1, <2>2, <1>0, ParkGood
  <2>4. GoodStore(queue', claims', pending', now, handed, made, acked)
    BY <2>1, <2>3, FewerPending DEF Newest
  <2>5. id \in ScopeIds /\ token \in Nat
    BY <1>8 DEF IInv, GoodStore, ListTypes
  <2>6. QED  BY <2>1, <2>4, <2>5, <1>0 DEF IInv, Clocks, LastType
<1>9. QED
  BY <1>1, <1>2, <1>3, <1>4, <1>5, <1>6, <1>7, <1>8 DEF Operation, Requeue

\* The invariant is inductive.
LEMMA NextGood == IInv /\ [Next]_vars => IInv'
<1> SUFFICES ASSUME IInv, [Next]_vars PROVE IInv'
  OBVIOUS
<1>1. CASE Tick  BY <1>1, TickGood
<1>2. CASE \E t \in (now - MaxLockWait)..now : Operation(t) /\ now' = now
  BY <1>2, OperationGood
<1>3. CASE UNCHANGED vars
  BY <1>3 DEF vars, IInv, Clocks, LastType
<1>4. QED  BY <1>1, <1>2, <1>3 DEF Next

\* The inductive invariant holds of every configuration.
THEOREM Invariance == Spec => []IInv
BY InitGood, NextGood, PTL DEF Spec

-----------------------------------------------------------------------------
(* What follows from it                                                     *)

\* Every state of the store file is well typed.
THEOREM TypeCorrect == Spec => []TypeOK
<1>1. IInv => TypeOK
  BY DEF IInv, Clocks, LastType, GoodStore, ListTypes, TypeOK
<1>2. QED  BY <1>1, Invariance, PTL

\* A scope is in one list at most, and in none once it is acknowledged.
THEOREM ScopesHaveOneHome == Spec => []SingleHome
<1>1. IInv => SingleHome
  BY DEF IInv, GoodStore, OneHome, ItemsLive, SingleHome, Ids, Live
<1>2. QED  BY <1>1, Invariance, PTL

\* No load of the store rejects an item that an operation stored.
THEOREM NoItemRejected == Spec => []NothingRejected
<1>1. IInv => NothingRejected
  BY AllSound
<1>2. QED  BY <1>1, Invariance, PTL

\* A delivery never has two scopes in the store.
THEOREM DeliveriesAreUnique == Spec => []OneScopePerDelivery
<1>1. IInv => OneScopePerDelivery
  BY DEF IInv, GoodStore, OneDelivery, OneScopePerDelivery, Live
<1>2. QED  BY <1>1, Invariance, PTL

\* A scope is handed out at most MaxAttempts times.
THEOREM HandoutsAreBounded == Spec => []BoundedHandouts
<1>1. IInv => BoundedHandouts
  BY DEF IInv, GoodStore, Budgets, BoundedHandouts
<1>2. QED  BY <1>1, Invariance, PTL

\* Only the worker of the latest claim retires a scope.
THEOREM StaleWorkersRetireNothing == Spec => OnlyTheHolderRetires
<1> DEFINE Holder(id) ==
      /\ last' = [id |-> id, status |-> "acknowledged", token |-> handed'[id]]
      /\ \E c \in claims : c.id = id /\ c.token = handed'[id]
<1>1. IInv /\ [Next]_vars => [\A id \in acked' \ acked : Holder(id)]_vars
  <2> SUFFICES ASSUME IInv, Next, NEW id \in acked' \ acked
               PROVE  Holder(id)
    BY DEF vars
  <2>1. PICK t \in (now - MaxLockWait)..now : Operation(t)
    BY DEF Next, Tick
  <2>2. PICK s \in ScopeIds : \E token \in 1..handed[s] : Ack(t, s, token)
    BY <2>1 DEF Operation, Enqueue, EnqueueExisting, Claim, ClaimNothing, QueueStatus,
                AckRepeated, RequeueRepeated, Repeated, Requeue, RequeueRetry,
                RequeuePending, OnlyRecovers
  <2>3. PICK token \in 1..handed[s] : s = id /\ Ack(t, s, token)
    BY <2>2 DEF Ack
  <2>4. PICK c \in RecoveredClaims(t) : c.id = id /\ c.token = token
    BY <2>3 DEF Ack, HasClaim
  <2>5. c \in claims /\ token = handed[id]
    BY <2>4, RecoveryOrigin DEF IInv, GoodStore, Budgets
  <2>6. QED  BY <2>3, <2>4, <2>5 DEF Ack
<1>2. QED  BY <1>1, Invariance, PTL DEF Spec, OnlyTheHolderRetires

\* No scope is handed out again under a running lease.
THEOREM LeasesAreExclusive == Spec => LeaseIsExclusive
<1>1. IInv /\ [Next]_vars =>
        [\A c \in claims : handed'[c.id] # handed[c.id] => c.until <= now]_vars
  <2> SUFFICES ASSUME IInv, Next, NEW c \in claims, handed'[c.id] # handed[c.id]
               PROVE  c.until <= now
    BY DEF vars
  <2>1. PICK t \in (now - MaxLockWait)..now : Operation(t)
    BY DEF Next, Tick
  <2>2. PICK i \in RecoveredQueue(t) : Claim(t, i)
    BY <2>1 DEF Operation, Enqueue, EnqueueExisting, Ack, ClaimNothing, QueueStatus,
                AckRepeated, RequeueRepeated, Repeated, Requeue, RequeueRetry,
                RequeuePending, OnlyRecovers
  <2>3. handed \in [ScopeIds -> Nat] /\ c.id \in ScopeIds /\ c.until \in Nat
    BY DEF IInv, GoodStore, ListTypes, ClaimType
  <2>4. i.id = c.id
    BY <2>2, <2>3 DEF Claim
  <2>5. OneHome(queue, claims, pending)
    BY DEF IInv, GoodStore
  <2>6. \E d \in claims : d.until <= t /\ d.id = c.id
    BY <2>4, <2>5, RecoveryOrigin, RetryFields DEF OneHome
  <2>7. c.until <= t
    BY <2>5, <2>6 DEF OneHome
  <2>8. QED  BY <2>3, <2>7, SampledTime DEF IInv, Clocks
<1>2. QED  BY <1>1, Invariance, PTL DEF Spec, LeaseIsExclusive

-----------------------------------------------------------------------------
(* Nothing is lost below the cap of the pending list                         *)

Finite == IsFiniteSet(queue) /\ IsFiniteSet(claims) /\ IsFiniteSet(pending)

\* Sending finitely many claims back makes finitely many items.
LEMMA RetriesFinite ==
    ASSUME NEW S, IsFiniteSet(S), NEW t, NEW ord
    PROVE  IsFiniteSet({Retry(c, t, t, ord) : c \in S})
<1> DEFINE T == {Retry(c, t, t, ord) : c \in S}
           f == [c \in S |-> Retry(c, t, t, ord)]
<1>1. f \in Surjection(S, T)
  BY DEF Surjection
<1>2. QED  BY <1>1, FS_Surjection

\* Aging finitely many items makes finitely many.
LEMMA RetriesInPlaceFinite ==
    ASSUME NEW S, IsFiniteSet(S), NEW t
    PROVE  IsFiniteSet({Retry(i, t, t, i.ord) : i \in S})
<1> DEFINE T == {Retry(i, t, t, i.ord) : i \in S}
           f == [i \in S |-> Retry(i, t, t, i.ord)]
<1>1. f \in Surjection(S, T)
  BY DEF Surjection
<1>2. QED  BY <1>1, FS_Surjection

\* Parking finitely many items makes finitely many.
LEMMA ParkedFinite ==
    ASSUME NEW S, IsFiniteSet(S), NEW ord
    PROVE  IsFiniteSet({Park(i, ord) : i \in S})
<1> DEFINE T == {Park(i, ord) : i \in S}
           f == [i \in S |-> Park(i, ord)]
<1>1. f \in Surjection(S, T)
  BY DEF Surjection
<1>2. QED  BY <1>1, FS_Surjection

\* Recovery keeps the lists finite, so the parking lot can be trimmed to its newest.
LEMMA RecoveryFinite ==
    ASSUME IInv, Finite, NEW t \in (now - MaxLockWait)..now
    PROVE  /\ IsFiniteSet(RecoveredQueue(t)) /\ IsFiniteSet(RecoveredClaims(t))
           /\ IsFiniteSet(RecoveredPending(t))
<1> DEFINE A == {Retry(i, t, t, i.ord) : i \in queue}
           B == {Retry(c, t, t, Settled(t)) : c \in claims}
           D == {Park(i, Settled(t)) : i \in queue \union claims}
<1>1. IsFiniteSet(A) /\ IsFiniteSet(B) /\ IsFiniteSet(D)
  <2>1. IsFiniteSet(queue) /\ IsFiniteSet(claims) /\ IsFiniteSet(queue \union claims)
    BY FS_Union DEF Finite
  <2>2. IsFiniteSet(A)  BY <2>1, RetriesInPlaceFinite
  <2>3. IsFiniteSet(B)  BY <2>1, RetriesFinite
  <2>4. IsFiniteSet(D)  BY <2>1, ParkedFinite
  <2>5. QED  BY <2>2, <2>3, <2>4
<1>2. RecoveredQueue(t) \in SUBSET (queue \union A \union B)
  BY RecoveryOrigin
<1>3. RecoveredClaims(t) \in SUBSET claims
  BY RecoveryOrigin
<1>4. RecoveredPending(t) \in SUBSET (pending \union D)
  BY RecoveryOrigin
<1> HIDE DEF A, B, D
<1>5. IsFiniteSet(queue \union A \union B) /\ IsFiniteSet(pending \union D)
  BY <1>1, FS_Union DEF Finite
<1>6. QED  BY <1>2, <1>3, <1>4, <1>5, FS_Subset DEF Finite

\* The cap either keeps every entry or leaves the list at its cap.
LEMMA NewestKeepsOrFills ==
    ASSUME NEW S, IsFiniteSet(S), NEW keep \in Newest(S)
    PROVE  /\ keep \in SUBSET S /\ IsFiniteSet(keep)
           /\ keep = S \/ Cardinality(keep) = MaxPending
           /\ Cardinality(S) >= MaxPending => Cardinality(keep) = MaxPending
<1>1. keep \in SUBSET S /\ Cardinality(S) \in Nat
  BY FS_CardinalityType DEF Newest
<1>2. IsFiniteSet(keep) /\ (Cardinality(S) = Cardinality(keep) => S = keep)
  BY <1>1, FS_Subset
<1>3. QED  BY <1>1, <1>2, StoreAssumption DEF Newest

\* Before the cap, recovery keeps every scope somewhere and every pending entry.
LEMMA RecoveryKeepsScopes ==
    ASSUME IInv, NEW t \in (now - MaxLockWait)..now
    PROVE  /\ Ids(Live) \subseteq
                Ids(RecoveredQueue(t) \union RecoveredClaims(t) \union RecoveredPending(t))
           /\ pending \subseteq RecoveredPending(t)
<1>1. OneHome(queue, claims, pending) /\ t \in Int
  BY SampledTime DEF IInv, GoodStore
<1>2. /\ SoundQueue = queue /\ SoundClaims = claims
      /\ {p \in pending : Sound(p)} = pending
  BY AllSound
<1>3. \A i \in queue : i.expires \in Int
  BY DEF IInv, GoodStore, ListTypes, ItemType
<1>4. \A c \in claims : c.until \in Int
  BY DEF IInv, GoodStore, ListTypes, ClaimType
<1> DEFINE Parked == {Park(i, Settled(t)) :
                        i \in {j \in ExpiredQueued(t) \union ExpiredClaims(t) : Exhausted(j)}}
<1>5. \A p \in pending : p.id \notin Ids(Parked)
  <2>1. \A q \in Parked : \E j \in queue \union claims : q.id = j.id
    BY <1>2, ParkFields DEF ExpiredQueued, ExpiredClaims
  <2>2. QED  BY <1>1, <2>1 DEF OneHome, Ids
<1>6. RecoveredPending(t) = pending \union Parked
  BY <1>2, <1>5 DEF RecoveredPending, AppendPending
<1>7. \A i \in queue : i.id \in Ids(RecoveredQueue(t) \union RecoveredPending(t))
  <2> SUFFICES ASSUME NEW i \in queue
               PROVE  i.id \in Ids(RecoveredQueue(t) \union RecoveredPending(t))
    OBVIOUS
  <2>1. i.id \notin Ids(SoundClaims)
    BY <1>1, <1>2 DEF OneHome, Ids
  <2>2. CASE i.expires > t
    BY <2>1, <2>2, <1>2 DEF RecoveredQueue, QueueInPlace, Ids
  <2>3. CASE i.expires <= t /\ ~Exhausted(i)
    <3>1. Retry(i, t, t, i.ord) \in QueueInPlace(t)
      BY <2>3, <1>2 DEF QueueInPlace, ExpiredQueued
    <3>2. Retry(i, t, t, i.ord) \in RecoveredQueue(t)
      BY <3>1, <2>1, RetryFields DEF RecoveredQueue
    <3>3. QED  BY <3>2, RetryFields DEF Ids
  <2>4. CASE i.expires <= t /\ Exhausted(i)
    <3>1. Park(i, Settled(t)) \in Parked
      BY <2>4, <1>2 DEF ExpiredQueued
    <3>2. QED  BY <3>1, <1>6, ParkFields DEF Ids
  <2>5. QED  BY <2>2, <2>3, <2>4, <1>1, <1>3
<1>8. \A c \in claims :
         c.id \in Ids(RecoveredQueue(t) \union RecoveredClaims(t) \union RecoveredPending(t))
  <2> SUFFICES ASSUME NEW c \in claims
               PROVE  c.id \in Ids(RecoveredQueue(t) \union RecoveredClaims(t)
                                     \union RecoveredPending(t))
    OBVIOUS
  <2>1. CASE c.until > t
    BY <2>1, <1>2 DEF RecoveredClaims, Ids
  <2>2. CASE c.until <= t /\ ~Exhausted(c)
    <3>1. Retry(c, t, t, Settled(t)) \in RecoveredQueue(t)
      BY <2>2, <1>2 DEF RecoveredQueue, ExpiredClaims
    <3>2. QED  BY <3>1, RetryFields DEF Ids
  <2>3. CASE c.until <= t /\ Exhausted(c)
    <3>1. Park(c, Settled(t)) \in Parked
      BY <2>3, <1>2 DEF ExpiredClaims
    <3>2. QED  BY <3>1, <1>6, ParkFields DEF Ids
  <2>4. QED  BY <2>1, <2>2, <2>3, <1>1, <1>4
<1>9. QED  BY <1>6, <1>7, <1>8 DEF Ids, Live

Kept == Finite /\ LostOnlyAtCap

\* An operation that draws the new pending list from S, and loses no scope but
\* by the cap on S, loses none below the cap.
LEMMA CapIsTheOnlyLoss ==
    ASSUME Kept, NEW S, IsFiniteSet(S), pending \subseteq S, pending' \in Newest(S),
           IsFiniteSet(queue'), IsFiniteSet(claims'), acked \subseteq acked',
           made' \subseteq made \union Ids(queue'),
           Ids(Live) \subseteq acked' \union Ids(queue' \union claims' \union S)
    PROVE  Kept'
<1>1. /\ IsFiniteSet(pending')
      /\ pending' = S \/ Cardinality(pending') = MaxPending
      /\ Cardinality(S) >= MaxPending => Cardinality(pending') = MaxPending
  BY NewestKeepsOrFills
<1>2. Cardinality(pending) <= Cardinality(S) /\ Cardinality(S) \in Nat
      /\ Cardinality(pending) \in Nat
  BY FS_Subset, FS_CardinalityType DEF Kept, Finite
<1>3. CASE Cardinality(pending) = MaxPending
  BY <1>1, <1>2, <1>3 DEF Kept, Finite, LostOnlyAtCap
<1>4. CASE made \subseteq acked \union Ids(Live)
  <2>1. CASE pending' = S
    <3>1. made' \subseteq acked' \union Ids(queue' \union claims' \union pending')
      BY <1>4, <2>1 DEF Ids
    <3>2. Live' = queue' \union claims' \union pending'
      BY DEF Live
    <3>3. Ids(Live)' = Ids(queue' \union claims' \union pending')
      BY <3>2 DEF Ids
    <3>4. QED  BY <3>1, <3>3, <1>1 DEF Kept, Finite, LostOnlyAtCap
  <2>2. QED  BY <2>1, <1>1 DEF Kept, Finite, LostOnlyAtCap
<1>5. QED  BY <1>3, <1>4 DEF Kept, LostOnlyAtCap

\* An operation refused after its recovery loses nothing below the cap.
LEMMA OnlyRecoversKeeps ==
    ASSUME IInv, Kept, NEW t \in (now - MaxLockWait)..now, OnlyRecovers(t)
    PROVE  Kept'
<1>1. queue' = RecoveredQueue(t) /\ claims' = RecoveredClaims(t)
      /\ pending' \in Newest(RecoveredPending(t)) /\ acked' = acked /\ made' = made
  BY DEF OnlyRecovers
<1>2. /\ IsFiniteSet(RecoveredQueue(t)) /\ IsFiniteSet(RecoveredClaims(t))
      /\ IsFiniteSet(RecoveredPending(t))
  BY RecoveryFinite DEF Kept
<1>3. QED  BY <1>1, <1>2, RecoveryKeepsScopes, CapIsTheOnlyLoss

\* Neither does any other operation.
LEMMA OperationKeeps ==
    ASSUME IInv, Kept, NEW t \in (now - MaxLockWait)..now, Operation(t)
    PROVE  Kept'
<1>0. /\ IsFiniteSet(RecoveredQueue(t)) /\ IsFiniteSet(RecoveredClaims(t))
      /\ IsFiniteSet(RecoveredPending(t))
  BY RecoveryFinite DEF Kept
<1> DEFINE Recovered == RecoveredQueue(t) \union RecoveredClaims(t) \union RecoveredPending(t)
<1>r. Ids(Live) \subseteq Ids(Recovered) /\ pending \subseteq RecoveredPending(t)
  BY RecoveryKeepsScopes
<1>1. CASE \E id \in ScopeIds, d \in Deliveries \union {NoDelivery} : Enqueue(t, id, d)
  <2>1. PICK id \in ScopeIds, d \in Deliveries \union {NoDelivery} : Enqueue(t, id, d)
    BY <1>1
  <2> DEFINE new == Item(id, d, t, t + TTL, 0, t, Settled(t) + 1)
  <2>2. queue' = RecoveredQueue(t) \union {new} /\ new.id = id
    BY <2>1 DEF Enqueue, Item
  <2> HIDE DEF new
  <2>3. IsFiniteSet(queue')
    BY <2>2, <1>0, FS_AddElement
  <2>4. made' \subseteq made \union Ids(queue')
    BY <2>1, <2>2 DEF Enqueue, Ids
  <2>5. /\ Ids(Live) \subseteq acked' \union Ids(queue' \union claims' \union RecoveredPending(t))
        /\ acked \subseteq acked' /\ IsFiniteSet(claims')
        /\ pending' \in Newest(RecoveredPending(t))
    BY <2>1, <2>2, <1>0, <1>r DEF Enqueue, Ids
  <2>6. QED  BY <2>3, <2>4, <2>5, <1>0, <1>r, CapIsTheOnlyLoss
<1>2. CASE \E d \in Deliveries : EnqueueExisting(t, d)
  BY <1>2, OnlyRecoversKeeps DEF EnqueueExisting
<1>3. CASE \E i \in RecoveredQueue(t) : Claim(t, i)
  <2>1. PICK i \in RecoveredQueue(t) : Claim(t, i)
    BY <1>3
  <2> DEFINE new  == Claimed(i, t + ClaimLease, handed[i.id] + 1)
             rest == {c \in RecoveredClaims(t) : c.id # i.id}
  <2>2. new.id = i.id
    BY DEF Claimed
  <2>3. claims' = rest \union {new} /\ queue' = RecoveredQueue(t) \ {i}
    BY <2>1 DEF Claim
  <2>4. IsFiniteSet(rest)
    BY <1>0, FS_Subset
  <2> HIDE DEF new
  <2>5. IsFiniteSet(claims') /\ IsFiniteSet(queue')
    BY <2>3, <2>4, <1>0, FS_AddElement, FS_RemoveElement
  <2>6. Ids(Recovered) \subseteq Ids(queue' \union claims' \union RecoveredPending(t))
    BY <2>2, <2>3 DEF Ids
  <2>7. acked' = acked /\ made' = made /\ pending' \in Newest(RecoveredPending(t))
    BY <2>1 DEF Claim
  <2>8. QED  BY <2>5, <2>6, <2>7, <1>0, <1>r, CapIsTheOnlyLoss
<1>4. CASE ClaimNothing(t) \/ QueueStatus(t)
  BY <1>4, OnlyRecoversKeeps DEF ClaimNothing, QueueStatus
<1>5. ASSUME NEW id \in ScopeIds, NEW token \in 1..handed[id], Ack(t, id, token)
      PROVE  Kept'
  <2>1. /\ queue' = RecoveredQueue(t) /\ claims' = {c \in RecoveredClaims(t) : c.id # id}
        /\ acked' = acked \union {id} /\ made' = made
        /\ pending' \in Newest(RecoveredPending(t))
    BY <1>5 DEF Ack
  <2>2. IsFiniteSet(claims') /\ IsFiniteSet(queue')
    BY <2>1, <1>0, FS_Subset
  <2>3. Ids(Recovered) \subseteq acked' \union Ids(queue' \union claims' \union RecoveredPending(t))
    BY <2>1 DEF Ids
  <2>4. QED  BY <2>1, <2>2, <2>3, <1>0, <1>r, CapIsTheOnlyLoss
<1>6. ASSUME NEW id \in ScopeIds, NEW token \in 1..handed[id],
             AckRepeated(t, id, token) \/ RequeueRepeated(t, id, token)
      PROVE  Kept'
  BY <1>6, OnlyRecoversKeeps DEF AckRepeated, RequeueRepeated, Repeated
<1>7. ASSUME NEW id \in ScopeIds, NEW token \in 1..handed[id], RequeueRetry(t, id, token)
      PROVE  Kept'
  <2>1. PICK c \in RecoveredClaims(t) :
           /\ c.id = id
           /\ queue' = RecoveredQueue(t)
                \union {Retry(c, t, t + RetryDelay(c.attempts + 1), Settled(t) + 1)}
           /\ claims' = {d \in RecoveredClaims(t) : d.id # id}
           /\ pending' \in Newest(RecoveredPending(t))
           /\ UNCHANGED <<made, acked>>
    BY <1>7 DEF RequeueRetry
  <2> DEFINE new == Retry(c, t, t + RetryDelay(c.attempts + 1), Settled(t) + 1)
  <2>2. new.id = id /\ queue' = RecoveredQueue(t) \union {new}
    BY <2>1, RetryFields
  <2> HIDE DEF new
  <2>3. IsFiniteSet(claims') /\ IsFiniteSet(queue')
    BY <2>1, <2>2, <1>0, FS_Subset, FS_AddElement
  <2>4. Ids(Recovered) \subseteq Ids(queue' \union claims' \union RecoveredPending(t))
    BY <2>1, <2>2 DEF Ids
  <2>5. QED  BY <2>1, <2>3, <2>4, <1>0, <1>r, CapIsTheOnlyLoss
<1>8. ASSUME NEW id \in ScopeIds, NEW token \in 1..handed[id], RequeuePending(t, id, token)
      PROVE  Kept'
  <2>1. PICK c \in RecoveredClaims(t) :
           /\ c.id = id
           /\ queue' = RecoveredQueue(t)
           /\ claims' = {d \in RecoveredClaims(t) : d.id # id}
           /\ pending' \in Newest(AppendPending(RecoveredPending(t), {Park(c, Settled(t) + 1)}))
           /\ UNCHANGED <<made, acked>>
    BY <1>8 DEF RequeuePending
  <2> DEFINE new == Park(c, Settled(t) + 1)
  <2>2. new.id = id
    BY <2>1, ParkFields
  <2>3. \A p \in RecoveredPending(t) : p.id # id
    BY <2>1, RecoveryOneHome DEF OneHome
  <2> HIDE DEF new
  <2> DEFINE S == RecoveredPending(t) \union {new}
  <2>4. AppendPending(RecoveredPending(t), {new}) = S
    BY <2>2, <2>3 DEF AppendPending, Ids
  <2>5. pending' \in Newest(S)
    BY <2>1, <2>4 DEF new
  <2>6. IsFiniteSet(claims') /\ IsFiniteSet(queue') /\ IsFiniteSet(S)
    BY <2>1, <1>0, FS_Subset, FS_AddElement
  <2>7. Ids(Recovered) \subseteq Ids(queue' \union claims' \union S)
    BY <2>1, <2>2 DEF Ids
  <2>8. pending \subseteq S
    BY <1>r
  <2>9. QED  BY <2>1, <2>5, <2>6, <2>7, <2>8, <1>r, CapIsTheOnlyLoss
<1>9. QED
  BY <1>1, <1>2, <1>3, <1>4, <1>5, <1>6, <1>7, <1>8 DEF Operation, Requeue

\* Below the cap of pending_scopes an enqueued scope stays until it is acknowledged.
THEOREM NothingLostBelowCap == Spec => []LostOnlyAtCap
<1>1. Init => Kept
  BY FS_EmptySet DEF Init, Kept, Finite, LostOnlyAtCap
<1>2. IInv /\ Kept /\ [Next]_vars => Kept'
  <2> SUFFICES ASSUME IInv, Kept, [Next]_vars PROVE Kept'
    OBVIOUS
  <2>1. CASE Tick \/ UNCHANGED vars
    BY <2>1 DEF Tick, vars, Kept, Finite, LostOnlyAtCap, Live, Ids
  <2>2. CASE \E t \in (now - MaxLockWait)..now : Operation(t) /\ now' = now
    BY <2>2, OperationKeeps
  <2>3. QED  BY <2>1, <2>2 DEF Next
<1>3. Kept => LostOnlyAtCap
  BY DEF Kept
<1>4. QED  BY <1>1, <1>2, <1>3, Invariance, PTL DEF Spec

\* All that is promised of an enqueued scope, together.
THEOREM StoreKeepsScopes == Spec => []ScopesAreKept
BY ScopesHaveOneHome, DeliveriesAreUnique, NoItemRejected, HandoutsAreBounded,
   NothingLostBelowCap, PTL
   DEF ScopesAreKept

\* All that is promised of a claim, together.
THEOREM StoreFencesClaims == Spec => ClaimsAreFenced
BY LeasesAreExclusive, StaleWorkersRetireNothing, PTL DEF ClaimsAreFenced
-----------------------------------------------------------------------------
(* The store implements the ledger                                          *)

Row(phase, tries, grants) == [phase |-> phase, tries |-> tries, grants |-> grants]

\* The entry of a scope in any three lists, as EntryOf gives it for the stored ones.
EntryIn(Q, C, P, h, m, a, id) ==
    CASE id \in Ids(Q) -> Row("waiting", ItemOf(Q, id).attempts, h[id])
      [] id \in Ids(C) -> Row("held", ItemOf(C, id).attempts, h[id])
      [] id \in Ids(P) -> Row("parked", ItemOf(P, id).attempts, h[id])
      [] id \in a      -> Row("done", 0, h[id])
      [] id \in ScopeIds \ m -> Row("absent", 0, h[id])
      [] OTHER         -> Row("lost", 0, h[id])

\* The entry of a scope in the stored lists.
Stored(id) == EntryIn(queue, claims, pending, handed, made, acked, id)

\* The entry of a scope is that of its one item, or tells that it has none.
LEMMA EntryIs ==
    ASSUME NEW Q, NEW C, NEW P, NEW when, NEW h, NEW m, NEW a,
           GoodStore(Q, C, P, when, h, m, a), NEW id \in ScopeIds
    PROVE  /\ \A i \in Q : i.id = id =>
                EntryIn(Q, C, P, h, m, a, id) = Row("waiting", i.attempts, h[id])
           /\ \A i \in C : i.id = id =>
                EntryIn(Q, C, P, h, m, a, id) = Row("held", i.attempts, h[id])
           /\ \A i \in P : i.id = id =>
                EntryIn(Q, C, P, h, m, a, id) = Row("parked", i.attempts, h[id])
           /\ id \in a => EntryIn(Q, C, P, h, m, a, id) = Row("done", 0, h[id])
           /\ id \notin m => EntryIn(Q, C, P, h, m, a, id) = Row("absent", 0, h[id])
           /\ id \in m \ a /\ (\A i \in Q \union C \union P : i.id # id)
                => EntryIn(Q, C, P, h, m, a, id) = Row("lost", 0, h[id])
<1>1. OneHome(Q, C, P)
  BY DEF GoodStore
<1>2. \A S \in {Q, C, P} : \A i \in S : ItemOf(S, i.id) = i
  BY <1>1 DEF OneHome, ItemOf
<1>3. /\ \A i \in Q : i.id \notin Ids(C) /\ i.id \notin Ids(P)
      /\ \A i \in C : i.id \notin Ids(Q) /\ i.id \notin Ids(P)
      /\ \A i \in P : i.id \notin Ids(Q) /\ i.id \notin Ids(C)
  BY <1>1 DEF OneHome, Ids
<1>4. \A i \in Q \union C \union P : i.id \in m /\ i.id \notin a
  BY DEF GoodStore, ItemsLive
<1>5. a \subseteq m
  BY DEF GoodStore, ListTypes
<1>6. \A S : \A i \in S : i.id \in Ids(S)
  BY DEF Ids
<1>7. \A i \in Q : i.id = id =>
                EntryIn(Q, C, P, h, m, a, id) = Row("waiting", i.attempts, h[id])
  BY <1>2, <1>3, <1>4, <1>5, <1>6 DEF EntryIn
<1>8. \A i \in C : i.id = id =>
                EntryIn(Q, C, P, h, m, a, id) = Row("held", i.attempts, h[id])
  BY <1>2, <1>3, <1>4, <1>5, <1>6 DEF EntryIn
<1>9. \A i \in P : i.id = id =>
                EntryIn(Q, C, P, h, m, a, id) = Row("parked", i.attempts, h[id])
  BY <1>2, <1>3, <1>4, <1>5, <1>6 DEF EntryIn
<1>10. (\A i \in Q \union C \union P : i.id # id)
         <=> id \notin Ids(Q) /\ id \notin Ids(C) /\ id \notin Ids(P)
  BY DEF Ids
<1>11. id \in a \/ id \notin m => \A i \in Q \union C \union P : i.id # id
  BY <1>4
<1>12. QED
  BY <1>5, <1>7, <1>8, <1>9, <1>10, <1>11 DEF EntryIn

\* Every scope has an item, was acknowledged, was never made, or is lost.
LEMMA EntryCases ==
    ASSUME NEW Q, NEW C, NEW P, NEW m, NEW a, NEW id
    PROVE  \/ \E i \in Q : i.id = id
           \/ \E i \in C : i.id = id
           \/ \E i \in P : i.id = id
           \/ id \in a
           \/ id \notin m
           \/ id \in m \ a /\ \A i \in Q \union C \union P : i.id # id
OBVIOUS

\* A scope whose item two stores share has the same entry in both.
LEMMA SameEntry ==
    ASSUME NEW Q, NEW C, NEW P, NEW h, NEW m, NEW a, NEW when,
           GoodStore(Q, C, P, when, h, m, a),
           NEW R, NEW D, NEW S, NEW k, NEW n, NEW b, NEW later,
           GoodStore(R, D, S, later, k, n, b), NEW id \in ScopeIds,
           \A i : i.id = id => /\ i \in Q <=> i \in R
                               /\ i \in C <=> i \in D
                               /\ i \in P <=> i \in S,
           h[id] = k[id], id \in m <=> id \in n, id \in a <=> id \in b
    PROVE  EntryIn(R, D, S, k, n, b, id) = EntryIn(Q, C, P, h, m, a, id)
<1> DEFINE old == EntryIn(Q, C, P, h, m, a, id)
           new == EntryIn(R, D, S, k, n, b, id)
<1>1. CASE \E i \in Q : i.id = id
  <2>1. PICK i \in Q : i.id = id  BY <1>1
  <2>2. old = Row("waiting", i.attempts, h[id])  BY <2>1, EntryIs
  <2>3. i \in R /\ new = Row("waiting", i.attempts, k[id])  BY <2>1, EntryIs
  <2>4. QED  BY <2>2, <2>3
<1>2. CASE \E i \in C : i.id = id
  <2>1. PICK i \in C : i.id = id  BY <1>2
  <2>2. old = Row("held", i.attempts, h[id])  BY <2>1, EntryIs
  <2>3. i \in D /\ new = Row("held", i.attempts, k[id])  BY <2>1, EntryIs
  <2>4. QED  BY <2>2, <2>3
<1>3. CASE \E i \in P : i.id = id
  <2>1. PICK i \in P : i.id = id  BY <1>3
  <2>2. old = Row("parked", i.attempts, h[id])  BY <2>1, EntryIs
  <2>3. i \in S /\ new = Row("parked", i.attempts, k[id])  BY <2>1, EntryIs
  <2>4. QED  BY <2>2, <2>3
<1>4. CASE id \in a \/ id \notin m
  BY <1>4, EntryIs
<1>5. CASE id \in m \ a /\ \A i \in Q \union C \union P : i.id # id
  <2>1. \A i \in R \union D \union S : i.id # id  BY <1>5
  <2>2. QED  BY <1>5, <2>1, EntryIs
<1>6. QED  BY <1>1, <1>2, <1>3, <1>4, <1>5, EntryCases

\* Where recovery puts the items of the lists.
LEMMA RecoveryPlaces ==
    ASSUME IInv, NEW t \in (now - MaxLockWait)..now
    PROVE  /\ \A i \in queue :
                \/ i \in RecoveredQueue(t)
                \/ ~Exhausted(i) /\ Retry(i, t, t, i.ord) \in RecoveredQueue(t)
                \/ Exhausted(i) /\ Park(i, Settled(t)) \in RecoveredPending(t)
           /\ \A c \in claims :
                \/ c \in RecoveredClaims(t)
                \/ ~Exhausted(c) /\ Retry(c, t, t, Settled(t)) \in RecoveredQueue(t)
                \/ Exhausted(c) /\ Park(c, Settled(t)) \in RecoveredPending(t)
           /\ pending \subseteq RecoveredPending(t)
<1>1. OneHome(queue, claims, pending) /\ t \in Int
  BY SampledTime DEF IInv, GoodStore
<1>2. SoundQueue = queue /\ SoundClaims = claims
  BY AllSound
<1>3. (\A i \in queue : i.expires \in Int) /\ (\A c \in claims : c.until \in Int)
  BY DEF IInv, GoodStore, ListTypes, ItemType, ClaimType
<1>4. ASSUME NEW i \in queue
      PROVE  \/ i \in RecoveredQueue(t)
             \/ ~Exhausted(i) /\ Retry(i, t, t, i.ord) \in RecoveredQueue(t)
             \/ Exhausted(i) /\ Park(i, Settled(t)) \in RecoveredPending(t)
  <2>1. \A id : id = i.id => id \notin Ids(SoundClaims)
    BY <1>1, <1>2 DEF OneHome, Ids
  <2>2. Retry(i, t, t, i.ord).id = i.id
    BY RetryFields
  <2>3. CASE i.expires > t
    BY <2>1, <2>3, <1>2 DEF RecoveredQueue, QueueInPlace
  <2>4. CASE ~(i.expires > t) /\ ~Exhausted(i)
    <3>1. Retry(i, t, t, i.ord) \in QueueInPlace(t)
      BY <2>4, <1>1, <1>2, <1>3 DEF QueueInPlace, ExpiredQueued
    <3>2. QED  BY <3>1, <2>1, <2>2, <2>4 DEF RecoveredQueue
  <2>5. CASE ~(i.expires > t) /\ Exhausted(i)
    BY <2>5, <1>1, <1>2, <1>3 DEF RecoveredPending, AppendPending, ExpiredQueued
  <2>6. QED  BY <2>3, <2>4, <2>5
<1>5. ASSUME NEW c \in claims
      PROVE  \/ c \in RecoveredClaims(t)
             \/ ~Exhausted(c) /\ Retry(c, t, t, Settled(t)) \in RecoveredQueue(t)
             \/ Exhausted(c) /\ Park(c, Settled(t)) \in RecoveredPending(t)
  <2>1. CASE c.until > t
    BY <2>1, <1>2 DEF RecoveredClaims
  <2>2. CASE ~(c.until > t) /\ ~Exhausted(c)
    BY <2>2, <1>1, <1>2, <1>3 DEF RecoveredQueue, ExpiredClaims
  <2>3. CASE ~(c.until > t) /\ Exhausted(c)
    BY <2>3, <1>1, <1>2, <1>3 DEF RecoveredPending, AppendPending, ExpiredClaims
  <2>4. QED  BY <2>1, <2>2, <2>3
<1>6. QED  BY <1>4, <1>5, RecoveryKeepsScopes

\* The recovered lists with any part of the recovered pending list are a good store.
LEMMA RecoveredGood ==
    ASSUME IInv, NEW t \in (now - MaxLockWait)..now, NEW P \in SUBSET RecoveredPending(t)
    PROVE  GoodStore(RecoveredQueue(t), RecoveredClaims(t), P, now, handed, made, acked)
<1>1. GoodStore(RecoveredQueue(t), RecoveredClaims(t), RecoveredPending(t), now,
                handed, made, acked)
  BY RecoveryTypes, RecoveryOneHome, RecoveryLive, RecoveryBudgets, RecoveryOneDelivery
     DEF GoodStore
<1>2. QED  BY <1>1, FewerPending

\* The entry of a scope in the recovered lists, with P for the pending one.
Recovered(t, P, id) == EntryIn(RecoveredQueue(t), RecoveredClaims(t), P, handed, made, acked, id)

\* Recovery settles every scope: its entry stays, or it has spent a try, or is lost.
LEMMA RecoverySettles ==
    ASSUME IInv, NEW t \in (now - MaxLockWait)..now, NEW P \in SUBSET RecoveredPending(t),
           NEW id \in ScopeIds
    PROVE  Recovered(t, P, id) \in Ledger!Settled(Stored(id))
<1> DEFINE Q == RecoveredQueue(t)
           C == RecoveredClaims(t)
           old == Stored(id)
           new == EntryIn(Q, C, P, handed, made, acked, id)
<1>1. GoodStore(queue, claims, pending, now, handed, made, acked)
  BY DEF IInv
<1>2. GoodStore(Q, C, P, now, handed, made, acked)
  BY RecoveredGood
<1>3. OneHome(Q, C, RecoveredPending(t))
  BY RecoveryOneHome
<1>4. id \in made /\ id \notin acked /\ (\A i \in Q \union C \union P : i.id # id)
        => new = Row("lost", 0, handed[id])
  BY <1>2, EntryIs
<1>5. ASSUME NEW p \in RecoveredPending(t), p.id = id, id \in made, id \notin acked
      PROVE  new \in {Row("parked", p.attempts, handed[id]), Row("lost", 0, handed[id])}
  <2>1. CASE p \in P
    BY <2>1, <1>5, <1>2, EntryIs
  <2>2. CASE p \notin P
    <3>1. \A i \in Q \union C \union P : i.id # id
      BY <2>2, <1>3, <1>5 DEF OneHome
    <3>2. QED  BY <3>1, <1>4, <1>5
  <2>3. QED  BY <2>1, <2>2
<1>6. \A i \in queue \union claims \union pending : i.id \in made /\ i.id \notin acked
  BY <1>1 DEF GoodStore, ItemsLive
<1>7. ASSUME NEW i, i \in queue \union claims, i.id = id, Exhausted(i), NEW ord,
             Park(i, ord) \in RecoveredPending(t)
      PROVE  new \in {Row("parked", i.attempts + 1, handed[id]), Row("lost", 0, handed[id])}
  BY <1>5, <1>6, <1>7, ParkFields
<1>8. CASE \E i \in queue : i.id = id
  <2>1. PICK i \in queue : i.id = id
    BY <1>8
  <2>2. old = Row("waiting", i.attempts, handed[id])
    BY <2>1, <1>1, EntryIs DEF Stored
  <2>n. i.attempts \in Nat /\ MaxAttempts \in Nat
    BY <2>1, <1>1, StoreAssumption DEF GoodStore, ListTypes, ItemType, ClaimType
  <2>3. CASE i \in Q
    BY <2>1, <2>2, <2>3, <1>2, EntryIs DEF Ledger!Settled, Recovered
  <2>4. CASE ~Exhausted(i) /\ Retry(i, t, t, i.ord) \in Q
    <3>1. new = Row("waiting", i.attempts + 1, handed[id])
      BY <2>1, <2>4, <1>2, EntryIs, RetryFields
    <3>2. QED  BY <2>2, <2>4, <2>n, <3>1
               DEF Ledger!Settled, Ledger!GivenBack, Ledger!Entry, Row, Exhausted, Recovered
  <2>5. CASE Exhausted(i) /\ Park(i, Settled(t)) \in RecoveredPending(t)
    <3>1. new \in {Row("parked", i.attempts + 1, handed[id]), Row("lost", 0, handed[id])}
      BY <2>1, <2>5, <1>7
    <3>2. QED  BY <2>2, <2>5, <2>n, <3>1
               DEF Ledger!Settled, Ledger!GivenBack, Ledger!Entry, Row, Exhausted, Recovered
  <2>6. QED  BY <2>3, <2>4, <2>5, RecoveryPlaces
<1>9. CASE \E c \in claims : c.id = id
  <2>1. PICK c \in claims : c.id = id
    BY <1>9
  <2>2. old = Row("held", c.attempts, handed[id])
    BY <2>1, <1>1, EntryIs DEF Stored
  <2>n. c.attempts \in Nat /\ MaxAttempts \in Nat
    BY <2>1, <1>1, StoreAssumption DEF GoodStore, ListTypes, ItemType, ClaimType
  <2>3. CASE c \in C
    BY <2>1, <2>2, <2>3, <1>2, EntryIs DEF Ledger!Settled, Recovered
  <2>4. CASE ~Exhausted(c) /\ Retry(c, t, t, Settled(t)) \in Q
    <3>1. new = Row("waiting", c.attempts + 1, handed[id])
      BY <2>1, <2>4, <1>2, EntryIs, RetryFields
    <3>2. QED  BY <2>2, <2>4, <2>n, <3>1
               DEF Ledger!Settled, Ledger!GivenBack, Ledger!Entry, Row, Exhausted, Recovered
  <2>5. CASE Exhausted(c) /\ Park(c, Settled(t)) \in RecoveredPending(t)
    <3>1. new \in {Row("parked", c.attempts + 1, handed[id]), Row("lost", 0, handed[id])}
      BY <2>1, <2>5, <1>7
    <3>2. QED  BY <2>2, <2>5, <2>n, <3>1
               DEF Ledger!Settled, Ledger!GivenBack, Ledger!Entry, Row, Exhausted, Recovered
  <2>6. QED  BY <2>3, <2>4, <2>5, RecoveryPlaces
<1>10. CASE \E p \in pending : p.id = id
  <2>1. PICK p \in pending : p.id = id
    BY <1>10
  <2>2. old = Row("parked", p.attempts, handed[id])
    BY <2>1, <1>1, EntryIs DEF Stored
  <2>3. new \in {Row("parked", p.attempts, handed[id]), Row("lost", 0, handed[id])}
    BY <2>1, <1>5, <1>6, RecoveryPlaces
  <2>4. QED  BY <2>2, <2>3 DEF Ledger!Settled, Ledger!Entry, Row, Recovered
<1>11. CASE \A i \in queue \union claims \union pending : i.id # id
  <2>1. \A i \in Q \union C \union P : i.id # id
    BY <1>11, RecoveryAncestor, RecoveryOrigin
  <2>2. new = old
    BY <2>1, <1>11, <1>1, <1>2, SameEntry DEF Stored
  <2>3. QED  BY <2>2 DEF Ledger!Settled, Recovered
<1>12. QED  BY <1>8, <1>9, <1>10, <1>11

\* The entry of a scope after a step.
Later(id) == EntryIn(queue', claims', pending', handed', made', acked', id)

\* The ledger of the store is EntryIn of its lists, before and after a step.
LEMMA LedgerIs ==
    ASSUME NEW id \in ScopeIds
    PROVE  EntryOf(id) = Stored(id) /\ EntryOf(id)' = Later(id)
BY DEF EntryOf, Stored, Later, EntryIn, Row

\* Recovery, then at most one scope that moves on, make a step of the ledger.
LEMMA StepIs ==
    ASSUME IInv, NEW t \in (now - MaxLockWait)..now, NEW P \in SUBSET RecoveredPending(t),
           NEW id \in ScopeIds,
           \A other \in ScopeIds \ {id} : Later(other) = Recovered(t, P, other),
           Later(id) \in {Recovered(t, P, id)}
                           \union Ledger!Enqueued(Recovered(t, P, id))
                           \union Ledger!Granted(Recovered(t, P, id))
                           \union Ledger!Retired(Recovered(t, P, id))
                           \union Ledger!Returned(Recovered(t, P, id))
    PROVE  Ledger!Step(id)
<1>1. \A s \in ScopeIds : EntryOf(s) = Stored(s) /\ EntryOf(s)' = Later(s)
  BY LedgerIs
<1>2. \A s \in ScopeIds : Recovered(t, P, s) \in Ledger!Settled(Stored(s))
  BY RecoverySettles
<1>3. QED  BY <1>1, <1>2 DEF Ledger!Step

\* A scope an operation does not touch is where recovery left it.
LEMMA OthersSettle ==
    ASSUME IInv, IInv', NEW t \in (now - MaxLockWait)..now, NEW P \in SUBSET RecoveredPending(t),
           NEW id \in ScopeIds,
           \A i : i.id = id => /\ i \in queue' <=> i \in RecoveredQueue(t)
                               /\ i \in claims' <=> i \in RecoveredClaims(t)
                               /\ i \in pending' <=> i \in P,
           handed'[id] = handed[id], id \in made' <=> id \in made, id \in acked' <=> id \in acked
    PROVE  Later(id) = Recovered(t, P, id)
<1>1. GoodStore(RecoveredQueue(t), RecoveredClaims(t), P, now, handed, made, acked)
  BY RecoveredGood
<1>2. GoodStore(queue', claims', pending', now', handed', made', acked')
  BY DEF IInv
<1>3. QED  BY <1>1, <1>2, SameEntry DEF Later, Recovered

\* An operation that only recovers settles the ledger.
LEMMA OnlyRecoversSteps ==
    ASSUME IInv, IInv', NEW t \in (now - MaxLockWait)..now, OnlyRecovers(t), NEW id \in ScopeIds
    PROVE  Ledger!Step(id)
<1>1. pending' \in SUBSET RecoveredPending(t)
  BY DEF OnlyRecovers, Newest
<1>2. \A s \in ScopeIds : Later(s) = Recovered(t, pending', s)
  BY <1>1, OthersSettle DEF OnlyRecovers
<1>3. QED  BY <1>1, <1>2, StepIs

\* A new scope begins to wait.
LEMMA EnqueueSteps ==
    ASSUME IInv, IInv', NEW t \in (now - MaxLockWait)..now, NEW id \in ScopeIds,
           NEW d \in Deliveries \union {NoDelivery}, Enqueue(t, id, d)
    PROVE  Ledger!Step(id)
<1> DEFINE new == Item(id, d, t, t + TTL, 0, t, Settled(t) + 1)
<1>1. pending' \in SUBSET RecoveredPending(t)
  BY DEF Enqueue, Newest
<1>2. new.id = id /\ new.attempts = 0
  BY DEF Item
<1>3. \A other \in ScopeIds \ {id} : Later(other) = Recovered(t, pending', other)
  BY <1>1, <1>2, OthersSettle DEF Enqueue
<1>4. GoodStore(queue', claims', pending', now', handed', made', acked') /\ new \in queue'
  BY DEF IInv, Enqueue
<1>5. Later(id) = Row("waiting", 0, handed[id])
  BY <1>2, <1>4, EntryIs DEF Later, Enqueue
<1>6. GoodStore(RecoveredQueue(t), RecoveredClaims(t), pending', now, handed, made, acked)
  BY <1>1, RecoveredGood
<1>7. Recovered(t, pending', id) = Row("absent", 0, handed[id])
  BY <1>6, EntryIs DEF Recovered, Enqueue
<1>8. Later(id) \in Ledger!Enqueued(Recovered(t, pending', id))
  BY <1>5, <1>7 DEF Ledger!Enqueued, Ledger!Entry, Row
<1>9. QED  BY <1>1, <1>3, <1>8, StepIs

\* A waiting scope is granted.
LEMMA ClaimSteps ==
    ASSUME IInv, IInv', NEW t \in (now - MaxLockWait)..now, NEW i \in RecoveredQueue(t), Claim(t, i)
    PROVE  i.id \in ScopeIds /\ Ledger!Step(i.id)
<1> DEFINE new == Claimed(i, t + ClaimLease, handed[i.id] + 1)
<1>1. pending' \in SUBSET RecoveredPending(t)
  BY DEF Claim, Newest
<1>2. GoodStore(RecoveredQueue(t), RecoveredClaims(t), pending', now, handed, made, acked)
  BY <1>1, RecoveredGood
<1>3. /\ i.id \in ScopeIds /\ handed \in [ScopeIds -> Nat]
      /\ OneHome(RecoveredQueue(t), RecoveredClaims(t), pending')
  BY <1>2 DEF GoodStore, ListTypes, ItemType
<1>4. new.id = i.id /\ new.attempts = i.attempts
  BY DEF Claimed
<1>5. \A other \in ScopeIds \ {i.id} : Later(other) = Recovered(t, pending', other)
  BY <1>1, <1>3, <1>4, OthersSettle DEF Claim
<1>6. GoodStore(queue', claims', pending', now', handed', made', acked') /\ new \in claims'
  BY DEF IInv, Claim
<1>7. handed'[i.id] = handed[i.id] + 1
  BY <1>3 DEF Claim
<1>8. Later(i.id) = Row("held", i.attempts, handed[i.id] + 1)
  BY <1>3, <1>4, <1>6, <1>7, EntryIs DEF Later
<1>9. Recovered(t, pending', i.id) = Row("waiting", i.attempts, handed[i.id])
  BY <1>2, <1>3, EntryIs DEF Recovered
<1>10. Later(i.id) \in Ledger!Granted(Recovered(t, pending', i.id))
  BY <1>8, <1>9 DEF Ledger!Granted, Ledger!Entry, Row
<1>11. QED  BY <1>1, <1>3, <1>5, <1>10, StepIs

\* A held scope is done.
LEMMA AckSteps ==
    ASSUME IInv, IInv', NEW t \in (now - MaxLockWait)..now, NEW id \in ScopeIds, NEW token,
           Ack(t, id, token)
    PROVE  Ledger!Step(id)
<1>1. pending' \in SUBSET RecoveredPending(t)
  BY DEF Ack, Newest
<1>2. PICK c \in RecoveredClaims(t) : c.id = id
  BY DEF Ack, HasClaim
<1>3. GoodStore(RecoveredQueue(t), RecoveredClaims(t), pending', now, handed, made, acked)
  BY <1>1, RecoveredGood
<1>4. \A other \in ScopeIds \ {id} : Later(other) = Recovered(t, pending', other)
  BY <1>1, OthersSettle DEF Ack
<1>5. GoodStore(queue', claims', pending', now', handed', made', acked') /\ id \in acked'
  BY DEF IInv, Ack
<1>6. Later(id) = Row("done", 0, handed[id])
  BY <1>5, EntryIs DEF Later, Ack
<1>7. Recovered(t, pending', id) = Row("held", c.attempts, handed[id])
  BY <1>2, <1>3, EntryIs DEF Recovered
<1>8. Later(id) \in Ledger!Retired(Recovered(t, pending', id))
  BY <1>6, <1>7 DEF Ledger!Retired, Ledger!Entry, Row
<1>9. QED  BY <1>1, <1>4, <1>8, StepIs

\* A held scope waits once more.
LEMMA RetrySteps ==
    ASSUME IInv, IInv', NEW t \in (now - MaxLockWait)..now, NEW id \in ScopeIds, NEW token,
           RequeueRetry(t, id, token)
    PROVE  Ledger!Step(id)
<1>1. PICK c \in RecoveredClaims(t) :
         /\ c.id = id /\ ~Exhausted(c)
         /\ queue' = RecoveredQueue(t)
              \union {Retry(c, t, t + RetryDelay(c.attempts + 1), Settled(t) + 1)}
         /\ claims' = {d \in RecoveredClaims(t) : d.id # id}
         /\ pending' \in Newest(RecoveredPending(t))
         /\ UNCHANGED <<handed, made, acked>>
  BY DEF RequeueRetry
<1> DEFINE new == Retry(c, t, t + RetryDelay(c.attempts + 1), Settled(t) + 1)
<1>2. pending' \in SUBSET RecoveredPending(t)
  BY <1>1 DEF Newest
<1>3. GoodStore(RecoveredQueue(t), RecoveredClaims(t), pending', now, handed, made, acked)
  BY <1>2, RecoveredGood
<1>4. new.id = id /\ new.attempts = c.attempts + 1
  BY <1>1, RetryFields
<1>5. \A other \in ScopeIds \ {id} : Later(other) = Recovered(t, pending', other)
  BY <1>1, <1>2, <1>4, OthersSettle
<1>6. GoodStore(queue', claims', pending', now', handed', made', acked') /\ new \in queue'
  BY <1>1 DEF IInv
<1>7. Later(id) = Row("waiting", c.attempts + 1, handed[id])
  BY <1>1, <1>4, <1>6, EntryIs DEF Later
<1>8. Recovered(t, pending', id) = Row("held", c.attempts, handed[id])
  BY <1>1, <1>3, EntryIs DEF Recovered
<1>9. c.attempts \in Nat /\ MaxAttempts \in Nat
  BY <1>3, StoreAssumption DEF GoodStore, ListTypes, ClaimType
<1>10. Later(id) \in Ledger!Returned(Recovered(t, pending', id))
  BY <1>1, <1>7, <1>8, <1>9 DEF Ledger!Returned, Ledger!GivenBack, Ledger!Entry, Row, Exhausted
<1>11. QED  BY <1>2, <1>5, <1>10, StepIs

\* A held scope is parked, or lost from a full parking lot at once.
LEMMA ParkSteps ==
    ASSUME IInv, IInv', NEW t \in (now - MaxLockWait)..now, NEW id \in ScopeIds, NEW token,
           RequeuePending(t, id, token)
    PROVE  Ledger!Step(id)
<1>1. PICK c \in RecoveredClaims(t) :
         /\ c.id = id /\ Exhausted(c)
         /\ queue' = RecoveredQueue(t)
         /\ claims' = {d \in RecoveredClaims(t) : d.id # id}
         /\ pending' \in Newest(AppendPending(RecoveredPending(t), {Park(c, Settled(t) + 1)}))
         /\ UNCHANGED <<handed, made, acked>>
  BY DEF RequeuePending
<1> DEFINE new == Park(c, Settled(t) + 1)
           P == {p \in pending' : p.id # id}
<1>2. new.id = id /\ new.attempts = c.attempts + 1
  BY <1>1, ParkFields
<1>3. P \in SUBSET RecoveredPending(t) /\ pending' \subseteq RecoveredPending(t) \union {new}
  BY <1>1, <1>2 DEF Newest, AppendPending
<1>4. GoodStore(RecoveredQueue(t), RecoveredClaims(t), P, now, handed, made, acked)
  BY <1>3, RecoveredGood
<1>5. \A other \in ScopeIds \ {id} : Later(other) = Recovered(t, P, other)
  BY <1>1, <1>3, OthersSettle
<1>6. GoodStore(queue', claims', pending', now', handed', made', acked')
  BY DEF IInv
<1>7. Recovered(t, P, id) = Row("held", c.attempts, handed[id])
  BY <1>1, <1>4, EntryIs DEF Recovered
<1>8. Later(id) \in {Row("parked", c.attempts + 1, handed[id]), Row("lost", 0, handed[id])}
  <2>1. CASE \E p \in pending' : p.id = id
    <3>1. new \in pending'
      <4>1. \A p \in pending' : p.id = id => p = new
        BY <1>1, <1>2 DEF Newest, AppendPending, Ids
      <4>2. QED  BY <2>1, <4>1
    <3>2. QED  BY <3>1, <1>1, <1>2, <1>6, EntryIs DEF Later
  <2>2. CASE \A p \in pending' : p.id # id
    <3>1. \A i \in RecoveredQueue(t) : i.id # id
      BY <1>1, <1>4 DEF GoodStore, OneHome
    <3>2. id \in made /\ id \notin acked
      BY <1>1, <1>4 DEF GoodStore, ItemsLive
    <3>3. QED  BY <2>2, <3>1, <3>2, <1>1, <1>6, EntryIs DEF Later
  <2>3. QED  BY <2>1, <2>2
<1>9. c.attempts \in Nat /\ MaxAttempts \in Nat
  BY <1>4, StoreAssumption DEF GoodStore, ListTypes, ClaimType
<1>10. Later(id) \in Ledger!Returned(Recovered(t, P, id))
  BY <1>1, <1>7, <1>8, <1>9 DEF Ledger!Returned, Ledger!GivenBack, Ledger!Entry, Row, Exhausted
<1>11. QED  BY <1>3, <1>5, <1>10, StepIs

\* The ledger that the store implements.
LedgerOf == [id \in ScopeIds |-> EntryOf(id)]

\* Every operation is a step of the ledger, whatever scope it is about.
LEMMA OperationSteps ==
    ASSUME IInv, IInv', NEW t \in (now - MaxLockWait)..now, Operation(t), ScopeIds # {}
    PROVE  Ledger!Next
<1>0. ASSUME NEW id \in ScopeIds, Ledger!Step(id) PROVE Ledger!Next
  BY <1>0 DEF Ledger!Next
<1>1. CASE \E id \in ScopeIds, d \in Deliveries \union {NoDelivery} : Enqueue(t, id, d)
  BY <1>1, <1>0, EnqueueSteps
<1>2. CASE \E i \in RecoveredQueue(t) : Claim(t, i)
  BY <1>2, <1>0, ClaimSteps
<1>3. ASSUME NEW id \in ScopeIds, NEW token \in 1..handed[id], Ack(t, id, token)
      PROVE  Ledger!Next
  BY <1>3, <1>0, AckSteps
<1>4. ASSUME NEW id \in ScopeIds, NEW token \in 1..handed[id], RequeueRetry(t, id, token)
      PROVE  Ledger!Next
  BY <1>4, <1>0, RetrySteps
<1>5. ASSUME NEW id \in ScopeIds, NEW token \in 1..handed[id], RequeuePending(t, id, token)
      PROVE  Ledger!Next
  BY <1>5, <1>0, ParkSteps
<1>6. CASE OnlyRecovers(t)
  BY <1>6, <1>0, OnlyRecoversSteps
<1>7. QED
  BY <1>1, <1>2, <1>3, <1>4, <1>5, <1>6
     DEF Operation, EnqueueExisting, ClaimNothing, QueueStatus, AckRepeated, RequeueRepeated,
         Repeated, Requeue

\* Every step of the store is a step of the ledger, or leaves it as it is.
LEMMA StepsImplement == IInv /\ IInv' /\ [Next]_vars => [Ledger!Next]_LedgerOf
<1> SUFFICES ASSUME IInv, IInv', [Next]_vars PROVE Ledger!Next \/ UNCHANGED LedgerOf
  OBVIOUS
<1>1. \A id \in ScopeIds : EntryOf(id) = Stored(id) /\ EntryOf(id)' = Later(id)
  BY LedgerIs
<1>2. CASE Tick \/ UNCHANGED vars
  BY <1>1, <1>2 DEF Tick, vars, LedgerOf, Later, Stored
<1>3. CASE \E t \in (now - MaxLockWait)..now : Operation(t) /\ now' = now
  <2>1. CASE ScopeIds = {}
    BY <2>1 DEF LedgerOf
  <2>2. QED  BY <1>3, <2>1, OperationSteps
<1>4. QED  BY <1>2, <1>3 DEF Next

\* The empty store is the empty ledger.
LEMMA InitImplements == Init => Ledger!Init
<1> SUFFICES ASSUME Init, NEW id \in ScopeIds PROVE EntryOf(id) = Row("absent", 0, 0)
  BY DEF Ledger!Init, Ledger!Entry, Row
<1>1. GoodStore(queue, claims, pending, now, handed, made, acked)
  BY InitGood DEF IInv
<1>2. Stored(id) = Row("absent", 0, handed[id])
  BY <1>1, EntryIs DEF Stored, Init
<1>3. QED  BY <1>2, LedgerIs DEF Init

\* The store implements the ledger: a scope waits, is granted, retired by its holder, given
\* back one try dearer or parked, and nothing else ever happens to it.
THEOREM StoreImplementsLedger == Spec => ImplementsLedger
<1>1. Init => Ledger!Init
  BY InitImplements
<1>2. IInv /\ IInv' /\ [Next]_vars => [Ledger!Next]_LedgerOf
  BY StepsImplement
<1>3. QED  BY <1>1, <1>2, Invariance, PTL DEF Spec, ImplementsLedger, Ledger!Spec, LedgerOf
=============================================================================
