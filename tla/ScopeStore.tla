----------------------------- MODULE ScopeStore -----------------------------
(***************************************************************************)
(* The durable wake-scope store of the GitHub router                       *)
(* (automation/n8n/github-router/router.py): the three lists of the state  *)
(* file, scope_queue, scope_claims and pending_scopes, and the record      *)
(* last_scope_transition.  Every operation loads the file under            *)
(* _STATE_LOCK, first recovers what has expired, then does its own work    *)
(* and replaces the file in one rename, so it is one action here; a crash  *)
(* leaves the file as it was before or after the operation.                *)
(*                                                                         *)
(* A JSON list is a set of records that carry their place in "ord"; scopes *)
(* moved to the end of a list by the same recovery pass share a place, so  *)
(* the order among those is left open.  The token of a claim is a fresh    *)
(* uuid in the code and the ordinal of the claim of its scope here: tokens *)
(* are only ever compared for the same scope.  The repositories and the    *)
(* mode of a scope are carried along unchanged by the code and left out.   *)
(***************************************************************************)
EXTENDS Integers, FiniteSets, Sequences

CONSTANTS
    ScopeIds,     \* the uuids a scope may get
    Deliveries,   \* delivery identities, webhook and synthetic ones
    NoDelivery,   \* "the scope has no delivery"
    TTL,          \* SCOPE_TTL_SECONDS
    ClaimLease,   \* SCOPE_CLAIM_LEASE_SECONDS
    MaxAttempts,  \* SCOPE_MAX_ATTEMPTS
    MaxPending,   \* SCOPE_MAX_PENDING
    Backoff,      \* SCOPE_RETRY_BACKOFF_SECONDS
    MaxLockWait,  \* how old a time.time() taken before the lock may be
    MaxTime       \* bound of the model: the clock stops here

\* What the configuration must satisfy for the store to keep what it is given.
\* The code checks none of it: the shipped values (300, 1200, 3, 4096, <<1, 5>>)
\* satisfy it, an environment with a TTL below the longest backoff does not.
ASSUME StoreAssumption ==
    /\ TTL \in Nat \ {0} /\ ClaimLease \in Nat \ {0}
    /\ MaxAttempts \in Nat \ {0} /\ MaxPending \in Nat \ {0}
    /\ MaxLockWait \in Nat /\ MaxLockWait < TTL
    /\ MaxTime \in Nat
    /\ Backoff \in Seq(Nat) /\ Len(Backoff) > 0
    /\ \A n \in 1..Len(Backoff) : Backoff[n] <= TTL
    /\ NoDelivery \notin Deliveries

VARIABLES
    now,      \* the wall clock, in seconds
    queue,    \* scope_queue
    claims,   \* scope_claims
    pending,  \* pending_scopes
    last,     \* last_scope_transition
    stamp,    \* the latest place given in a list
    handed,   \* how many claims of each scope were handed out (tokens issued)
    made,     \* history: the scopes ever enqueued
    acked     \* history: the scopes whose claim was acknowledged

vars == <<now, queue, claims, pending, last, stamp, handed, made, acked>>

NoTransition == [id |-> "none", status |-> "none", token |-> 0]

Ids(S) == {i.id : i \in S}

-----------------------------------------------------------------------------
(* The items of the lists                                                   *)

Item(id, d, created, expires, attempts, notBefore, ord) ==
    [id |-> id, delivery |-> d, created |-> created, expires |-> expires,
     attempts |-> attempts, notBefore |-> notBefore, ord |-> ord]

\* Wrong on purpose, like the other definitions named Wrong...: each is the plausible
\* bug that the mutation run of one property puts in place of the definition below it.
WrongSound(i) ==
    /\ i.created < i.expires
    /\ i.attempts < MaxAttempts
    /\ i.notBefore <= i.expires

\* _normalise_scope_item: an item that fails this disappears at the next load.
Sound(i) ==
    /\ i.created < i.expires
    /\ i.attempts <= MaxAttempts
    /\ i.notBefore <= i.expires

\* The failed or expired item, one attempt later, at place "ord" of the queue.
Retry(i, t, notBefore, ord) ==
    Item(i.id, i.delivery, i.created, t + TTL, i.attempts + 1, notBefore, ord)

\* The same item when it goes to pending_scopes instead: its times stay.
Park(i, ord) ==
    Item(i.id, i.delivery, i.created, i.expires, i.attempts + 1, i.notBefore, ord)

WrongExhausted(i) == i.attempts >= MaxAttempts

Exhausted(i) == i.attempts + 1 >= MaxAttempts

RetryDelay(n) == Backoff[IF n < Len(Backoff) THEN n ELSE Len(Backoff)]

Claimed(i, until, token) ==
    [id |-> i.id, delivery |-> i.delivery, created |-> i.created,
     expires |-> i.expires, attempts |-> i.attempts, notBefore |-> i.notBefore,
     ord |-> i.ord, until |-> until, token |-> token]

\* What pending[-SCOPE_MAX_PENDING:] may leave of the pending entries S.
Newest(S) ==
    {keep \in SUBSET S :
        /\ Cardinality(keep) =
             (IF Cardinality(S) < MaxPending THEN Cardinality(S) ELSE MaxPending)
        /\ \A p \in S \ keep, q \in keep : p.ord <= q.ord}

\* _append_pending_scope: an older entry of the same scope gives way.
AppendPending(P, New) == {p \in P : p.id \notin Ids(New)} \union New

-----------------------------------------------------------------------------
(* _recover_scope_claims_unlocked, which every operation runs first.  "t"   *)
(* is the time the operation took before it waited for the lock.            *)

SoundQueue  == {i \in queue : Sound(i)}
SoundClaims == {c \in claims : Sound(c)}

ExpiredQueued(t) == {i \in SoundQueue : i.expires <= t}
WrongExpiredClaims(t) == {c \in SoundClaims : c.until <= t + 1}
ExpiredClaims(t) == {c \in SoundClaims : c.until <= t}

\* The place that scopes moved by this recovery pass get, or the latest place.
Settled(t) ==
    IF ExpiredQueued(t) = {} /\ ExpiredClaims(t) = {} THEN stamp ELSE stamp + 1

\* _recover_queued_scopes_unlocked: an expired item is retried where it stands.
QueueInPlace(t) ==
    {i \in SoundQueue : i.expires > t}
      \union {Retry(i, t, t, i.ord) : i \in {j \in ExpiredQueued(t) : ~Exhausted(j)}}

RecoveredQueue(t) ==
    {i \in QueueInPlace(t) : i.id \notin Ids(SoundClaims)}
      \union {Retry(c, t, t, Settled(t)) : c \in {d \in ExpiredClaims(t) : ~Exhausted(d)}}

RecoveredClaims(t) == {c \in SoundClaims : c.until > t}

RecoveredPending(t) ==
    AppendPending({p \in pending : Sound(p)},
        {Park(i, Settled(t)) : i \in {j \in ExpiredQueued(t) \union ExpiredClaims(t) : Exhausted(j)}})

\* The state an operation writes back when recovery is all it changes.
OnlyRecovers(t) ==
    /\ queue' = RecoveredQueue(t)
    /\ claims' = RecoveredClaims(t)
    /\ pending' \in Newest(RecoveredPending(t))
    /\ stamp' = Settled(t)
    /\ UNCHANGED <<last, handed, made, acked>>

-----------------------------------------------------------------------------
(* The operations                                                           *)

\* The recovered lists, "kept" the pending one, still hold work of delivery d.
Known(d, t, kept) ==
    \E i \in RecoveredQueue(t) \union RecoveredClaims(t) \union kept : i.delivery = d

\* _enqueue_scope, the scope is new.
Enqueue(t, id, d) ==
    /\ id \in ScopeIds \ made
    /\ queue' = RecoveredQueue(t) \union {Item(id, d, t, t + TTL, 0, t, Settled(t) + 1)}
    /\ claims' = RecoveredClaims(t)
    /\ pending' \in Newest(RecoveredPending(t))
    /\ d # NoDelivery => ~Known(d, t, pending')
    /\ stamp' = Settled(t) + 1
    /\ made' = made \union {id}
    /\ UNCHANGED <<last, handed, acked>>

\* _enqueue_scope, the delivery is known: the existing scope is the answer.
EnqueueExisting(t, d) ==
    /\ OnlyRecovers(t)
    /\ d # NoDelivery
    /\ Known(d, t, pending')

\* _claim_scope: the first eligible item of the queue becomes a claim.
Claim(t, i) ==
    /\ i \in RecoveredQueue(t)
    /\ i.notBefore <= t
    /\ \A j \in RecoveredQueue(t) : j.notBefore <= t => i.ord <= j.ord
    /\ queue' = RecoveredQueue(t) \ {i}
    /\ claims' = {c \in RecoveredClaims(t) : c.id # i.id}
                   \union {Claimed(i, t + ClaimLease, handed[i.id] + 1)}
    /\ handed' = [handed EXCEPT ![i.id] = @ + 1]
    /\ pending' \in Newest(RecoveredPending(t))
    /\ stamp' = Settled(t)
    /\ UNCHANGED <<last, made, acked>>

\* _claim_scope when nothing is eligible, _queue_status.
ClaimNothing(t) ==
    /\ \A j \in RecoveredQueue(t) : j.notBefore > t
    /\ OnlyRecovers(t)

QueueStatus(t) == OnlyRecovers(t)

\* The claim that authenticates a worker's ack or requeue.
HasClaim(t, id, token) ==
    \E c \in RecoveredClaims(t) : c.id = id /\ c.token = token

\* _ack_scope, accepted.
Ack(t, id, token) ==
    /\ HasClaim(t, id, token)
    /\ queue' = RecoveredQueue(t)
    /\ claims' = {c \in RecoveredClaims(t) : c.id # id}
    /\ pending' \in Newest(RecoveredPending(t))
    /\ last' = [id |-> id, status |-> "acknowledged", token |-> token]
    /\ stamp' = Settled(t)
    /\ acked' = acked \union {id}
    /\ UNCHANGED <<handed, made>>

\* _ack_scope and _requeue_scope repeated after the answer was lost: the claim
\* is gone and last_scope_transition remembers this very claim.
Repeated(t, id, token, statuses) ==
    /\ id \notin Ids(RecoveredClaims(t))
    /\ last.id = id /\ last.token = token /\ last.status \in statuses
    /\ OnlyRecovers(t)

AckRepeated(t, id, token) == Repeated(t, id, token, {"acknowledged", "requeued", "pending"})
RequeueRepeated(t, id, token) == Repeated(t, id, token, {"requeued", "pending"})

\* _requeue_scope, accepted, below the attempt limit.
RequeueRetry(t, id, token) ==
    \E c \in RecoveredClaims(t) :
        /\ c.id = id /\ c.token = token
        /\ ~Exhausted(c)
        /\ queue' = RecoveredQueue(t)
             \union {Retry(c, t, t + RetryDelay(c.attempts + 1), Settled(t) + 1)}
        /\ claims' = {d \in RecoveredClaims(t) : d.id # id}
        /\ pending' \in Newest(RecoveredPending(t))
        /\ last' = [id |-> id, status |-> "requeued", token |-> token]
        /\ stamp' = Settled(t) + 1
        /\ UNCHANGED <<handed, made, acked>>

\* _requeue_scope, accepted, at the attempt limit.
RequeuePending(t, id, token) ==
    \E c \in RecoveredClaims(t) :
        /\ c.id = id /\ c.token = token
        /\ Exhausted(c)
        /\ queue' = RecoveredQueue(t)
        /\ claims' = {d \in RecoveredClaims(t) : d.id # id}
        /\ pending' \in Newest(AppendPending(RecoveredPending(t), {Park(c, Settled(t) + 1)}))
        /\ last' = [id |-> id, status |-> "pending", token |-> token]
        /\ stamp' = Settled(t) + 1
        /\ UNCHANGED <<handed, made, acked>>

Requeue(t, id, token) == RequeueRetry(t, id, token) \/ RequeuePending(t, id, token)

\* An ack or requeue with any other token raises before the write, so it
\* changes nothing: it is a stuttering step.

-----------------------------------------------------------------------------
Init ==
    /\ now = MaxLockWait + 1
    /\ queue = {} /\ claims = {} /\ pending = {}
    /\ last = NoTransition
    /\ stamp = 0
    /\ handed = [id \in ScopeIds |-> 0]
    /\ made = {} /\ acked = {}

Tick ==
    /\ now < MaxTime
    /\ now' = now + 1
    /\ UNCHANGED <<queue, claims, pending, last, stamp, handed, made, acked>>

\* One operation.  Its caller is arbitrary: an ack or requeue may come with any
\* token ever handed out, from a worker that is late, repeats itself or was
\* superseded.
Operation(t) ==
    \/ \E id \in ScopeIds, d \in Deliveries \union {NoDelivery} : Enqueue(t, id, d)
    \/ \E d \in Deliveries : EnqueueExisting(t, d)
    \/ \E i \in RecoveredQueue(t) : Claim(t, i)
    \/ ClaimNothing(t)
    \/ QueueStatus(t)
    \/ \E id \in ScopeIds : \E token \in 1..handed[id] :
         \/ Ack(t, id, token)
         \/ AckRepeated(t, id, token)
         \/ Requeue(t, id, token)
         \/ RequeueRepeated(t, id, token)

Next ==
    \/ Tick
    \/ \E t \in (now - MaxLockWait)..now : Operation(t) /\ now' = now

Spec == Init /\ [][Next]_vars

-----------------------------------------------------------------------------
(* What the store promises                                                  *)

ItemType == [id : ScopeIds, delivery : Deliveries \union {NoDelivery}, created : Nat,
             expires : Nat, attempts : Nat, notBefore : Nat, ord : Nat]

ClaimType == [id : ScopeIds, delivery : Deliveries \union {NoDelivery}, created : Nat,
              expires : Nat, attempts : Nat, notBefore : Nat, ord : Nat,
              until : Nat, token : Nat]

TypeOK ==
    /\ now \in Nat /\ stamp \in Nat
    /\ queue \in SUBSET ItemType /\ claims \in SUBSET ClaimType
    /\ pending \in SUBSET ItemType
    /\ handed \in [ScopeIds -> Nat]
    /\ made \in SUBSET ScopeIds /\ acked \in SUBSET ScopeIds
    /\ last = NoTransition
         \/ last \in [id : ScopeIds, status : {"acknowledged", "requeued", "pending"},
                      token : Nat]

Live == queue \union claims \union pending

\* A scope is in one list at most, once, and an acknowledged scope is in none:
\* no recovery pass, retry or late worker duplicates or revives a scope.
SingleHome ==
    /\ \A S \in {queue, claims, pending} : \A i, j \in S : i.id = j.id => i = j
    /\ Ids(queue) \intersect Ids(claims) = {}
    /\ Ids(queue) \intersect Ids(pending) = {}
    /\ Ids(claims) \intersect Ids(pending) = {}
    /\ Ids(Live) \intersect acked = {}

\* No operation stores an item that the next load of the file would reject
\* (_normalise_scope_item drops what it rejects without a trace).
NothingRejected == \A i \in Live : Sound(i)

\* A scope that was enqueued is in some list until a worker acknowledges it,
\* unless pending_scopes is at SCOPE_MAX_PENDING and evicts its oldest entry.
LostOnlyAtCap ==
    made \subseteq acked \union Ids(Live) \/ Cardinality(pending) = MaxPending

\* One delivery (a webhook's, or the stable identity of the safety tick) never
\* has two scopes at once, whatever list the first one is in.
OneScopePerDelivery ==
    \A i, j \in Live : i.delivery = j.delivery /\ i.delivery # NoDelivery => i.id = j.id

\* A scope is handed to workers at most SCOPE_MAX_ATTEMPTS times, by whatever
\* mix of failures, expired leases and expired waits it comes back.
BoundedHandouts == \A id \in ScopeIds : handed[id] <= MaxAttempts

\* A stale worker retires nothing: the ack that retires a scope carries the
\* token of the latest claim of that scope, and the scope is claimed.
OnlyTheHolderRetires ==
    [][\A id \in acked' \ acked :
         /\ last' = [id |-> id, status |-> "acknowledged", token |-> handed'[id]]
         /\ \E c \in claims : c.id = id /\ c.token = handed'[id]]_vars

\* A scope is not handed out again while the lease of its claim runs, although
\* the clock an operation uses may be older than the one of the operation before.
LeaseIsExclusive ==
    [][\A c \in claims : handed'[c.id] # handed[c.id] => c.until <= now]_vars

\* What becomes of an enqueued scope: through queue, claim, retries and the parking
\* lot it is one scope in one place, stored so that the next load finds it, handed
\* out boundedly often, the only one of its delivery, and given up only when the
\* parking lot is full.
ScopesAreKept ==
    SingleHome /\ OneScopePerDelivery /\ NothingRejected /\ BoundedHandouts /\ LostOnlyAtCap

\* What a claim is worth: nobody else gets the scope while its lease runs, and
\* nobody whose lease ran out ends the work of the worker after him.
ClaimsAreFenced == LeaseIsExclusive /\ OnlyTheHolderRetires

-----------------------------------------------------------------------------
(* The store implements the ledger of its scopes                             *)

ItemOf(S, id) == CHOOSE i \in S : i.id = id

EntryOf(id) ==
    CASE id \in Ids(queue)   -> [phase |-> "waiting", tries |-> ItemOf(queue, id).attempts, grants |-> handed[id]]
      [] id \in Ids(claims)  -> [phase |-> "held", tries |-> ItemOf(claims, id).attempts, grants |-> handed[id]]
      [] id \in Ids(pending) -> [phase |-> "parked", tries |-> ItemOf(pending, id).attempts, grants |-> handed[id]]
      [] id \in acked        -> [phase |-> "done", tries |-> 0, grants |-> handed[id]]
      [] id \in ScopeIds \ made -> [phase |-> "absent", tries |-> 0, grants |-> handed[id]]
      [] OTHER               -> [phase |-> "lost", tries |-> 0, grants |-> handed[id]]

Ledger == INSTANCE ScopeLedger WITH ledger <- [id \in ScopeIds |-> EntryOf(id)]

\* Every operation, with the recovery it starts with, is one step of the ledger:
\* one scope is granted, retired or returned, by its holder, and any scope whose
\* time ran out is settled by the same rule, one try dearer.
ImplementsLedger == Ledger!Spec
=============================================================================
