---------------------------- MODULE RouterIngress ----------------------------
(***************************************************************************)
(* The signed ingress of the router: Handler._github_event of router.py    *)
(* with the overlays of router_entrypoint.py.  A handler thread records    *)
(* the X-GitHub-Delivery in delivery_dedupe, dispatches the event -- a     *)
(* durable scope and a wake, or a direct edge sync whose failure is        *)
(* deferred to a durable scope -- and releases the record when that fails. *)
(* Each lock section and each call out is an action of its own, so that a  *)
(* redelivery, another worker or a crash can come between any two.         *)
(*                                                                         *)
(* The scopes are those of ScopeStore, reduced to the one list each is in. *)
(***************************************************************************)
EXTENDS Naturals, SequencesExt

CONSTANTS
    Deliveries, \* X-GitHub-Delivery values
    Handlers,   \* slots of handler threads of the ThreadingHTTPServer
    MaxEntries, \* DELIVERY_MAX_ENTRIES
    MaxSends    \* bound of the model: how often a delivery is sent

ASSUME IngressAssumption ==
    MaxEntries \in Nat \ {0} /\ MaxSends \in Nat /\ "none" \notin Deliveries

\* What an event asks for: a scope; a supported or another pull request action;
\* a completion comment, which gets a scope and an edge sync; or nothing.
Kinds == {"issue", "pr", "prOther", "comment", "noop"}

VARIABLES
    kind,      \* the kind of each delivery's event
    recorded,  \* delivery_dedupe, oldest first
    scope,     \* the list the scope of a delivery is in
    handlers,
    sends,     \* history: how often each delivery was sent
    effects,   \* history: what was done for each delivery
    scopes,    \* history: how many scopes each delivery got
    failures,  \* history: how many attempts got no answer below 500
    accepted,  \* history: deliveries answered 202
    forgotten, \* history: deliveries whose record expired or was evicted
    struck     \* history: deliveries an attempt of which ended without a release

vars == <<kind, recorded, scope, handlers, sends, effects, scopes, failures, accepted,
          forgotten, struck>>

Thread(pc, d, skip) == [pc |-> pc, delivery |-> d, skip |-> skip]
NoThread == [pc |-> "idle", delivery |-> "none", skip |-> FALSE]

Of(h) == handlers[h].delivery
At(h, pc) == handlers[h].pc = pc
Goto(h, pc) == handlers' = [handlers EXCEPT ![h].pc = pc]
WorkedOn(d) == \E h \in Handlers : Of(h) = d

Init ==
    /\ kind \in [Deliveries -> Kinds]
    /\ recorded = <<>>
    /\ scope = [d \in Deliveries |-> "none"]
    /\ handlers = [h \in Handlers |-> NoThread]
    /\ sends = [d \in Deliveries |-> 0]
    /\ effects = [d \in Deliveries |-> {}]
    /\ scopes = [d \in Deliveries |-> 0]
    /\ failures = [d \in Deliveries |-> 0]
    /\ accepted = {} /\ forgotten = {} /\ struck = {}

-----------------------------------------------------------------------------
(* Ends of a handler                                                        *)

\* It answers 202 or 200.
Accepts(h) ==
    /\ handlers' = [handlers EXCEPT ![h] = NoThread]
    /\ accepted' = accepted \union {Of(h)}
    /\ UNCHANGED <<failures, struck>>

\* It answers 5xx, or dies and closes the connection.
Fails(h) ==
    /\ handlers' = [handlers EXCEPT ![h] = NoThread]
    /\ failures' = [failures EXCEPT ![Of(h)] = @ + 1]
    /\ UNCHANGED accepted

\* The same with the record left in place.
Strikes(h) == Fails(h) /\ struck' = struck \union {Of(h)}

Unanswered == UNCHANGED <<failures, accepted, struck>>

-----------------------------------------------------------------------------
(* _claim_delivery                                                          *)

\* Wrong on purpose, like the other definitions named Wrong...: each is the plausible
\* bug that the mutation run of one property puts in place of the definition below it.
WrongSeenInProgress(d) == \E n \in 1..Len(recorded) : recorded[n] = d /\ WorkedOn(d)

Seen(d) == \E n \in 1..Len(recorded) : recorded[n] = d

\* _cap_deliveries: the oldest entries make room.
Capped(q) == IF Len(q) > MaxEntries THEN SubSeq(q, Len(q) - MaxEntries + 1, Len(q)) ELSE q

Recorded(q) == {q[n] : n \in 1..Len(q)}

\* The record of d, if there is one, is deleted.
Unrecord(d) ==
    IF Seen(d) THEN \E n \in 1..Len(recorded) : recorded[n] = d /\ recorded' = RemoveAt(recorded, n)
    ELSE UNCHANGED recorded

Receive(h, d) ==
    /\ handlers[h] = NoThread
    /\ sends[d] < MaxSends
    /\ sends' = [sends EXCEPT ![d] = @ + 1]
    /\ \/ /\ Seen(d)
          /\ accepted' = accepted \union {d}
          /\ UNCHANGED <<recorded, handlers, forgotten>>
       \/ /\ ~Seen(d)
          /\ recorded' = Capped(Append(recorded, d))
          /\ forgotten' = forgotten \union (Recorded(recorded) \ Recorded(recorded'))
          /\ handlers' = [handlers EXCEPT ![h] = Thread("admit", d, FALSE)]
          /\ UNCHANGED accepted
    /\ UNCHANGED <<kind, scope, effects, scopes, failures, struck>>

\* The record expires.  DELIVERY_TTL_SECONDS is longer than any handler takes.
Expire(d) ==
    /\ Seen(d) /\ ~WorkedOn(d)
    /\ Unrecord(d)
    /\ forgotten' = forgotten \union {d}
    /\ UNCHANGED <<kind, scope, handlers, sends, effects, scopes, failures, accepted, struck>>

-----------------------------------------------------------------------------
(* Dispatch                                                                 *)

DispatchStep == UNCHANGED <<kind, recorded, sends, forgotten>>

\* Admission: the payload is checked and _managed_repository reads the state.
Admit(h) ==
    /\ At(h, "admit")
    /\ \/ kind[Of(h)] = "noop" /\ Accepts(h)
       \/ kind[Of(h)] \in {"pr", "prOther"} /\ Goto(h, "edge") /\ Unanswered
       \/ kind[Of(h)] \in {"issue", "comment"} /\ Goto(h, "enqueue") /\ Unanswered
       \/ Strikes(h)   \* the state cannot be read: do_POST answers 503
    /\ DispatchStep /\ UNCHANGED <<scope, effects, scopes>>

\* What follows a direct edge sync that worked or was deferred.
AfterEdge(h) ==
    \/ kind[Of(h)] = "comment" /\ Goto(h, "wake") /\ Unanswered
    \/ kind[Of(h)] # "comment" /\ Accepts(h)

WrongEdge(h) ==
    /\ At(h, "edge")
    /\ \/ AfterEdge(h) /\ effects' = [effects EXCEPT ![Of(h)] = @ \union {"edge"}]
       \/ AfterEdge(h) /\ UNCHANGED effects
    /\ DispatchStep /\ UNCHANGED <<scope, scopes>>

\* _n8n_edge_sync, and the choice of edge_sync when it raises.
Edge(h) ==
    /\ At(h, "edge")
    /\ \/ AfterEdge(h) /\ effects' = [effects EXCEPT ![Of(h)] = @ \union {"edge"}]
       \/ /\ Goto(h, IF kind[Of(h)] = "prOther" THEN "release" ELSE "defer")
          /\ Unanswered /\ UNCHANGED effects
    /\ DispatchStep /\ UNCHANGED <<scope, scopes>>

\* _enqueue_scope finds the live scope of the delivery or makes one, and says
\* whether it is in flight or pending already.
EnqueueScope(d) ==
    /\ effects' = [effects EXCEPT ![d] = @ \union {"scope"}]
    /\ IF scope[d] \in {"none", "done"}
       THEN scope' = [scope EXCEPT ![d] = "queued"] /\ scopes' = [scopes EXCEPT ![d] = @ + 1]
       ELSE UNCHANGED <<scope, scopes>>

ActiveOrPending(d) == scope[d] \in {"claimed", "parked"}

\* edge_sync defers: enqueue, and wake unless the scope is active or pending.
Defer(h) ==
    /\ At(h, "defer")
    /\ \/ /\ EnqueueScope(Of(h))
          /\ IF ActiveOrPending(Of(h)) THEN AfterEdge(h) ELSE Goto(h, "deferWake") /\ Unanswered
       \/ Goto(h, "release") /\ Unanswered /\ UNCHANGED <<scope, effects, scopes>>
    /\ DispatchStep

DeferWake(h) ==
    /\ At(h, "deferWake")
    /\ AfterEdge(h) \/ (Goto(h, "release") /\ Unanswered)
    /\ DispatchStep /\ UNCHANGED <<scope, effects, scopes>>

\* core._enqueue_scope in _github_event.  An OSError of the write is no
\* RouterError: it ends the thread.
Enqueue(h) ==
    /\ At(h, "enqueue")
    /\ \/ /\ EnqueueScope(Of(h))
          /\ handlers' = [handlers EXCEPT ![h].skip = ActiveOrPending(Of(h)),
                              ![h].pc = IF kind[Of(h)] = "comment" THEN "managed" ELSE "wake"]
          /\ Unanswered
       \/ /\ (Goto(h, "release") /\ Unanswered) \/ Strikes(h)
          /\ UNCHANGED <<scope, effects, scopes>>
    /\ DispatchStep

\* enqueue_scope of the overlay: the edge sync of a completion comment, if the
\* repository is managed.
Managed(h) ==
    /\ At(h, "managed")
    /\ \/ Goto(h, "edge")
       \/ Goto(h, "wake")
       \/ Goto(h, "release")
    /\ Unanswered
    /\ DispatchStep /\ UNCHANGED <<scope, effects, scopes>>

Wake(h) ==
    /\ At(h, "wake")
    /\ \/ Accepts(h)
       \/ ~handlers[h].skip /\ Goto(h, "release") /\ Unanswered
    /\ DispatchStep /\ UNCHANGED <<scope, effects, scopes>>

\* _release_delivery, and the 502.
Release(h) ==
    /\ At(h, "release")
    /\ \/ Unrecord(Of(h)) /\ Fails(h) /\ UNCHANGED struck
       \/ UNCHANGED recorded /\ Strikes(h)
    /\ UNCHANGED <<kind, scope, sends, effects, scopes, forgotten>>

-----------------------------------------------------------------------------
(* The environment                                                          *)

\* The scope's life in the store, driven by the intake worker.
ScopeMoves(d) ==
    /\ \/ scope[d] = "queued" /\ scope' = [scope EXCEPT ![d] = "claimed"]
       \/ scope[d] = "claimed" /\ \E to \in {"queued", "parked", "done"} : scope' = [scope EXCEPT ![d] = to]
    /\ UNCHANGED <<kind, recorded, handlers, sends, effects, scopes, failures, accepted, forgotten, struck>>

\* The router dies with all its handlers and starts again.
Crash ==
    /\ handlers' = [h \in Handlers |-> NoThread]
    /\ failures' = [d \in Deliveries |->
           failures[d] + Cardinality({h \in Handlers : Of(h) = d})]
    /\ struck' = struck \union {Of(h) : h \in {g \in Handlers : handlers[g] # NoThread}}
    /\ UNCHANGED <<kind, recorded, scope, sends, effects, scopes, accepted, forgotten>>

HandlerStep(h) ==
    Admit(h) \/ Edge(h) \/ Defer(h) \/ DeferWake(h) \/ Enqueue(h) \/ Managed(h) \/ Wake(h) \/ Release(h)

Next ==
    \/ \E h \in Handlers, d \in Deliveries : Receive(h, d)
    \/ \E h \in Handlers : HandlerStep(h)
    \/ \E d \in Deliveries : Expire(d) \/ ScopeMoves(d)
    \/ Crash

Spec == Init /\ [][Next]_vars

-----------------------------------------------------------------------------
IngressTypeOK ==
    /\ kind \in [Deliveries -> Kinds]
    /\ Recorded(recorded) \subseteq Deliveries
    /\ Len(recorded) = Cardinality(Recorded(recorded)) /\ Len(recorded) <= MaxEntries
    /\ scope \in [Deliveries -> {"none", "queued", "claimed", "parked", "done"}]
    /\ handlers \in [Handlers ->
         {NoThread} \union [pc : {"admit", "edge", "defer", "deferWake", "enqueue", "managed", "wake", "release"},
                            delivery : Deliveries, skip : BOOLEAN]]
    /\ sends \in [Deliveries -> 0..MaxSends]
    /\ effects \in [Deliveries -> SUBSET {"edge", "scope"}]
    /\ scopes \in [Deliveries -> 0..(2 * MaxSends)] /\ failures \in [Deliveries -> 0..MaxSends]
    /\ accepted \subseteq Deliveries /\ forgotten \subseteq Deliveries
    /\ struck \subseteq Deliveries

\* The edge ran for the event, or a durable scope stands or stood for it.
Preserved(d) == effects[d] # {} \/ kind[d] = "noop"

\* A record that no handler works on belongs to an event that was dispatched, so
\* suppressing its redeliveries loses nothing; only an attempt that ended without
\* the release (a state file that fails at admission, a write that fails with
\* OSError, a failed release, a crash) can leave another record.
RecordedUnlessStruck ==
    \A d \in Deliveries \ struck : Seen(d) /\ ~WorkedOn(d) => Preserved(d)

\* docs/GITHUB_EVENT_CONCURRENCY.md: "a dispatch that cannot be preserved by the
\* durable fallback has its delivery record released".
RecordedIsPreserved ==
    \A d \in Deliveries : Seen(d) /\ ~WorkedOn(d) => Preserved(d)

\* GitHub is never told only good news of an event that came to nothing: when a
\* redelivery is answered 202 while the first attempt fails, that attempt is
\* answered with an error.
AcceptedOrReported ==
    \A d \in accepted : ~WorkedOn(d) => Preserved(d) \/ failures[d] > 0

\* An event that was received is dispatched, or remembered as not dispatched by the
\* one or the other side, whatever redeliveries and failures overlap.
NothingIsSwallowed == RecordedUnlessStruck /\ AcceptedOrReported

\* However often and however close together a delivery is sent, one handler at a
\* time dispatches it, unless its record was evicted while it did.
OneDispatcher ==
    \A g, h \in Handlers : Of(g) = Of(h) /\ Of(g) \in Deliveries \ forgotten => g = h

\* How many scopes one attempt can make: the edge sync of a completion comment
\* may fail after a worker retired the scope the same handler enqueued before it.
PerAttempt(d) == IF kind[d] = "comment" THEN 2 ELSE 1

\* A delivery gets scopes of another attempt only after an attempt of it was
\* answered with an error: replays of what was accepted start nothing.
SecondScopeNeedsFailure ==
    \A d \in Deliveries \ forgotten : scopes[d] <= PerAttempt(d) * (1 + failures[d])

\* A delivery takes effect once per attempt GitHub was told to have failed, and one
\* handler at a time brings it about.
EffectsAreCounted == OneDispatcher /\ SecondScopeNeedsFailure
=============================================================================
