---------------------------- MODULE IntakePlane ----------------------------
(***************************************************************************)
(* The wake-up plane of the intake, end to end: webhook handlers, the      *)
(* hourly safety tick, the startup recovery, the chained wake after an ack *)
(* or requeue and the delayed timer (WakeTimer) of the router, the scope   *)
(* store they share, and the intake runs their wakes start one at a time.  *)
(* ScopeStore models the store in detail; here it is one record and its    *)
(* clocks are countdowns, so that behaviours are infinite and liveness can *)
(* be asked.                                                               *)
(*                                                                         *)
(* A wake goes through the lease controller and the actuator.  While the   *)
(* plane is "down" any of these calls may fail; "up" they work.  Wakes not *)
(* yet run beyond MaxWakes are merged: each would start a run later on.    *)
(***************************************************************************)
EXTENDS WakeTimer, SequencesExt

CONSTANTS
    Events,      \* scopes of webhook deliveries
    Safety,      \* the scope of the safety tick, _PERIODIC_FULL_INTAKE_DELIVERY
    MaxAttempts, \* SCOPE_MAX_ATTEMPTS
    Backoff,     \* SCOPE_RETRY_BACKOFF_SECONDS
    Chains,      \* slots of request handler threads of the router
    MaxWakes,    \* bound of the model: wakes that wait for the actuator
    MaxRestarts, \* bound of the model: router restarts
    Outages,     \* may the plane be down, until it is repaired?
    Ticking,     \* does the safety tick run?
    RunsFail,    \* may a run fail retryably while the plane is up?
    WaitsLong    \* may a scope wait in the queue for SCOPE_TTL_SECONDS?

PlaneAssumption ==
    /\ Safety \notin Events
    /\ MaxAttempts \in Nat \ {0} /\ MaxWakes \in Nat \ {0} /\ MaxRestarts \in Nat
    /\ Backoff \in Seq(0..MaxDelay) /\ Backoff # <<>>
    /\ {Outages, Ticking, RunsFail, WaitsLong} \subseteq BOOLEAN

VARIABLES
    store,    \* queue, and for each scope its place, due time and attempts
    overdue,  \* scopes whose TTL in the queue or whose claim lease has run out
    chains,   \* handler threads of the router
    ticker,   \* the safety tick thread
    starter,  \* the startup recovery thread
    wakes,    \* accepted wakes whose run has not started
    run,      \* the intake run of the actuator
    health,   \* "up" or "down"
    restarts

planeVars == <<timerVars, store, overdue, chains, ticker, starter, wakes, run, health, restarts>>
routerVars == <<timerVars, chains, ticker, starter>>

Scopes == Events \union {Safety}
NoScope == "none"
Idle == [pc |-> "idle", scope |-> NoScope]
Handler(pc, at) == [pc |-> pc, at |-> at]
Gone == Handler("off", 0)

-----------------------------------------------------------------------------
(* The store, as functions from the stored state to the next one             *)

Before(q, s, t) == \E m, n \in 1..Len(q) : m < n /\ q[m] = s /\ q[n] = t

\* The queues in which the scopes of q but "out" keep their order and those of "back", which
\* are not in q, join the end in any order.
Rejoined(q, out, back) ==
    {p \in SetToSeqs((ToSet(q) \ out) \union back) :
        \A m, n \in DOMAIN p : m < n => p[n] \in back \/ Before(q, p[m], p[n])}

\* Wrong on purpose, like the other definitions named Wrong...: each is the plausible
\* bug that the mutation run of one property puts in place of the definition below it.
WrongGiveBackUncounted(st, s, delay) ==
    [queue |-> Append(st.queue, s),
     place |-> [st.place EXCEPT ![s] = "queued"],
     due   |-> [st.due EXCEPT ![s] = delay],
     tries |-> st.tries]

\* A scope that fails or expires once more is parked when its tries are spent.
Spent(st, s) == st.tries[s] + 1 >= MaxAttempts

\* A claimed scope, which is not in the queue, is parked or goes to its end.
GiveBack(st, s, delay) ==
    [queue |-> IF Spent(st, s) THEN st.queue ELSE Append(st.queue, s),
     place |-> [st.place EXCEPT ![s] = IF Spent(st, s) THEN "parked" ELSE "queued"],
     due   |-> [st.due EXCEPT ![s] = delay],
     tries |-> [st.tries EXCEPT ![s] = @ + 1]]

\* _recover_scope_claims_unlocked: what ran out has failed once more.  A queued scope
\* keeps its place in the line, the claims join its end in any order.  Neither it nor the new
\* line is computed step by step, so that theorems can be proved about them.
Recovered ==
    IF overdue = {} THEN {store}
    ELSE LET spent == {s \in overdue : Spent(store, s)}
             returned == {s \in overdue \ spent : store.place[s] = "claimed"} IN
         {[queue |-> line,
           place |-> [s \in Scopes |-> IF s \in spent THEN "parked"
                                      ELSE IF s \in overdue THEN "queued" ELSE store.place[s]],
           due   |-> [s \in Scopes |-> IF s \in overdue THEN 0 ELSE store.due[s]],
           tries |-> [s \in Scopes |-> store.tries[s] + IF s \in overdue THEN 1 ELSE 0]]
          : line \in Rejoined(store.queue, spent, returned)}

Put(st, s) ==
    [queue |-> Append(st.queue, s), place |-> [st.place EXCEPT ![s] = "queued"],
     due |-> [st.due EXCEPT ![s] = 0], tries |-> [st.tries EXCEPT ![s] = 0]]

\* The item at n of the queue is claimed.
Take(st, n) ==
    [st EXCEPT !.queue = RemoveAt(@, n), !.place[st.queue[n]] = "claimed"]

WrongFinish(st, s) == [st EXCEPT !.place[s] = "done", !.due[s] = 0, !.tries[s] = 0]

\* An acknowledged event is done; the safety scope may be enqueued again.
Finish(st, s) ==
    [st EXCEPT !.place[s] = IF s = Safety THEN "absent" ELSE "done",
               !.due[s] = 0, !.tries[s] = 0]

Earliest(st) ==
    LET dues == {st.due[st.queue[n]] : n \in 1..Len(st.queue)} IN
    IF dues = {} THEN NoDeadline ELSE CHOOSE d \in dues : \A e \in dues : d <= e

\* Every operation on the store file recovers first.
StoreOp(st) == store' = st /\ overdue' = {}

-----------------------------------------------------------------------------
(* Wakes                                                                     *)

\* core._wake(): the trigger is accepted, or fails while the plane is down.
Wake ==
    \/ wakes' = (IF wakes < MaxWakes THEN wakes + 1 ELSE wakes)
    \/ health = "down" /\ UNCHANGED wakes

RunUnchanged == UNCHANGED <<run, health, restarts>>

\* A webhook is accepted: its handler enqueues the scope and then wakes.
Webhook(c, e) ==
    /\ chains[c] = Gone
    /\ store.place[e] = "absent"
    /\ \E st \in Recovered : StoreOp(Put(st, e))
    /\ chains' = [chains EXCEPT ![c] = Handler("wake", 0)]
    /\ UNCHANGED <<timerVars, ticker, starter, wakes>> /\ RunUnchanged

\* _chain_scope_wake, in the handler of an accepted ack or requeue.
ChainRead(c) ==
    /\ chains[c].pc = "read"
    /\ \E st \in Recovered :
         /\ StoreOp(st)
         /\ chains' = [chains EXCEPT ![c] =
                IF Earliest(st) = NoDeadline THEN Gone ELSE Handler("decide", Earliest(st))]
    /\ UNCHANGED <<timerVars, ticker, starter, wakes>> /\ RunUnchanged

ChainDecide(c) ==
    /\ chains[c].pc = "decide"
    /\ \/ chains[c].at > 0 /\ Schedule(chains[c].at)
          /\ chains' = [chains EXCEPT ![c] = Gone]
       \/ chains[c].at = 0 /\ chains' = [chains EXCEPT ![c] = Handler("wake", 0)]
          /\ UNCHANGED timerVars
    /\ UNCHANGED <<store, overdue, ticker, starter, wakes>> /\ RunUnchanged

ChainWake(c) ==
    /\ chains[c].pc = "wake"
    /\ Wake
    /\ chains' = [chains EXCEPT ![c] = Gone]
    /\ UNCHANGED <<timerVars, store, overdue, ticker, starter>> /\ RunUnchanged

\* _periodic_full_intake_once: an active or parked safety scope is not woken.
SafetyTick ==
    /\ Ticking /\ ticker = "idle"
    /\ \E st \in Recovered :
         /\ StoreOp(IF st.place[Safety] = "absent" THEN Put(st, Safety) ELSE st)
         /\ ticker' = IF st.place[Safety] \in {"claimed", "parked"} THEN "idle" ELSE "wake"
    /\ UNCHANGED <<timerVars, chains, starter, wakes>> /\ RunUnchanged

SafetyWake ==
    /\ ticker = "wake"
    /\ Wake
    /\ ticker' = "idle"
    /\ UNCHANGED <<timerVars, store, overdue, chains, starter>> /\ RunUnchanged

\* _startup_queue_recovery, once after a restart.
StartupRead ==
    /\ starter.pc = "read"
    /\ \E st \in Recovered :
         /\ StoreOp(st)
         /\ starter' = IF Earliest(st) = NoDeadline THEN Gone ELSE Handler("decide", Earliest(st))
    /\ UNCHANGED <<timerVars, chains, ticker, wakes>> /\ RunUnchanged

StartupDecide ==
    /\ starter.pc = "decide"
    /\ \/ starter.at > 0 /\ Schedule(starter.at) /\ starter' = Gone
       \/ starter.at = 0 /\ starter' = Handler("wake", 0) /\ UNCHANGED timerVars
    /\ UNCHANGED <<store, overdue, chains, ticker, wakes>> /\ RunUnchanged

\* Up to three attempts; all of them may fail while the plane is down.
StartupWake ==
    /\ starter.pc = "wake"
    /\ Wake
    /\ starter' = Gone
    /\ UNCHANGED <<timerVars, store, overdue, chains, ticker>> /\ RunUnchanged

\* The delayed timer's threads, reading this store and sending these wakes.
TimerReads(k) ==
    /\ \E st \in Recovered : StoreOp(st) /\ TimerRead(k, Earliest(st))
    /\ UNCHANGED <<chains, ticker, starter, wakes>> /\ RunUnchanged

TimerWakes(k) ==
    /\ TimerWake(k)
    /\ Wake
    /\ UNCHANGED <<store, overdue, chains, ticker, starter>> /\ RunUnchanged

TimerMoves(k) ==
    /\ \/ TimerCheck(k) \/ TimerReadFails(k) \/ TimerDecide(k)
       \/ TimerClear(k) \/ TimerMove(k) \/ TimerAgain(k)
    /\ UNCHANGED <<store, overdue, chains, ticker, starter, wakes>> /\ RunUnchanged

\* The router dies and comes back: threads and the deadline are gone, the store
\* and the wakes already accepted by the lease controller stay.
Restart ==
    /\ restarts < MaxRestarts
    /\ restarts' = restarts + 1
    /\ deadline' = NoDeadline /\ timers' = [k \in Threads |-> Off] /\ UNCHANGED <<current, missed>>
    /\ chains' = [c \in Chains |-> Gone]
    /\ ticker' = "idle"
    /\ starter' = Handler("read", 0)
    /\ UNCHANGED <<store, overdue, wakes, run, health>>

-----------------------------------------------------------------------------
(* The runs                                                                  *)

StartRun ==
    /\ wakes > 0 /\ run = Idle
    /\ wakes' = wakes - 1
    /\ \/ run' = [pc |-> "claim", scope |-> NoScope]
       \/ health = "down" /\ UNCHANGED run
    /\ UNCHANGED <<routerVars, store, overdue, health, restarts>>

\* POST /scope/claim: the first scope of the queue that is due, or none.
RunClaim ==
    /\ run.pc = "claim"
    /\ \E st \in Recovered :
         LET ready == {n \in 1..Len(st.queue) : st.due[st.queue[n]] = 0} IN
         \/ /\ ready = {}
            /\ StoreOp(st)
            /\ run' = Idle
         \/ \E n \in ready :
              /\ \A m \in ready : n <= m
              /\ StoreOp(Take(st, n))
              /\ run' = [pc |-> "work", scope |-> st.queue[n]]
    /\ UNCHANGED <<routerVars, wakes, health, restarts>>

\* The work succeeds: POST /scope/ack, whose handler chains a wake.
RunAcks(c) ==
    /\ run.pc = "work" /\ chains[c] = Gone
    /\ run.scope \notin overdue
    /\ \E st \in Recovered : StoreOp(Finish(st, run.scope))
    /\ chains' = [chains EXCEPT ![c] = Handler("read", 0)]
    /\ run' = Idle
    /\ UNCHANGED <<timerVars, ticker, starter, wakes, health, restarts>>

\* The work fails retryably: POST /scope/requeue.
RunRequeues(c) ==
    /\ run.pc = "work" /\ chains[c] = Gone
    /\ RunsFail \/ health = "down"
    /\ run.scope \notin overdue
    /\ \E st \in Recovered :
         LET n == st.tries[run.scope] + 1 IN
         StoreOp(GiveBack(st, run.scope, Backoff[IF n < Len(Backoff) THEN n ELSE Len(Backoff)]))
    /\ chains' = [chains EXCEPT ![c] = Handler("read", 0)]
    /\ run' = Idle
    /\ UNCHANGED <<timerVars, ticker, starter, wakes, health, restarts>>

\* The run dies, is killed by the actuator's timeout, or cannot reach the router:
\* its claim stays until the lease has run out.
RunDies ==
    /\ run.pc \in {"claim", "work"} /\ health = "down"
    /\ run' = Idle
    /\ UNCHANGED <<routerVars, store, overdue, wakes, health, restarts>>

-----------------------------------------------------------------------------
(* Time and the environment                                                  *)

Second ==
    /\ TimerTick
    /\ store' = [store EXCEPT !.due = [s \in Scopes |-> Sooner(@[s])]]
    /\ chains' = [c \in Chains |-> Handler(chains[c].pc, Sooner(chains[c].at))]
    /\ starter' = Handler(starter.pc, Sooner(starter.at))
    /\ UNCHANGED <<overdue, ticker, wakes, run, health, restarts>>

\* SCOPE_TTL_SECONDS of a queued scope; it is longer than any backoff.
WaitRunsOut(s) ==
    /\ WaitsLong
    /\ store.place[s] = "queued" /\ store.due[s] = 0 /\ s \notin overdue
    /\ overdue' = overdue \union {s}
    /\ UNCHANGED <<routerVars, store, wakes, run, health, restarts>>

\* SCOPE_CLAIM_LEASE_SECONDS; the actuator kills a run before that.
LeaseRunsOut(s) ==
    /\ store.place[s] = "claimed" /\ run.scope # s /\ s \notin overdue
    /\ overdue' = overdue \union {s}
    /\ UNCHANGED <<routerVars, store, wakes, run, health, restarts>>

Repair ==
    /\ health = "down"
    /\ health' = "up"
    /\ UNCHANGED <<routerVars, store, overdue, wakes, run, restarts>>

-----------------------------------------------------------------------------
Init ==
    /\ TimerInit
    /\ store = [queue |-> <<>>, place |-> [s \in Scopes |-> "absent"],
                due |-> [s \in Scopes |-> 0], tries |-> [s \in Scopes |-> 0]]
    /\ overdue = {}
    /\ chains = [c \in Chains |-> Gone]
    /\ ticker = "idle"
    /\ starter = Gone
    /\ wakes = 0 /\ run = Idle
    /\ health \in IF Outages THEN {"up", "down"} ELSE {"up"}
    /\ restarts = 0

HandlerStep(c) == ChainRead(c) \/ ChainDecide(c) \/ ChainWake(c)
StartupStep == StartupRead \/ StartupDecide \/ StartupWake
TimerThreadStep(k) == TimerReads(k) \/ TimerWakes(k) \/ TimerMoves(k)
RunEnds == \E c \in Chains : RunAcks(c) \/ RunRequeues(c)

Next ==
    \/ \E c \in Chains, e \in Events : Webhook(c, e)
    \/ \E c \in Chains : HandlerStep(c)
    \/ SafetyTick \/ SafetyWake
    \/ StartupStep
    \/ \E k \in Threads : TimerThreadStep(k)
    \/ Restart
    \/ StartRun \/ RunClaim \/ RunEnds \/ RunDies
    \/ Second
    \/ \E s \in Scopes : WaitRunsOut(s) \/ LeaseRunsOut(s)
    \/ Repair

\* Threads are scheduled, the clock runs, an hour always passes, a run ends (the
\* actuator's timeout sees to that) and an outage is repaired.  Nothing says
\* that webhooks arrive or that the router restarts.
Fairness ==
    /\ \A c \in Chains : WF_planeVars(HandlerStep(c))
    /\ WF_planeVars(SafetyTick) /\ WF_planeVars(SafetyWake)
    /\ WF_planeVars(StartupStep)
    /\ \A k \in Threads : WF_planeVars(TimerThreadStep(k))
    /\ WF_planeVars(StartRun) /\ WF_planeVars(RunClaim) /\ WF_planeVars(RunEnds \/ RunDies)
    /\ WF_planeVars(Second)
    /\ \A s \in Scopes : WF_planeVars(WaitRunsOut(s)) /\ WF_planeVars(LeaseRunsOut(s))
    /\ WF_planeVars(Repair)

Spec == Init /\ [][Next]_planeVars /\ Fairness

-----------------------------------------------------------------------------
PlaneTypeOK ==
    /\ TimerTypeOK
    /\ store.place \in [Scopes -> {"absent", "queued", "claimed", "parked", "done"}]
    /\ store.due \in [Scopes -> Delays] /\ store.tries \in [Scopes -> 0..MaxAttempts]
    /\ store.queue \in UNION {[1..n -> Scopes] : n \in 0..Cardinality(Scopes)}
    /\ overdue \subseteq Scopes
    /\ chains \in [Chains -> [pc : {"off", "read", "decide", "wake"}, at : Delays]]
    /\ ticker \in {"idle", "wake"}
    /\ starter \in [pc : {"off", "read", "decide", "wake"}, at : Delays]
    /\ wakes \in 0..MaxWakes
    /\ run \in [pc : {"idle", "claim", "work"}, scope : Scopes \union {NoScope}]
    /\ health \in {"up", "down"} /\ restarts \in 0..MaxRestarts

\* The run that works on a scope is the one that holds its claim.
RunHoldsItsScope == run.pc = "work" => store.place[run.scope] = "claimed"

\* No accepted webhook waits forever: outages, dead runs, restarts and lost
\* wakes included, its scope is worked off or parked for an operator.
NobodyWaitsForever ==
    \A e \in Events :
        store.place[e] \in {"queued", "claimed"} ~> store.place[e] \in {"done", "parked"}

\* The only way the safety net stops making full runs is that its own scope is
\* parked for good.
SafetyNetUnlessParked ==
    Ticking => []<>(run.scope = Safety) \/ <>[](store.place[Safety] = "parked")

\* Nothing that would still read the queue, schedule a wake or start a run is
\* under way, except the thread of the deadline.
Quiet ==
    /\ \A c \in Chains : chains[c] = Gone
    /\ starter = Gone /\ ticker = "idle"
    /\ \A k \in Threads : timers[k].pc # "again"
    /\ wakes = 0 /\ run = Idle

\* When the only wake to come is that of a sleeping timer thread, that thread
\* sleeps no longer than the earliest queued scope has to wait: no hint of an
\* earlier time is lost to a superseded thread or a restart, and to coalescing
\* only when the thread it was coalesced into had read the queue already.
SleepCoversQueue ==
    Quiet /\ ~missed /\ deadline # NoDeadline /\ timers[current].pc = "sleep"
        => \A s \in Scopes : store.place[s] = "queued" => deadline <= store.due[s]

\* The timer never wedges and never oversleeps: a deadline that is set has a thread
\* that will clear it, also when its read or its wake failed or it was superseded
\* meanwhile (otherwise every later hint would be coalesced into a wake that never
\* comes), and a deadline slept on covers the queue.
TimerIsSound == DeadlineHasThread /\ SleepCoversQueue

\* That coalescing, and a queue a timer thread could not read, are all that can
\* strand a queued scope without another event or the safety tick, in a plane
\* where calls work.
StrandedOnlyByCoalescing ==
    [](~missed) => \A s \in Scopes : store.place[s] = "queued" ~> store.place[s] # "queued"

\* docs/GITHUB_EVENT_CONCURRENCY.md: the safety tick sees to it "that a single
\* missed webhook cannot strand an agent-ready Issue indefinitely": once the
\* plane works again, full runs happen again and again.
SafetyNetRecovers ==
    Ticking /\ <>[](health = "up") => []<>(run.scope = Safety)

\* docs/GITHUB_EVENT_CONCURRENCY.md: a requeued scope still inside its backoff
\* has a delayed wake "instead of waiting for another GitHub event or the hourly
\* safety tick": with neither, and nothing else failing, it is claimed again.
BackoffIsHonoured ==
    \A s \in Scopes : store.place[s] = "queued" ~> store.place[s] # "queued"
=============================================================================
