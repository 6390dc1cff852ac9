--------------------------- MODULE CompletionWake ---------------------------
(***************************************************************************)
(* How a finished card reaches the edge: the completion observer in the    *)
(* worker's process (hermes-plugin/github-completion-edge-wake), the       *)
(* safety wake at the dispatcher's ticks                                   *)
(* (hermes-plugin/github-completion-dispatch-safety-wake), the webhooks of *)
(* the actuator, and the single flight their edge passes share             *)
(* (edge/kanban-github-sync.py).                                           *)
(*                                                                         *)
(* A pass is entered, when it lists the board, and left, when all of its   *)
(* conclusions are written; EdgeHold and EdgeRework model what is between. *)
(* A card that is done while its pull request is open is provisional: some *)
(* pass has to park it in review.                                          *)
(***************************************************************************)
EXTENDS Naturals, Sequences, FiniteSets

CONSTANTS
    Cards,
    MaxReplays, \* _MAX_ATTEMPTS_PER_EVENT
    MaxEvents,  \* bound of the model: completions
    MaxFaults   \* bound of the model: lost hooks, failed passes, restarts of the gateway

WakeAssumption ==
    /\ IsFiniteSet(Cards) /\ Cards # {}
    /\ MaxReplays \in Nat \ {0} /\ MaxEvents \in Nat \ {0}
    /\ MaxFaults \in Nat

VARIABLES
    card,     \* the status of each card
    merged,   \* the cards whose pull request is merged
    log,      \* the completed events of the board: whose they are, by their id
    old,      \* the events that are out of the safety wake's sight
    tries,    \* _ATTEMPTS of the gateway process
    caller,   \* who may start an edge pass
    flight,   \* the single flight
    faults,
    replayed  \* history: the replays of each event since its card was last projected

vars == <<card, merged, log, old, tries, caller, flight, faults, replayed>>
board == <<card, merged, log, old>>

Gateway == "gateway"
Actuator == "actuator"
Callers == Cards \union {Gateway, Actuator}  \* a card stands for the observer of its worker
Nobody == "nobody"
NoCard == "no card"

Events == 1..MaxEvents
Idle == [pc |-> "idle", task |-> NoCard, event |-> 0, again |-> FALSE, listed |-> {}]
At(p, pc) == caller[p].pc = pc
Goes(p, pc) == caller' = [caller EXCEPT ![p].pc = pc]
Fault == faults < MaxFaults /\ faults' = faults + 1

-----------------------------------------------------------------------------
(* _edge_single_flight.  "outlasted" are the callers whose child expired     *)
(* behind the pass that is under way: their next child has a fresh budget    *)
(* and will outlive that pass.                                               *)

Free == [by |-> Nobody, seen |-> [c \in Cards |-> "running"], outlasted |-> {}]
Taken(p) == [by |-> p, seen |-> card, outlasted |-> {}]

\* What the pass makes of a card it listed, unless the card has changed since.
Concluded(c) ==
    IF card[c] # flight.seen[c] THEN card[c]
    ELSE IF card[c] = "done" /\ c \notin merged THEN "review"
    ELSE IF card[c] = "review" /\ c \in merged THEN "done"
    ELSE card[c]

\* The pass has concluded on the cards S.
Concludes(S) ==
    /\ card' = [c \in Cards |-> IF c \in S THEN Concluded(c) ELSE card[c]]
    /\ replayed' = [e \in Events |->
           IF e <= Len(log) /\ card'[log[e]] # "done" THEN 0 ELSE replayed[e]]
    /\ UNCHANGED <<merged, log, old>>

-----------------------------------------------------------------------------
(* The primary observer, in the worker's process or replayed by the gateway  *)

\* What the caller does after its last child.
Ends(p) ==
    caller' = [caller EXCEPT ![p] =
                   IF p = Gateway THEN [@ EXCEPT !.pc = "forget", !.task = NoCard, !.event = 0, !.again = FALSE]
                   ELSE Idle]

\* _completion_is_eligible
Eligible(c) == card[c] = "done"

\* _on_task_completed
Check(p) ==
    /\ At(p, "check")
    /\ IF Eligible(caller[p].task) THEN Goes(p, "wait") ELSE Ends(p)
    /\ UNCHANGED <<board, tries, flight, faults, replayed>>

Enter(p) ==
    /\ At(p, "wait") /\ flight = Free
    /\ flight' = Taken(p)
    /\ Goes(p, "pass")
    /\ UNCHANGED <<board, tries, faults, replayed>>

Leave(p) ==
    /\ At(p, "pass")
    /\ Concludes(Cards)
    /\ flight' = Free
    /\ Ends(p)
    /\ UNCHANGED <<tries, faults>>

\* _run_edge_with_contention_retry: only the first child that timed out counts.
TimedOut(p) == IF caller[p].again \/ p = Actuator THEN Ends(p) ELSE Goes(p, "recheck")

\* Wrong on purpose: a timeout is taken for the end of the handoff.
WrongRecheck(p) ==
    /\ At(p, "recheck")
    /\ Ends(p)
    /\ UNCHANGED <<board, tries, flight, faults, replayed>>

\* The second child is started unless another pass projected the card meanwhile;
\* a read that fails starts it too.
Recheck(p) ==
    /\ At(p, "recheck")
    /\ \/ caller' = [caller EXCEPT ![p].pc = "wait", ![p].again = TRUE]
       \/ ~Eligible(caller[p].task) /\ Ends(p)
    /\ UNCHANGED <<board, tries, flight, faults, replayed>>

\* The child spent its budget behind another pass.
Expires(p) ==
    /\ At(p, "wait") /\ flight # Free /\ p \notin flight.outlasted
    /\ flight' = [flight EXCEPT !.outlasted = @ \union {p}]
    /\ TimedOut(p)
    /\ UNCHANGED <<board, tries, faults, replayed>>

\* The pass fails or is killed at the deadline, with part of its work done; the
\* kernel frees the lock.
PassFails(p) ==
    /\ At(p, "pass") /\ Fault
    /\ \E S \in SUBSET Cards : Concludes(S)
    /\ flight' = Free
    /\ Ends(p) \/ TimedOut(p)
    /\ UNCHANGED tries

\* No token, no script, no process, or the board cannot be read.
WakeFails(p) ==
    /\ At(p, "check") \/ At(p, "wait")
    /\ Fault
    /\ Ends(p)
    /\ UNCHANGED <<board, tries, flight, replayed>>

-----------------------------------------------------------------------------
(* The safety wake                                                           *)

\* _recent_stranded_completions
Stranded == {e \in 1..Len(log) : e \notin old /\ Eligible(log[e])}

\* Wrong on purpose: an event is counted when its replay has ended well.
WrongCounted(e) == tries

\* _record_attempt, before the replay.
Counted(e) == [tries EXCEPT ![e] = @ + 1]

\* _on_dispatch_tick: the first event with a replay left.
Tick ==
    /\ At(Gateway, "idle")
    /\ \E e \in Stranded :
         /\ tries[e] < MaxReplays
         /\ \A d \in Stranded : tries[d] < MaxReplays => e <= d
         /\ tries' = Counted(e)
         /\ caller' = [caller EXCEPT ![Gateway] =
                [pc |-> "look", task |-> log[e], event |-> e, again |-> FALSE, listed |-> Stranded]]
    /\ UNCHANGED <<board, flight, faults, replayed>>

\* The card is looked at once more before its observer is replayed.
Look ==
    LET e == caller[Gateway].event IN
    /\ At(Gateway, "look")
    /\ IF Eligible(log[e])
       THEN /\ Goes(Gateway, "check")
            /\ replayed' = [replayed EXCEPT ![e] = @ + 1]
            /\ UNCHANGED tries
       ELSE /\ caller' = [caller EXCEPT ![Gateway] = Idle]
            /\ tries' = [tries EXCEPT ![e] = 0]
            /\ UNCHANGED replayed
    /\ UNCHANGED <<board, flight, faults>>

\* _forget_event, for whatever was listed and is projected now.
Forget ==
    /\ At(Gateway, "forget")
    /\ tries' = [e \in Events |->
           IF e \in caller[Gateway].listed /\ ~Eligible(log[e]) THEN 0 ELSE tries[e]]
    /\ caller' = [caller EXCEPT ![Gateway] = Idle]
    /\ UNCHANGED <<board, flight, faults, replayed>>

\* The board cannot be read: what was counted stays counted.
LookFails ==
    /\ At(Gateway, "look") \/ At(Gateway, "forget")
    /\ Fault
    /\ caller' = [caller EXCEPT ![Gateway] = Idle]
    /\ UNCHANGED <<board, tries, flight, replayed>>

\* The gateway restarts: _ATTEMPTS is gone, and so is its child.
Restart ==
    /\ Fault
    /\ tries' = [e \in Events |-> 0] /\ replayed' = tries'
    /\ caller' = [caller EXCEPT ![Gateway] = Idle]
    /\ flight' = IF flight.by = Gateway THEN Free ELSE flight
    /\ UNCHANGED board

-----------------------------------------------------------------------------
(* Workers, GitHub and time                                                  *)

\* The worker commits its completion, and its observer is called or lost.
Complete(c) ==
    /\ card[c] = "running" /\ caller[c].pc = "idle" /\ Len(log) < MaxEvents
    /\ card' = [card EXCEPT ![c] = "done"]
    /\ log' = Append(log, c)
    /\ \/ caller' = [caller EXCEPT ![c] = [Idle EXCEPT !.pc = "check", !.task = c]]
          /\ UNCHANGED faults
       \/ Fault /\ UNCHANGED caller
    /\ UNCHANGED <<merged, old, tries, flight, replayed>>

\* A webhook of a pull request.
Webhook ==
    /\ At(Actuator, "idle")
    /\ Goes(Actuator, "wait")
    /\ UNCHANGED <<board, tries, flight, faults, replayed>>

\* The edge opens the next round and the card is worked on again.
Rework(c) ==
    /\ card[c] = "review" /\ c \notin merged
    /\ card' = [card EXCEPT ![c] = "running"]
    /\ UNCHANGED <<merged, log, old, tries, caller, flight, faults, replayed>>

Merge(c) ==
    /\ card[c] # "running" /\ c \notin merged
    /\ merged' = merged \union {c}
    /\ UNCHANGED <<card, log, old, tries, caller, flight, faults, replayed>>

\* HERMES_COMPLETION_SAFETY_LOOKBACK_SECONDS
Age ==
    /\ Cardinality(old) < Len(log)
    /\ old' = old \union {Cardinality(old) + 1}
    /\ UNCHANGED <<card, merged, log, tries, caller, flight, faults, replayed>>

-----------------------------------------------------------------------------
Init ==
    /\ card = [c \in Cards |-> "running"]
    /\ merged = {} /\ log = <<>> /\ old = {}
    /\ tries = [e \in Events |-> 0]
    /\ caller = [p \in Callers |-> Idle]
    /\ flight = Free
    /\ faults = 0
    /\ replayed = tries

Step(p) == Check(p) \/ Enter(p) \/ Leave(p) \/ Recheck(p)
GatewaySteps == Tick \/ Look \/ Forget \/ Step(Gateway)

Next ==
    \/ \E p \in Callers : Step(p) \/ Expires(p) \/ PassFails(p) \/ WakeFails(p)
    \/ Tick \/ Look \/ Forget \/ LookFails \/ Restart
    \/ \E c \in Cards : Complete(c) \/ Rework(c) \/ Merge(c)
    \/ Webhook \/ Age

\* Processes run, the kernel hands a free lock to somebody, passes end by their
\* deadlines and the dispatcher ticks.
Fairness == WF_vars(GatewaySteps) /\ \A p \in Cards \union {Actuator} : WF_vars(Step(p))

Spec == Init /\ [][Next]_vars /\ Fairness

-----------------------------------------------------------------------------
TypeOK ==
    /\ card \in [Cards -> {"running", "done", "review"}]
    /\ merged \subseteq Cards /\ old \subseteq Events
    /\ log \in UNION {[1..n -> Cards] : n \in 0..MaxEvents}
    /\ tries \in [Events -> 0..MaxReplays] /\ DOMAIN replayed = Events
    /\ caller \in [Callers -> [pc : {"idle", "check", "wait", "pass", "recheck", "look", "forget"},
                               task : Cards \union {NoCard}, event : 0..MaxEvents,
                               again : BOOLEAN, listed : SUBSET Events]]
    /\ flight.by \in Callers \union {Nobody}
    /\ faults \in 0..MaxFaults

\* However replays fail, a gateway process replays a completion at most twice before
\* its card is projected: the backstop is no loop that holds up the dispatcher.
ReplaysAreBounded == \A e \in Events : replayed[e] <= MaxReplays

\* docs/GITHUB_COMPLETION_LIFECYCLE.md: lock contention is not "a lost completion
\* signal".  A provisional completion is projected, although its observer is lost, a
\* pass fails or the gateway restarts, and callers expire behind the passes of others; it stays only when
\* the safety wake saw no tick while it was recent.  A second fault can defeat it: a
\* replay that fails late also uses up the child of the caller behind it.
CompletionIsProjected ==
    \A c \in Cards :
        card[c] = "done" /\ c \notin merged
          ~> \/ card[c] # "done" \/ c \in merged
             \/ \A e \in 1..Len(log) : log[e] = c => e \in old
=============================================================================
