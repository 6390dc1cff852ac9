# Verification of the Hermes/n8n control plane

This directory holds TLA+ models of the control plane in `../src`: what its parts promise each other, model
checked with TLC on small instances, and proofs, checked by TLAPS, that the scope store, the ingress, the hooks,
the leases, the completion wakes, the intake worker, the edge's lanes, the admission gate, the alerts, the search ledger and
the cutover keep their safety promises for every configuration. Paths below are relative to `src/`.

## 1. The system

GitHub tells the control plane about Issues and pull requests; the control plane turns Issues labelled
`agent-ready` into Kanban cards that Hermes agents work on, and turns the outcome of pull requests back into
card states.

```
 GitHub --webhook--> router --(scope, durable)--> state.json
                       |  \--edge event--> n8n --> actuator --> edge reconciliation --> Kanban, GitHub
                       |--wake--> lease controller --> actuator --> intake worker --claim/ack/requeue--> router
 Hermes core --task completed--> completion plugins --> edge reconciliation
 Hermes core, edge --claim, spawn--> admission gates          worker of kanban-main --tool call--> Kanban guards
```

| Component | State it keeps | Operations | What is hard |
|---|---|---|---|
| Router, state store (`automation/n8n/github-router/router.py`) | one JSON file: `scope_queue`, `scope_claims`, `pending_scopes`, `last_scope_transition`, `delivery_dedupe`, `managed_repositories` | enqueue, claim, ack, requeue, status, recovery in front of each | leases that run out under late workers, clocks read before the lock, caps, a strict loader that drops what it rejects |
| Router, ingress (`router.py`, `router_entrypoint.py`) | the delivery records | record a delivery, dispatch it, release it on failure | redelivery while the first attempt runs, failures and crashes between record and dispatch |
| Router, liveness overlay (`router_entrypoint.py`) | one in-memory deadline and generation, daemon threads | chain a wake after ack/requeue, one delayed wake, startup recovery, hourly safety tick | threads that overlap, lost wakes, restarts |
| Router, webhook reconciliation (`router.py`, `automation/n8n/scripts/repository_registry.py`) | GitHub hooks, `managed_repositories` | create, repair, delete hooks | concurrent reconciliations |
| Lease controller (`automation/n8n/lease-controller/controller.py`) | the lease file, two locks, background threads | trigger, pause, resume at startup | outcomes of superseded triggers, pause before outcome, ambiguous calls |
| Intake actuator (`automation/hermes/actuator/github_intake_actuator.py`) | the run lock | run one intake or edge child, kill it at its timeout | busy answers, timeouts |
| Intake worker (`automation/hermes/scripts/github-agent-ready-kanban-intake*.py`) | locks, boards, cards, checkouts, the alert deduplication file | claim a scope, provision checkouts, bootstrap boards, create cards, run board passes, alert, ack or requeue | partial failure, lost answers, crash and repeat, checkouts shared with workers and the operator |
| Edge reconciliation (`edge/kanban-github-sync*.py`) | card rows and events in the board database, PR labels and comments | complete, park, supersede, rework, block and resume cards; converge graphs; dispatch rework workers | GitHub and the board change between read and write; one-shot signals; retries |
| Edge admission (`edge/kanban_*admission.py`, `edge/kanban_dynamic_resource*.py`) | resource and workspace locks, runs and PIDs | count, claim, spawn, reap, rebind | two dispatchers, workers that outlive their runs |
| Edge guards (`edge/kanban_head_binding_feedback.py`, `edge/kanban_retry_signal_guard.py`) | consumed signal identities | bind feedback to a head, admit a retry once | replay of consumed signals |
| Completion plugins (`hermes-plugin/github-completion-*`) | in-memory attempt counts | run the edge after a completion, replay it from the dispatcher tick | a wake lost behind another edge run, timeouts |
| Protocol loop guard (`hermes-plugin/kanban-protocol-loop-guard`) | none of its own | turn the fifth consecutive failure into a sticky block | promote and block are two transactions |
| Kanban guards (`automation/hermes/scripts/kanban-*-guard*.py`) | a ledger of events on a root card, attestations in run metadata | admit candidates and selectors, create their cards; refuse completions, block kinds and workspaces that break the contract | hooks that run at once or die between ledger and card |
| Board identity migration (`automation/n8n/scripts/board_identity_migration.py`) | registry, board directories, recorded evidence | migrate, transition, postcheck, roll back | a crash between any two effects, the intake and workers beside it |
| Overview dashboard, deployment and rendering scripts | none that the others read | reports, installation | -- |

What makes each component correct is the third column of section 3.

## 2. What is modelled

| Module | Models | Abstracts |
|---|---|---|
| `ScopeStore` | every operation on the scope lists, with the recovery each starts with, as one action; the clock an operation uses may be up to `MaxLockWait` old | a list is a set of items with a place; tokens are per-scope ordinals; repositories and mode |
| `ScopeLedger` | the abstract promise: the life of one scope | lists, clocks, places |
| `RouterIngress` | `_github_event` with the overlays, one action per lock section or call; redelivery, crash, failing state file | validation that answers before the delivery is recorded; scopes are reduced to the list they are in |
| `HookReconcile` | `_reconcile_webhooks`, one action per call to GitHub and per access to the record, in several threads | repositories are numbers; a hook is its id; the registry's search is exact |
| `WakeTimer` | `_schedule_delayed_scope_wake`, the timer threads step by step, `_clear_delayed_scope_wake` | times are countdowns |
| `IntakePlane` | handlers, chained wakes, startup recovery, safety tick and `WakeTimer` over one queue, the runs their wakes start, outages and restarts | the store is one record whose operations are functions; wakes above `MaxWakes` are merged |
| `LeaseController` | trigger, pause, the background threads and `_TRIGGER_LOCK`, the actuator's `_RUN_LOCK` with intake and edge children, restart | lease ids are ordinals, statuses of the answer are ok, refused or ambiguous |
| `CompletionWake` | the completion observer and its second child, the safety wake's ticks and counts, the edge's single flight, webhook passes | a pass lists the board when it enters and writes its conclusions when it leaves; reasons why a child fails are one fault |
| `Checkout` | cloning, validating and self-healing one repository's canonical checkout, one Git command per step, next to pushes, workers' fetches and the operator | a commit is its base on the default branch and whether local work lies on it |
| `IntakeRun` | one run from the claim of a scope to its acknowledgement: checkouts, registry, boards, closed Issues, candidates, cards, passes | every repository has one Issue; the store is a queue of scopes; what a checkout or a pass does inside |
| `Alerts` | operator attention from the pass that finds an incident to the file that deduplicates alerts, with overlapping runs | three kinds of incident per board; the text of an alert |
| `Admission` | the resource gate, the count, the claim, the workspace gate, the spawn, the reaping and the rebinding of both dispatchers | health probes, diagnostics, failure limits |
| `CardCreation` | the investigation search ledger, admission of candidates and selectors, materialisation under the key, reading back | card texts, roles, token counts beyond the shared budget |
| `BoardMigration` | migrate, transition, postcheck, rollback with a crash between any two effects, beside the intake and the cards of the board | content of a board is its cards and whether its files are whole; a transition reads the legacy board four times, as the code does (the scan, the keys it adopts, the keys it carries, the second scan), and cards move between any two |
| `EdgeRework` | the rework lifecycle of one GitHub-backed card with one linked pull request: `sync_board`, `_reconcile_rework_lifecycle` with the overlays of the entrypoint, `_reconcile_blocked`, `apply_decision`, `apply_rework`, the label projection and the dispatch lane, with maintainers, workers, the core dispatcher, failing GitHub calls and the end of the process between any two steps | the timestamps of labels, comments and events are their order (no ties); heads are ordinals; the body, comments to people and evidence payloads |
| `EdgeHold` | completion from several linked pull requests, supersession of a closed one, the `trusted_issue_completed` fallback that the entrypoint wraps around `verify_completion`, the hold of a blocked card on its Issue and the maintainer's answer | an answer is its number; the wrapper's read of the Issue is one step with the conclusion; who closed the Issue and why is one of two closed states; drafts and PR-side evidence |
| `EdgeTerminal` | the dependency gate of a root and the terminal convergence of its graph | the shape of the graph is fixed but for one late parent and removed links |

| Proofs | Theorems about |
|---|---|
| `ScopeStoreProofs` | `ScopeStore`, and that it implements `ScopeLedger` |
| `WakesProofs` | `LeaseController`, `CompletionWake`, `IntakePlane` with `WakeTimer` |
| `IngressProofs` | `RouterIngress`, `HookReconcile` |
| `IntakeWorkerProofs` | `Checkout`, `IntakeRun` |
| `EdgeReworkProofs` | `EdgeRework` |
| `EdgeLanesProofs` | `EdgeHold`, `EdgeTerminal` |
| `BoardPassProofs` | `Admission`, `Alerts` |
| `BoardsProofs` | `CardCreation`, `BoardMigration` |

**`EdgeRework`.** A pass reads the card and GitHub once (`Read`), which fixes a plan: the first write to the
board (`db`), the labels to add and remove, and the write that goes last. The steps of the pass carry the plan
out: `Write` is one board transaction, with the live status it insists on; `GetLabels`, `PatchLabels` and
`CheckLabels` are the three calls of `_project_pr_lifecycle_labels`; `Last` writes what the code writes only
after the labels. `Claim`, the label swap, `Spawn`, `Reclaim` are the dispatch lane. `Reconciled` is a
ladder of IF and ELSE IF, one operator per stretch of early returns of `_reconcile_rework_lifecycle`, in their order. The
variable `recent` orders the newest instances of each kind of evidence, which is what all the comparisons of timestamps look
at: `recent[e]` holds the kinds on record whose newest instance is not newer than that of `e`.
`EdgeHold` and `EdgeTerminal` read piece by piece instead, because the paths they model decide from several reads.

**`CompletionWake`.** A caller (an observer, the gateway's safety wake, the actuator) waits for the lock (`Enter`), holds it
during its pass (`Leave`, `PassFails`), or is killed at its deadline while it waits (`Expires`). Deadlines are relative:
`outlasted` remembers who expired behind the present pass, whose next child has a fresh budget and is not killed
behind the same pass, since every pass is bounded by that same budget.

**Composition.** `IntakePlane` EXTENDS `WakeTimer` and gives its threads the queue to read; `MCIntakePlane` has an instance of it,
with its restarts called reboots, so that `WakesProofs` can extend it next to `MCWakes`. The scopes of
`IntakePlane`, `IntakeRun` and `RouterIngress` follow `ScopeStore`, whose relation to them is that of `ScopeLedger`:
waiting, held, parked, done. For the events of `IntakePlane` this is a theorem (`PlaneKeepsLedger`).

The modules `MCRouterIngress` (`RouterIngress` + `HookReconcile`), `MCIntakeWorker` (`Checkout` + `IntakeRun`), `MCBoardPass` (`Admission` + `Alerts`), `MCBoards`
(`BoardMigration` + `CardCreation`), `MCWakes` (`LeaseController` + `CompletionWake`) and `MCEdgeLanes` (`EdgeHold` +
`EdgeTerminal`) put two specifications side by side without shared variables. They are sums, not products: a behaviour chooses its
part in the initial state and the other part stays in its initial state, where the properties of the other part hold
trivially. Checking the sum is therefore checking each part alone, with one run. Their fairness is that of the
parts, except that `MCWakes` assumes less for the leases.

Definitions named `Wrong...` are plausible bugs. No specification uses them; substituting one for the
definition below it must break the property it is there for, which shows that the property depends on the code.

## 3. What is checked

| Run | Question | Answer: the properties | Bounds, and why they suffice |
|---|---|---|---|
| `scope_store` | Are the lists of the store consistent under every interleaving, and does it implement the ledger? | `ScopesAreKept` (one home, one scope per delivery, nothing its loader rejects, bounded handouts, lost only from a full parking lot), `ClaimsAreFenced`, `ImplementsLedger` | two scopes, with or without the one delivery, three attempts, a pending cap of one, TTL and lease of two seconds and a clock of six, so that a scope can expire, be claimed and expire again; stale clocks by one. Two scopes give every order of moves between lists, and the second one parked meets the cap |
| `ingress` | Which failures lose an event, and is that noticed? | `NothingIsSwallowed` (a record stays only for a dispatched event or after a named kind of failure; an event told to be accepted was preserved or a failure was reported), `EffectsAreCounted`; `HooksAreAccounted` | two deliveries, two sends each, two handler slots, a record cap of one so that eviction happens, and a state file that may fail at every access; two reconciliations of two repositories, three hooks (a doubled one and another), two changes of a topic, one failing call |
| `plane_outage` | Is every accepted webhook worked off or parked, whatever fails? | `NobodyWaitsForever`, `SafetyNetUnlessParked` | one event, an outage, one restart, the safety tick, two attempts; no backoff, so the timer is idle here |
| `plane_restart` | Without the safety tick, can a scope be left in the queue with nothing to wake for it? | `TimerIsSound`, `StrandedOnlyByCoalescing` | two events with different backoffs, two timer threads (the current one and one superseded), failing reads of the timer, one restart |
| `wakes` | Is the lease file right, is nothing replayed and nothing forgotten? Is a completion projected? | `FileIsSound`, `RecordedNeverReplayed`, `AcceptedTriggerIsServed`; `ReplaysAreBounded`, `CompletionIsProjected` | three triggers (one superseding, one superseded twice), two restarts, one busy retry; one card that is completed twice, unboundedly many webhook passes, one fault of any kind. A second fault does defeat the safety wake, see section 5 |
| `edge_rework` | Can a command open two rounds, a live worker lose its card, or an unfinished round be shown as ready? | `OneRoundPerCommand`, `WorkerKeepsClaim`, `CompletionIsEarned`, `RoundStartsAtEdge` | two label commands (a second round over the leftovers of the first), two heads (the requested one and one push), a breaker at two failures, any GitHub call or spawn failing, a kill at any step |
| `edge_repair` | Do the passes that keep coming repair every false DONE and dispatch every reserved card? | `DoneIsRepaired`, `ReservedIsDispatched` | one label and one comment (older or newer than a completion), hence up to two rounds of either kind, merges, an Issue that loses `agent-ready`, an untrusted label, a breaker at the first failure; GitHub answers. The second try before the breaker is in `edge_rework` |
| `edge_lanes` | Is the maintainer heard exactly once, the hold shown, a card finished only for a merge or for an Issue that a trusted actor completed? Is a graph closed as a whole and never over a worker or a hold? | `OneResumePerAnswer`, `DoneIsEarned`, `MaintainerIsHeard`, `HoldIsShown`; `GraphIsRespected`, `StaleGraphConverges` | two pull requests of one branch, one answer, one fault; two heads, two rounds, one fault, a parent linked late or unlinked |
| `intake_worker` | Does a checkout keep the operator's work and reach the newest commit? Is a scope acknowledged only when it was served, and every eligible Issue imported? | `OperatorWorkKept`, `GoodHasTarget`, `SoundCheckoutCatchesUp`; `AckedWhenServed`, `EligibleImported` | one push and two acts of the operator, crashes or failures, two processes on the checkout; two repositories, one of them new, one process, two events, one fault |
| `board_pass` | Do two dispatchers respect the slots, and use them? Are alerts neither lost nor a storm? | `GateHolds`, `CardsGetSlots`; `AlertsAreSound`, `IncidentIsTold` | one card on each of two boards, the core and one edge pass, one slot, two runs per card, one fault, one edit of the profiles; one board, a wake and a manual run, three changes, one fault, one overlap |
| `boards` | Does the cutover of a board keep every imported Issue known? Is the search ledger sound and never stuck? | `CutoverIsSound`, `OnlyTraceKept`; `LedgerIsSound`, `OpenSearchCanClose` | two Issues (one carried and one being carried), two archives, one reopened card (closed again before or after the second scan), a crash anywhere; two sessions, two searches with an odd and an even budget, two keys of each kind |
| `done_regresses` | A comment of the code, expected to be violated: section 5 | `DoneStaysDone` | two pull requests, one fault |

Only `intake_worker`, `scope_store` and the plane runs check for deadlock as well. The other systems really stop: all bounded
triggers are settled, all bounded sends are done, a merged card is left alone.

Each module states a type invariant (`TypeOK`, `TimerTypeOK`, `PlaneTypeOK`, `IngressTypeOK`). It holds on the instances above
when it is added to the INVARIANTS of the configuration. Those of `ScopeStore`, `LeaseController`, `Checkout`, `IntakeRun`, `Admission`,
`EdgeHold` and `EdgeTerminal` are theorems; the proofs about the other modules carry types of their own, which follow records
field by field and leave out what TLC needs to be finite.

### Fairness

Safety needs none.

- `IntakePlane` and `LeaseController`: threads are scheduled (weak fairness of each thread), the clock runs, the safety tick
  comes back (it is a loop over a timed wait), a run ends (the actuator kills a child at its timeout) and an outage is
  repaired one day. `_TRIGGER_LOCK` is taken under strong fairness: with Python's unfair lock a thread that always
  loses is possible in principle, but each holder ends and triggers are finite.
- `CompletionWake`: each process goes on when it can, somebody gets a free lock, and the dispatcher ticks. A waiting child is
  not assumed to get the lock before its deadline, nor to reach its deadline.
- `EdgeRework`, `EdgeHold`, `EdgeTerminal`: passes keep coming and end. The intake actuator, the completion plugins and
  the hourly tick all start them, one at a time under the single flight, and a pass is a bounded program.
- `Checkout`, `IntakeRun`, `Alerts`: wakes recur (the hourly sweep) and get the lock one day (strong fairness; the holder is
  killed at its timeout), a run goes on once it began, a lease of a scope runs out. A scope other than the sweep is not assumed
  to be claimed. `EligibleImported` holds on that alone.
- `Admission`: the core looks at its boards, claims are not refused for ever by locks that are always free again (strong
  fairness: both locks are taken without waiting), and workers end.

Nothing is assumed of maintainers, operators or GitHub. No fairness says that a webhook arrives, that a router restarts or
that a call succeeds.

## 4. What is proved

Every theorem below is about the specification a run checks (`Spec`, or that of the instance in the MC module), for every value
of the constants that the named ASSUMEs admit. TLC evaluates those on every run. Each is a safety property, so it holds with and
without fairness. Each proof has the same outline: an inductive invariant, which TLC checked on the run's instance first, one
lemma per action (or per family of actions that change the same thing), and the theorem, which puts them together.

| Property | Theorem | The inductive invariant, and why the property needs it |
|---|---|---|
| `ScopesAreKept`, `ClaimsAreFenced` | `StoreKeepsScopes`, `StoreFencesClaims` | `IInv`: see below |
| `ImplementsLedger` | `StoreImplementsLedger` | the same: see below |
| `FileIsSound`, `RecordedNeverReplayed` | `LeaseFileIsSound`, `RecordedRunsOnce` | `LeaseInv`: a thread past its report is settled, the file is pending exactly for a lease that is not (what a restart resumes), an accepted pause is in the file until its lease ends, nothing is known of a trigger to come |
| `ReplaysAreBounded` | `ReplaysBounded` | `WakeInv`: a replay is counted before it is made, so the count covers the one under way as well; an event whose card was projected has no replays to its name, which is why its count may be forgotten; what a tick has listed are events |
| `TimerIsSound` | `TimerCoversQueue` | `PlaneInv`: each queued scope is covered; see below |
| `NothingIsSwallowed`, `EffectsAreCounted` | `IngressSwallowsNothing`, `IngressCountsEffects` | `IngressInv`: an attempt under way still has its record unless it was evicted, where a handler is tells what it has done, and every scope is paid for by a failure, by the attempt under way or, while the delivery is recorded, by the attempt that was accepted |
| `HooksAreAccounted` | `HooksFollowRecord` | `HookInv`: what others recorded since a thread read the record is loose, a thread that is alone leaves each repository it has visited as it will record it, and a repository no thread has touched is as it is recorded. The last two together cover the moment of the save |
| `GoodHasTarget`, `OperatorWorkKept` | `CheckoutsReachTarget`, `CheckoutsKeepWork` | `CheckoutInv`: what an attempt validated stays true until it settles, because no step moves the branch back |
| `AckedWhenServed` | `AcksAreEarned` | `RunInv`: a repository of the scope whose Issue is eligible is still in hand (on the list of the phase the run is in), or dealt with: it has a card, or is on record as permanently failed or as failed; only a run with nothing failed acknowledges |
| `WorkerKeepsClaim`, `OneRoundPerCommand`, `RoundStartsAtEdge`, `CompletionIsEarned` | `WorkersKeepTheirClaim`, `CommandsOpenOneRound`, `RoundsStartAtTheEdge`, `CompletionsAreEarned` | `Inv`, one part per question: what the rest of a plan may still write to a card somebody owns (`ClaimInv`), that a command a pass has read is newer than every round (`RoundsInv`), that a round nobody has claimed lies with the reserved assignee (`StartInv`), that a label or event to come is covered by an attested head of this round (`EarnedInv`) |
| `OneResumePerAnswer`, `DoneIsEarned` | `AnswersResumeOnce`, `FinishedIsEarned` | `HoldInv`: the answer a pass is about to use was not consumed, what a pass read of a pull request is final, and a decision to finish has its ground (a merge that counts, or the completed Issue) before it is applied |
| `GraphIsRespected` | `EdgeRespectsGraph` | `GraphInv`: owned cards are running ones, and the head read together with the merge is the merged one. The rest is in the guards of the transactions, which the proof goes through one by one |
| `GateHolds` | `GateKeepsCapacity` | `GateInv`: a claim that waits for its worker is on record and is one attempt's; the resource lock has one holder; whoever was let through has a slot that is still free. Both cardinalities are of finite sets because `Cards` is finite |
| `AlertsAreSound` | `AlertsKeepSound` | `AlertsInv`: besides that a recorded key was told, the balance `TellsArePaid`: the times a generation was told, the senders about to tell it, and one more if it may be told again (no file and no process carries it, or a process that does not will rewrite the file), are at most one plus the losses and overlaps |
| `LedgerIsSound` | `CreationLedgerIsSound` | `CreationInv`: candidates of a search differ in id and key, what a hook let through is on the ledger before the card exists |
| `OpenSearchCanClose` | `SearchesCanClose` | `SearchesAreFunded`: see below |
| `CutoverIsSound`, `OnlyTraceKept` | `CutoverKeepsIssues`, `CutoverKeepsTraces` | `CutoverInv`: what the evidence says of a legacy board that has left, what each phase of a stage has seen to when it is there (`StageIsReady`), what a rollback has still to come across (`PurgeCoversRows`). An anchor is owed for an imported Issue unless its card was open when the carry read the keys: from that read on the closed cards are on the list (`todo`) or carried, and what the first and the second scan agree on is not enough to say more. A crash may stop a stage anywhere, so each phase's conjunct must follow from evidence and boards alone when the stage is run again |

Further theorems state no property of a run by itself: the parts of the store's invariant, `TimerNeverWedges` and
`PlaneKeepsLedger`, all described below, and type invariants. Those of the store (`TypeCorrect`) and the leases
(`LeasesKeepOrder`) follow from the invariants above; five others say more than types, and needed more to be inductive.

| Theorem | What it says | What makes it inductive |
|---|---|---|
| `BoardsKeepShape` (`Admission`) | a running card has exactly one open run and any other card none, that run is its last, no card has more than `MaxRuns` | `HistoryInv`: whatever the core has chosen has a profile and a run left (`CoreMayClaim`), and each card's history is as the theorem says (`Chronicle`) |
| `CheckoutsTakeTurns` (`Checkout`) | a process is at work exactly while it holds the lock, and neither what it has read nor what it aims at is ahead of the default branch | `CheckoutInv`, and `LockInv`: steps of a process go through the lock (`UsesLock`) and the others leave it alone |
| `RunsKeepShape` (`IntakeRun`) | a run acknowledges only with nothing failed, holds only the claim of a scope, and has one whenever it comes to a transition | the part of each phase of a run's record |
| `HoldsAreSound` (`EdgeHold`) | the marker names only answers older than its edit, no answer is consumed that was not given, what is on record as finished was finished by a merge or by a trusted actor's completion of the Issue | `MarkerFits` (what a pass is about to write fits as well) and `DecisionFits`: a done is preserved only if the card is still the done one that was read |
| `GraphsKeepShape` (`EdgeTerminal`) | a linked parent was recorded, only a running card is owned, the newest round is a counted one and has a head | `EventsFit`: what a pass has proven, it has proven of cards of the graph |

**The store.** Invariants one by one are not inductive. `BoundedHandouts` needs that the claims handed out so far are exactly
the attempts an item has used up, plus one while it is claimed; that needs `SingleHome`; `LeaseIsExclusive` needs that no scope
with a running claim is in the queue. `GoodStore` states all of these of any three lists, so that recovery is one lemma
(recovered lists are good if the stored ones are) and every operation starts from recovered lists. Items are typed and sound as
one predicate because recovery drops what is unsound: an inductive invariant that did not say `Sound` could not say that
nothing is lost. The parts `ScopesHaveOneHome`, `NoItemRejected`, `DeliveriesAreUnique`, `HandoutsAreBounded`,
`NothingLostBelowCap`, `LeasesAreExclusive` and `StaleWorkersRetireNothing` are theorems of their own.

**The timer.** `TimerIsSound` speaks of quiet moments only, when all that will wake a run is one sleeping thread. What makes
them sound is what holds in between: `QueueIsCovered` says of every queued scope that a run is at work (its answer is followed by
a reading of the queue), or somebody is about to read the queue, or a run is to come and a scope is due for it, or the current thread
sleeps no longer than this scope has to wait, or somebody is about to schedule such a sleep for a time at which a scope that is still
queued is due. Each step hands this on. That a reading covers every scope needs the earliest time to be that of a scope in the queue
(`QueueIsPlaces`, `EarliestIs`); that a hint is never scheduled behind a thread that is awake needs a thread that woke to be the current
one with a deadline that has come (`AwakeIsCurrent`), so that every later hint is coalesced, which is what `missed` records. The theorem
assumes `CallsWork` (no outages, no waits that run out), as `plane_restart` does, and needs both halves. With outages a wake may
fail, and only the safety tick comes back to the scope. Where waits run out the property is false, see section 5. The first
half of the property needs none of that: `TimerNeverWedges` proves `DeadlineHasThread` of every plane, outages included.

**The refinement.** `StoreImplementsLedger` shows that the initial states of the store map to those of `ScopeLedger` and that
every operation maps to one of its steps, which may settle any number of scopes (what recovery did) before it moves one. The lemmas follow that order.
In good lists the entry of a scope is determined by the list it is in (`EntryIs`), so it can be read off the lists recovery
leaves (`Recovered`); there each scope either has the entry it had or has been settled as the ledger allows, one try dearer or
parked (`RecoverySettles`); and an operation on recovered lists moves the entry of one scope and of no other (`EnqueueSteps`,
`ClaimSteps`, `AckSteps`, `RetrySteps`, `ParkSteps`).

`PlaneKeepsLedger` shows the same of the plane: handlers, wakes, runs, outages, waits and leases that run out, dead runs and restarts
move an event only as `ScopeLedger` allows. The plane does not keep what the ledger counts, so the theorem adds a history variable
(`CountsGrants`: one more grant for a scope whenever a run claims it). `LedgerInv` says what the mapping needs: the queue and the places agree,
a scope whose wait or lease is over is still queued or claimed, and a run at work holds a claim that has not run out. Recovery in front of an
operation is one step of the ledger that settles every overdue scope (`Settle`). The scope of the safety tick is left out because the
tick enqueues it anew; the ledger's scopes end once.

**The search ledger.** `OpenSearchCanClose` compares a budget with what all candidates of a search have reserved. `SearchesAreFunded`
says what is on record: a search is opened once, together with a candidate, under a budget its calls may declare; each candidate
has its share of the budget and one retry; at most one selector waits for B. The sum needs no induction, because the only search
that needs room for a candidate has exactly one: `SumOfOne` computes the fold over one element by exhibiting its fixed point. The
odd budgets stay excepted, as in the property.

**Assumptions.** `StoreAssumption` is what the configuration must satisfy and the code does not check: a TTL longer than any
backoff and than the wait for the lock. The shipped values satisfy it. `CreationAssumption` has two keys of each kind, because idempotency keys are
free strings of the caller: with one key a second candidate could have none. `TerminalAssumption` bounds rounds by at least one, the
round a graph begins with. The others say that constants have their kinds (numbers, Booleans, distinct markers), and that what a count ranges over is finite: the cards of the gate, the Issues of a board, the
processes that send alerts. No theorem bounds the number of deliveries, handlers, repositories, answers, pull requests or restarts.

**Without induction over data.** Six steps would be inductions. That a set of numbers has a least element comes from the well-founded order on
the naturals (`LeastExists`); what dropping one record does to the list of records, or a claim to the queue, is stated position by position
(`RemoveAtProperties`); the recovery of several claims is one set of stores given by the order in which they join the queue (`Recovered` of both modules; `Rejoined`
of the plane is a set of orders rather than a fold over the claims); a sum over candidates is needed for one candidate only;
cardinalities change by one at a time, with the library's facts on finite sets; and the balance of the alerts counts senders
rather than summing over them.

**Only model-checked.**

Every safety property that a passing run checks is a theorem. The rest is:

- Every liveness property (`NobodyWaitsForever`, `SafetyNetUnlessParked`, `AcceptedTriggerIsServed`, `CompletionIsProjected`,
  `DoneIsRepaired`, `ReservedIsDispatched`, `MaintainerIsHeard`, `HoldIsShown`, `StaleGraphConverges`, `EligibleImported`,
  `SoundCheckoutCatchesUp`, `CardsGetSlots`, `IncidentIsTold`) and `StrandedOnlyByCoalescing`: liveness is out of the prover's reach.

## 5. Where code and documentation part

`done_regresses` shows it for a comment: "Authoritative done never regresses to review on weak subsequent lookups"
(`edge/kanban-github-sync.py`, `sync_board`). It does when the card was finished after a supersession.

The statements below are in the modules too. TLC finds each of them violated with the instance given; they are no runs.

| Property | Statement | What the code does | Instance |
|---|---|---|---|
| `IntakePlane!SafetyNetRecovers` | docs/GITHUB_EVENT_CONCURRENCY.md:9-11 | the safety tick (router_entrypoint.py:435) skips its wake while its own scope is pending, and pending scopes never leave that list by themselves; after `SCOPE_MAX_ATTEMPTS` failures the full runs end for good | `Threads <- TwoThreads, MaxDelay = 1, Events <- OneEvent, MaxAttempts = 2, Backoff <- OneBackoff, Chains <- OneHandler, MaxWakes = 1, MaxReboots = 0`, `Outages, Ticking, WaitsLong` true, `RunsFail` false |
| `IntakePlane!BackoffIsHonoured` | docs/GITHUB_EVENT_CONCURRENCY.md:115-118 | a hint coalesced into a timer thread that has already read the queue is lost (router_entrypoint.py:183). `StrandedOnlyByCoalescing` shows that nothing else strands a scope while calls work | that of `plane_restart` |
| `RouterIngress!RecordedIsPreserved` | docs/GITHUB_EVENT_CONCURRENCY.md:226-227 | some failures leave the delivery record behind (router.py:893); `RecordedUnlessStruck` shows which | that of `ingress` |
| `HookReconcile!HooksFollowTopics` | docs/OPERATIONS.md:434-437 | a run that fails after it created a hook records nothing (router.py:1170), so once the topic is removed no later run deletes that hook; two runs at once do the same | that of `ingress` |
| `EdgeRework!DeferredRequestProceeds` | docs/EDGE_REWORK_LIFECYCLE.md:257, the comment at kanban-github-sync.py:7470 | a request deferred behind a running worker is a conflict no pass resolves once the worker blocks its card (:7562) | `FairSpec, MaxLabels = 2, MaxComments = 0, MaxHead = 2, FailureLimit = 2, Happens = {}` |
| `EdgeRework!RetryPostdatesCompletion` | the comment at kanban-github-sync.py:7572-7576 "the comment must postdate the provisional completion", and the docstring at :7008 | the rows `sync_board` selects have no `completed_at` (:8954-8957), so the baselines at :7020 and :7068 are never raised to it: an unconsumed comment that is newer than the round and older than the completion opens a round | `Spec`, the constants of `edge_repair` |
| `Checkout!PermanentNeedsOperator` | docs/GITHUB_EVENT_CONCURRENCY.md:109-110 | transient states are given permanent codes (intake:1399, 1418, 2207), so the scope is acknowledged | `Procs = {wake}, MaxTip = 1, MaxTouches = 1` |
| `IntakeRun!SweepIsolates` | docs/REPOSITORY_REGISTRY.md:90-92 | one dirty checkout without a board ends every sweep, and the sweep is acknowledged (intake:3219, 4537, 4719) | `FairSpec`, two repositories, one process, two events, no fault |
| `BoardMigration!RollbackRestoresLegacy` | docs/BOARD_IDENTITY_MIGRATION.md:89 "Reversible and repeat-safe" | a migrate repeated after the transition overwrites the evidence (board_identity_migration.py:939); rollback then removes the canonical board and restores nothing | two Issues, `MaxArchives = 2, MaxReopens = 0` |
| `BoardMigration!HandoffCatchesWriters` | the comment at board_identity_migration.py:1176-1178 "the second scan also catches an out-of-band writer" | the second scan compares counts, provenance and open cards with the first (:1197-1209), not the keys that were carried: a card reopened before the carry reads them and closed again before the second scan is archived without an anchor | that of `boards` |
| `EdgeTerminal!ParkedIsRepaired` | the comment at kanban-github-sync.py:9010, docs/EDGE_REWORK_LIFECYCLE.md | a parked root with a pending parent it cannot explain is left in review | that of `edge_lanes` |
| `Admission!NoReworkBeyondCapacity` | docs/EDGE_WORKER_RESOURCE_ADMISSION.md:162 | the edge asks for the reserved assignee, which matches no resource (kanban_resource_admission.py:634) | that of `board_pass` |

Passing properties show more limits that the documentation does not mention.

- *Store and ingress.* `LostOnlyAtCap` allows, and the code does, the eviction of the oldest parked scope at
  `SCOPE_MAX_PENDING` (docs/GITHUB_EVENT_CONCURRENCY.md:103-105 says "never silently dropped"). `SecondScopeNeedsFailure`
  allows a redelivery after a failed wake to make a second scope once the first was worked off, where lines 156-158 expect
  it to be reused.
- *Timer.* `TimerIsSound` fails when waits run out. A run is woken for a scope that is due; before it claims, the wait of that scope
  (`SCOPE_TTL_SECONDS`) runs out, and the recovery in front of the claim parks it. The run finds nothing and ends without an acknowledgement or a
  requeue, so nobody reads the queue for the next deadline, and a scope that is due earlier than the sleeping thread wakes waits for that thread.
  Instance: that of `plane_restart` with `WaitsLong`, `Ticking` true, `MaxReboots = 0`, `MaxAttempts = 3`. The delay is bounded by the sleep
  that is under way.
- *Completion.* `CompletionIsProjected` holds with one fault only. With two, a worker's second child that expires behind a
  replay that then fails is gone, the gateway has both its replays behind it, and the card stays done until a webhook or
  the hourly tick brings another pass. "At most two replay attempts per completion event per process"
  (docs/GITHUB_COMPLETION_DISPATCH_SAFETY_WAKE.md) is true between two projections of a card only: once it was projected
  its events are forgotten, and an old event is replayed again when the card completes anew within the lookback.
- *Checkout.* A commit the operator makes on a detached head between the self-heal's reads and its switch is left without
  a branch. A crash during a clone leaves its sibling directory. A worker's fetch moves the shared tracking ref in the middle of a heal.
- *Intake run.* Labels of closed Issues are cleared from a listing that may be stale. A run that races with the creation of a board
  by another sees it as existing. An acknowledgement whose answer is lost is refused as a requeue.
- *Alerts.* `AlertsAreBounded` counts the writes of overlapping runs because the file has no lock; a stale write can also
  suppress a board's next lock incident. One-shot dispatch failures are lost when the run raises or the send fails.
- *Admission.* `GateHolds` excludes a profile that was pointed elsewhere while its worker runs, and an edge pass killed between
  spawn and PID leaves a worker nobody counts. A claim stays with the gate when the database read at the workspace gate fails
  (kanban_workspace_admission.py:358), although its docstring says that no claim leaks past it.
- *Search.* An odd `max_total_tokens` never admits a second candidate, so a search opened with B under an odd budget cannot be
  closed; `OpenSearchCanClose` excepts it. A ledger entry whose hook dies before its card exists is refused under another key.
- *Hooks.* Two reconciliations at once may leave two hooks, or a recorded repository without one, until the next one alone.
- *Migration.* `RouteKnowsImported` speaks of runs that read the registry now: a route resolved before the cutover is
  not fenced by the lease. Moves of cards by workers and the edge do not take it either: a card that was closed in
  both scans of a transition and open when the carry read the keys (`_carry_anchors`, line 663) leaves with the legacy
  board without an anchor. The history variable `missed` names those Issues, and `RouteKnowsImported` (for the
  canonical route) and `PostcheckIsSound` except them; `OnlyTraceKept` holds of them too, because the archive keeps
  their cards.
- *Hold.* Editing the hold's comment moves its time past an answer posted after the comments were read, and the label is put back from the
  stale read: that answer is not heard. `AnswerWaits` therefore speaks of answers younger than the marker only.
- *Terminal convergence.* An Issue may be reopened between the read and the transaction; removing a link leaves the recorded
  parents, so that graph does not converge.

## 6. Plan

Done since the first plan: the observer and single flight, the intake run with checkouts and alerts, admission, migration, the
search ledger, the rest of a card's lanes outside rework. Next:

1. Proofs: the type invariants of the modules not named in section 3; the action properties of the statements in section 5 that
   hold with the exceptions named there.
2. The edge's specialist graph, changes requested by an internal review, and several cards on one board: what one failing GitHub call
   does to the other cards.
3. Questions about `EdgeRework`: whether a second round on the same head, opened by a comment, gets its own delivery event; whether the
   deduplication of attention events, which looks at the diagnostic and not at the round, hides the hold of a later round; what a
   card left READY with `agent-working` waits for.

## 7. Not modelled

- The protocol loop guard: what it does rests on `block_task`, `promote_task` and the reclaiming of workers in the Hermes core, whose code
  is not in the repository. A model of it would be a model of guesses.
- What the router checks of an event before it dispatches it (is its repository in `managed_repositories`, does the App installation match):
  `RouterIngress` begins with events that pass.
- The rules of the guards on block kinds and on the text of a specialist's completion: decision functions over prose.
- Health probes, diagnostics and the failure limit of admission; drafts and PR-side evidence of completion; failures of SQLite; ties of timestamps.
- The overview dashboard (read-only), deployment and rendering scripts (file copies by an operator), HTTP and JSON validation,
  authentication, logging. n8n itself and the Hermes core appear only as the callers and callees that the code in `src/` assumes.
- Bounds that no instance reaches: the size cap of the state file, 512 tracked completions, 64 events per tick, the eviction of deliveries
  beyond the instance with one record.

## Running

`tlc -config MCScopeStore.cfg MCScopeStore` and so on, `tlapm ScopeStoreProofs.tla` and so on for each of the proof modules. `PROJECT.json` lists the runs,
the mutants, the source lines of every definition, the hazards and the theorems.
