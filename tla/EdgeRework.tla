----------------------------- MODULE EdgeRework -----------------------------
(***************************************************************************)
(* The rework lifecycle of one GitHub-backed card with one linked pull     *)
(* request: sync_board of kanban-github-sync.py with the overlays of its   *)
(* entrypoint.  A pass of the edge (single flight) reads the card and      *)
(* GitHub, picks one plan, writes the card, reads the labels of the pull   *)
(* request and patches them, records the event that goes last, and then    *)
(* runs the dispatch lane: claim, label swap, spawn.  Each of these is an  *)
(* action, so that maintainers, workers, the core dispatcher, a failed     *)
(* GitHub call or the end of the process can come between any two.         *)
(*                                                                         *)
(* The code orders its evidence by timestamps.  Here "recent" orders the   *)
(* newest instance of each kind of evidence: recent[e] holds the kinds on  *)
(* record that are not newer than e, which itself is one of them once it   *)
(* is on record.  There are no ties.                                       *)
(***************************************************************************)
EXTENDS Naturals, Sequences, FiniteSets

CONSTANTS
    MaxLabels,    \* bound of the model: additions of the agent-rework label
    MaxComments,  \* bound of the model: AGENT_REWORK_RETRY comments
    MaxHead,      \* bound of the model: heads of the pull request
    FailureLimit, \* kanban.failure_limit
    Happens       \* which of these happen: "github", "spawn", "kill", "issue", "merge", "stranger"

ASSUME EdgeAssumption ==
    /\ MaxLabels \in Nat /\ MaxComments \in Nat /\ MaxHead \in Nat
    /\ FailureLimit \in Nat \ {0}
    /\ Happens \subseteq {"github", "spawn", "kill", "issue", "merge", "stranger"}

\* agent-rework, agent-working and agent-review-ready
Lifecycle == {"rework", "working", "ready"}

NoHead == 0

VARIABLES
    card,      \* the row of tasks: status, assignee, owner of the claim, failures
    rounds,    \* the github_pr_rework events: command and requested head of each
    event,     \* kind of the latest rework event
    governing, \* kind of the newest status-affecting event: those the lane looks for, or other
    runs,      \* the newest run the edge claimed, the newest other run since the event
    attention, \* the diagnostics of the github_pr_rework_attention events
    delivery,  \* round and head of the newest github_pr_rework_delivery event
    parking,   \* the command the newest DONE -> REVIEW event is bound to
    marker,    \* round and head of the newest AGENT_REWORK_COMPLETE comment
    pull,      \* the pull request: state, head, whether its Issue is agent-ready
    labels,    \* its lifecycle labels
    command,   \* the newest addition of agent-rework
    comments,  \* how many AGENT_REWORK_RETRY comments there are
    recent,    \* order of the evidence
    pass       \* the pass of the edge

vars == <<card, rounds, event, governing, runs, attention, delivery, parking, marker, pull,
          labels, command, comments, recent, pass>>

store == <<card, rounds, event, governing, runs, attention, delivery, parking>>
github == <<marker, pull, labels, command, comments>>

Card(status, assignee, claim, failures) ==
    [status |-> status, assignee |-> assignee, claim |-> claim, failures |-> failures]

Run(round, state, head, spawned) ==
    [round |-> round, state |-> state, head |-> head, spawned |-> spawned]
NoRun == Run(0, "none", NoHead, FALSE)

\* A plan: what it writes first, the labels it adds and removes, what it writes last,
\* and whether it goes on when the first write finds the card moved on.
Plan(db, add, remove, last, insists) ==
    [db |-> db, add |-> add, remove |-> remove, last |-> last, insists |-> insists]
Nothing == Plan("none", {}, {}, "none", FALSE)

NoPass == [pc |-> "idle", status |-> "none", plan |-> Nothing, why |-> "none",
           head |-> 0, by |-> 0, busy |-> FALSE, desired |-> {}]

Goto(pc) == pass' = [pass EXCEPT !.pc = pc, !.desired = IF pc = "check" THEN @ ELSE {}]

Round == Len(rounds)
Requested == rounds[Round].head
Retried == rounds[Round].trigger = "comment"

Kinds == {"command", "comment", "event", "origin", "attention", "delivery", "parking", "completion"}

OnRecord(e) == e \in recent[e]
Newer(e, f) == OnRecord(e) /\ e \notin recent[f]

Stamped(order, e) ==
    [f \in Kinds |-> IF f = e THEN {g \in Kinds : g \in order[g]} \union {e} ELSE order[f] \ {e}]
Stamp(e) == recent' = Stamped(recent, e)

\* A completion is compared with an earlier comment only, and by what the code says of it alone:
\* no decision looks at it (RetryPostdatesCompletion).
StampCompletion == IF OnRecord("comment") THEN Stamp("completion") ELSE UNCHANGED recent

\* The card leaves DONE: its completed_at is cleared.
Uncompleted == [f \in Kinds |-> IF f = "completion" THEN {} ELSE recent[f] \ {"completion"}]
Reopen(e) == recent' = Stamped(Uncompleted, e)

Init ==
    /\ card = Card("review", "none", "none", 0)
    /\ rounds = <<>> /\ event = "none" /\ governing = "other"
    /\ runs = [edge |-> NoRun, core |-> NoRun]
    /\ attention = {} /\ delivery = [round |-> 0, head |-> NoHead] /\ parking = 0
    /\ marker = [round |-> 0, head |-> NoHead]
    /\ pull = [state |-> "open", head |-> 1, ready |-> TRUE]
    /\ labels = {} /\ command = [id |-> 0, trusted |-> FALSE] /\ comments = 0
    /\ recent = [e \in Kinds |-> {}]
    /\ pass = NoPass

-----------------------------------------------------------------------------
(* What a pass reads                                                        *)

Open == pull.state = "open"
Active(status) == status = "running" /\ card.claim # "none"

\* Wrong on purpose: a command counts as fresh again after its round.
WrongFreshCommand == Open /\ "rework" \in labels /\ command.id > 0 /\ command.trusted /\ pull.ready

\* evaluate_rework: a trusted command newer than the round, for an Issue that is ready.
FreshCommand ==
    /\ Open /\ "rework" \in labels
    /\ command.id > 0 /\ command.trusted
    /\ Newer("command", "event")
    /\ pull.ready

\* _find_rework_retry_signal: newer than the event and any attention record.  The baseline of a
\* completion is never applied: the rows sync_board selects have no completed_at.
FreshComment == Newer("comment", "event") /\ Newer("comment", "attention")

\* _current_rework_attention_at
Held == Newer("attention", "event")

\* _edge_owned_completion_marker, in the order of its refusals.
MarkerRefusal(posted) ==
    IF runs.edge.state = "review_requested" THEN "review_requested"
    ELSE IF ~pull.ready THEN "issue_not_agent_ready"
    ELSE IF runs.edge.head = NoHead THEN "handoff_missing"
    ELSE IF runs.edge.head # pull.head THEN "head_mismatch"
    ELSE IF Requested = pull.head /\ ~Retried THEN "head_unchanged"
    ELSE IF ~posted THEN "post_failed"
    ELSE "none"

Marked == marker = [round |-> Round, head |-> pull.head]

\* _rework_delivery_evidence, with the origin of a recovery retry (_round_origin_event)
\* and without a specialist graph.
Evidence(posted) ==
    IF Newer("command", "origin") THEN "superseded"
    ELSE IF runs.edge.round # Round \/ runs.edge.state = "open" THEN "run_missing"
    ELSE IF runs.edge.state \notin {"completed", "blocked", "review_requested"} THEN "run_failed"
    ELSE IF ~Marked /\ MarkerRefusal(posted) # "none" THEN MarkerRefusal(posted)
    ELSE IF runs.edge.head \notin {NoHead, pull.head} THEN "head_mismatch"
    ELSE IF Requested = pull.head /\ ~(Retried /\ runs.edge.head # NoHead) THEN "head_unchanged"
    ELSE "delivered"

\* _task_run_after_rework, or else _untrusted_task_run_after_rework
RunOfEvent == IF event = "rework" /\ runs.edge.round = Round THEN runs.edge ELSE runs.core

\* _rework_human_attention
NeedsHuman(why) ==
    \/ RunOfEvent.state = "review_requested"
    \/ /\ why \in {"run_missing", "handoff_missing", "issue_not_agent_ready",
                   "review_requested", "post_failed"}
       /\ ~(why = "run_missing" /\ RunOfEvent.state \in {"crashed", "reclaimed"})

\* Wrong on purpose: the delivery may be the one of an earlier round.
WrongCurrentDelivery == OnRecord("delivery")

\* _current_round_delivery
CurrentDelivery ==
    /\ Newer("delivery", "event") /\ delivery.round = Round
    /\ delivery.head = Requested => Retried

\* _normalize_stale_review_ready
StaleReady ==
    /\ OnRecord("delivery") \/ OnRecord("parking")
    /\ OnRecord("command")
    /\ Newer("command", "delivery")
    /\ Newer("command", "parking") \/ parking = command.id

-----------------------------------------------------------------------------
(* What a pass decides                                                      *)

\* The paths of sync_board for a card without a rework round, or handed back to them.
Classic(status) ==
    IF status = "review" /\ FreshCommand THEN Plan("rework", {}, {}, "none", TRUE)
    ELSE IF ~Open THEN Plan("finish", {}, {}, "none", TRUE)
    ELSE Plan("repair", {}, {}, "none", TRUE)

\* _reconcile_blocked
Blocked ==
    IF ~Open THEN Plan("close", {}, {}, "none", TRUE)
    ELSE IF FreshCommand THEN Plan("rework", {}, {}, "none", TRUE)
    ELSE IF "rework" \in labels /\ command.trusted /\ ~Newer("command", "event") THEN Nothing
    ELSE Plan("reopen", {}, {}, "none", TRUE)

\* Wrong on purpose: a retry leaves agent-working where it is.
WrongRetry == Plan("retry", {}, {"rework"}, "none", TRUE)

Retry == Plan("retry", {}, Lifecycle, "none", TRUE)
ShowWorking == Plan("none", {"working"}, {"rework", "ready"}, "none", FALSE)
ShowReady(db, last, insists) == Plan(db, {"ready"}, {"rework", "working"}, last, insists)
ClearLabels(db, last) == Plan(db, {}, Lifecycle, last, FALSE)

Conflict(status) ==
    /\ Cardinality(labels) > 1
    /\ ~(status = "done" /\ Open /\ {"rework", "ready"} \subseteq labels)

\* Wrong on purpose: a DONE card waits in the lane for a comment.
WrongRetryLane(status) ==
    Open /\ "working" \notin labels /\ (status = "done" \/ (status = "review" /\ Held))

\* The lane of an explicit retry: a held REVIEW card, or a DONE card with a comment.
RetryLane(status) ==
    /\ Open /\ "working" \notin labels
    /\ \/ status = "done" /\ FreshComment
       \/ status = "review" /\ Held

\* A label that a newer command outdates.
OutdatedReady(status) == status \in {"review", "ready"} /\ labels = {"rework", "ready"} /\ StaleReady

\* More than one lifecycle label: a worker defers them, and only a false DONE is repaired.
ConflictPlan(status) ==
    IF status = "done" /\ Open /\ ~("working" \in labels /\ Active(status))
    THEN Plan(IF FreshCommand /\ Newer("command", "delivery") THEN "recover" ELSE "repair",
              {}, {"working", "ready"}, "none", TRUE)
    ELSE Nothing

\* A newer comment opens a round if the Issue is still ready.
CommentPlan == IF pull.ready THEN Retry ELSE Nothing

\* A card the retry lane holds.
HeldPlan(status, evidence) ==
    IF FreshComment THEN CommentPlan
    ELSE IF "rework" \in labels /\ Newer("command", "event") /\ command.trusted THEN Classic(status)
    ELSE IF "rework" \in labels /\ evidence = "delivered"
         THEN ShowReady("none", IF delivery.head = pull.head THEN "none" ELSE "delivered", FALSE)
    ELSE Nothing

\* A blocked card: a newer command or comment, a delivery, or a human.
BlockedPlan(evidence) ==
    IF ~Open \/ Newer("command", "event") THEN Blocked
    ELSE IF FreshComment THEN CommentPlan
    ELSE IF evidence = "delivered" THEN ShowReady("deliver", "none", TRUE)
    ELSE ClearLabels("none", "attention")

\* The classic paths own the card: it waits for its worker, or a command, a merge or a close
\* asks for them.
ClassicOwns(status) ==
    \/ ~Open \/ status = "ready"
    \/ "rework" \in labels /\ (status = "review" \/ (status = "done" /\ Newer("command", "event")))

\* Labels left behind are taken away first.
ClassicPlan(status) ==
    IF status = "done" /\ Newer("command", "event") /\ {"rework", "working"} \subseteq labels
    THEN Plan("none", {}, {"working", "ready"}, "none", FALSE)
    ELSE Classic(status)

\* The round is delivered.
DeliveredPlan(status) ==
    IF delivery.head = pull.head
    THEN ShowReady(IF status = "done" THEN "repair" ELSE "none", "none", FALSE)
    ELSE ShowReady(IF status = "running" THEN "deliver" ELSE "repair", "delivered", FALSE)

\* The round is not delivered and nobody works on it.
UndeliveredPlan(status, evidence) ==
    IF status = "review" THEN Nothing
    ELSE IF NeedsHuman(evidence)
         THEN ClearLabels(IF status = "done" THEN "repair" ELSE "none", "attention")
    ELSE ClearLabels("none", "requeue")

\* _reconcile_rework_lifecycle, with the recovery its overlay adds to a held REVIEW card: one
\* ladder of early returns.
Reconciled(status, evidence) ==
    IF OutdatedReady(status) THEN Plan("none", {}, {"ready"}, "again", FALSE)
    ELSE IF Conflict(status) THEN ConflictPlan(status)
    ELSE IF RetryLane(status) THEN HeldPlan(status, evidence)
    ELSE IF status = "blocked" THEN BlockedPlan(evidence)
    ELSE IF ~Open /\ labels # {} THEN ClearLabels("none", "finish")
    ELSE IF Active(status) THEN IF CurrentDelivery THEN ShowReady("none", "none", FALSE) ELSE ShowWorking
    ELSE IF ClassicOwns(status) THEN ClassicPlan(status)
    ELSE IF evidence = "delivered" THEN DeliveredPlan(status)
    ELSE UndeliveredPlan(status, evidence)

Decided(status, evidence) ==
    IF Round > 0 THEN Reconciled(status, evidence)
    ELSE IF status = "blocked" THEN Blocked ELSE Classic(status)

AfterWrite(plan) == IF plan.add \union plan.remove # {} THEN "get" ELSE "lane"

\* The evidence is complete but for the marker, which the edge posts if the plan then
\* depends on it.
MarkerIsDue(status) ==
    /\ Round > 0 /\ Evidence(TRUE) # Evidence(FALSE)
    /\ Reconciled(status, Evidence(TRUE)) # Reconciled(status, Evidence(FALSE))

\* What the pass may find: of a marker it posts, also a failed answer.
Found(status) ==
    IF Round = 0 THEN {"none"}
    ELSE {Evidence(posted) : posted \in {TRUE} \union
            {answer \in {FALSE} : "github" \in Happens /\ MarkerIsDue(status)}}

\* The pass reads the card and GitHub and settles on a plan.  After a failed answer the
\* marker may or may not be there.
Decide(status, busy) ==
    \E evidence \in Found(status) : \E plan \in {Decided(status, evidence)} :
        /\ pass' = [pc |-> IF plan.db = "none" THEN AfterWrite(plan) ELSE "write",
                    status |-> IF plan.last = "again" \/ plan.db = "deliver" THEN status ELSE "none",
                    plan |-> plan,
                    why |-> IF plan.last = "attention" THEN evidence ELSE "none",
                    head |-> IF plan.db \in {"rework", "retry", "deliver"} \/ plan.last = "delivered"
                             THEN pull.head ELSE NoHead,
                    by |-> CASE plan.db = "retry" -> comments
                             [] plan.db \in {"rework", "recover"} -> command.id
                             [] OTHER -> 0,
                    busy |-> busy, desired |-> {}]
        /\ \/ MarkerIsDue(status) /\ marker' = [round |-> Round, head |-> pull.head]
           \/ ~(MarkerIsDue(status) /\ evidence = "delivered") /\ UNCHANGED marker
        /\ UNCHANGED <<store, pull, labels, command, comments, recent>>

\* _edge_single_flight: a pass begins when none is under way; a process that dies has let the
\* lock go.
SingleFlight == pass.pc = "idle"

Read == SingleFlight /\ Decide(card.status, "working" \in labels)

\* After the removal of a stale agent-review-ready, with the labels read afresh.
ReadAgain == pass.pc = "again" /\ Decide(pass.status, pass.busy)

-----------------------------------------------------------------------------
(* What a pass writes to the card                                           *)

Moves(status, assignee) ==
    card' = [card EXCEPT !.status = status, !.assignee = assignee, !.claim = "none"]

\* Wrong on purpose: the card of a new round is not reserved for the edge.
WrongOpenRound(trigger) ==
    /\ rounds' = Append(rounds, [trigger |-> trigger, id |-> pass.by, head |-> pass.head])
    /\ card' = Card("ready", "none", "none", IF trigger = "comment" THEN 0 ELSE card.failures)
    /\ event' = "rework" /\ governing' = "rework"
    /\ runs' = [runs EXCEPT !.core = NoRun]
    /\ recent' = Stamped(Stamped(Uncompleted, "origin"), "event")
    /\ UNCHANGED <<attention, delivery, parking>>

\* apply_rework
OpenRound(trigger) ==
    /\ rounds' = Append(rounds, [trigger |-> trigger, id |-> pass.by, head |-> pass.head])
    /\ card' = Card("ready", "reserved", "none", IF trigger = "comment" THEN 0 ELSE card.failures)
    /\ event' = "rework" /\ governing' = "rework"
    /\ runs' = [runs EXCEPT !.core = NoRun]
    /\ recent' = Stamped(Stamped(Uncompleted, "origin"), "event")
    /\ UNCHANGED <<attention, delivery, parking>>

\* apply_decision towards REVIEW
Park(by) ==
    /\ Moves("review", "none")
    /\ governing' = "other"
    /\ IF card.status = "done" THEN parking' = by /\ Reopen("parking")
                               ELSE UNCHANGED <<parking, recent>>
    /\ UNCHANGED <<rounds, event, runs, attention, delivery>>

\* apply_decision towards DONE
Finish ==
    /\ Moves("done", card.assignee)
    /\ governing' = "other"
    /\ StampCompletion
    /\ UNCHANGED <<rounds, event, runs, attention, delivery, parking>>

RecordDelivery ==
    /\ delivery' = [round |-> Round, head |-> pass.head]
    /\ Stamp("delivery")

\* _delivery_review_transition
Deliver ==
    /\ Moves("review", "none")
    /\ RecordDelivery
    /\ UNCHANGED <<rounds, event, governing, runs, attention, parking>>

\* Wrong on purpose: the writes do not look at the live status.
WrongSources(db) == {"ready", "running", "review", "blocked", "done"}

\* The live status each write asks for.
Sources(db) ==
    CASE db \in {"rework", "retry"} -> {"review", "blocked", "done"}
      [] db \in {"repair", "recover"} -> {"done"}
      [] db = "reopen" -> {"done", "blocked"}
      [] db = "close" -> {"review", "blocked"}
      [] db = "finish" -> {"review"}
      [] db = "deliver" -> {pass.status}

Apply(db) ==
    \/ db = "rework" /\ OpenRound("label")
    \/ db = "retry" /\ OpenRound("comment")
    \/ db \in {"repair", "reopen"} /\ Park(0)
    \/ db = "recover" /\ Park(pass.by)
    \/ db \in {"close", "finish"} /\ Finish
    \/ db = "deliver" /\ Deliver

\* The first write of the plan.  If the card has moved on, the plan ends or goes on without it.
Write ==
    /\ pass.pc = "write"
    /\ LET moved == card.status \notin Sources(pass.plan.db)
       IN /\ IF moved THEN UNCHANGED <<store, recent>> ELSE Apply(pass.plan.db)
          /\ Goto(IF moved /\ pass.plan.insists THEN "lane" ELSE AfterWrite(pass.plan))
    /\ UNCHANGED github

-----------------------------------------------------------------------------
(* What a pass writes to the pull request: _project_pr_lifecycle_labels     *)

\* Where a plan goes on once its labels are dealt with.
Proceed ==
    CASE pass.plan.last = "none" -> Goto("lane")
      [] pass.plan.last \in {"again", "spawn"} -> Goto(pass.plan.last)
      [] pass.plan.last = "released" -> pass' = NoPass
      [] OTHER -> Goto("last")

\* What is left to do after a failed projection.  Of the failed claims only those with a
\* trustworthy difference of the labels are retried.
Failed(retryable) ==
    CASE pass.plan.last = "spawn" ->
            pass' = [pass EXCEPT !.pc = "reclaim",
                                 !.plan = ClearLabels("none", IF retryable THEN "unprojected"
                                                                           ELSE "released")]
      [] pass.plan.last \in {"released", "unprojected"} -> Proceed
      [] OTHER -> Goto("lane")

GetLabels ==
    /\ pass.pc = "get"
    /\ \/ LET desired == (labels \ pass.plan.remove) \union pass.plan.add
          IN IF desired = labels THEN Proceed
             ELSE pass' = [pass EXCEPT !.pc = "patch", !.desired = desired]
       \/ "github" \in Happens /\ Failed(FALSE)
    /\ UNCHANGED <<store, github, recent>>

PatchLabels ==
    /\ pass.pc = "patch"
    /\ \/ labels' = pass.desired /\ Goto("check")
       \/ "github" \in Happens /\ UNCHANGED labels /\ Failed(TRUE)
       \/ "github" \in Happens /\ labels' = pass.desired /\ Failed(FALSE)
    /\ UNCHANGED <<store, marker, pull, command, comments, recent>>

CheckLabels ==
    /\ pass.pc = "check"
    /\ \/ labels = pass.desired /\ Proceed
       \/ labels # pass.desired /\ Failed(TRUE)
       \/ "github" \in Happens /\ Failed(FALSE)
    /\ UNCHANGED <<store, github, recent>>

-----------------------------------------------------------------------------
(* What a pass writes last                                                  *)

\* _record_rework_attention, which looks for the diagnostic and not for the round
Attend ==
    /\ pass.plan.last = "attention"
    /\ attention' = attention \union {pass.why}
    /\ IF pass.why \in attention THEN UNCHANGED recent ELSE Stamp("attention")
    /\ Goto("lane")
    /\ UNCHANGED <<card, rounds, event, governing, runs, delivery, parking>>

\* _record_task_failure: the breaker blocks the card that has failed too often.
AfterFailure(assignee) ==
    IF card.failures + 1 >= FailureLimit
    THEN Card("blocked", assignee, "none", FailureLimit)
    ELSE Card("ready", assignee, "none", card.failures + 1)

\* _requeue_rework_task
Requeue ==
    /\ pass.plan.last = "requeue"
    /\ card' = AfterFailure("none")
    /\ event' = "retry" /\ governing' = "other"
    /\ runs' = [runs EXCEPT !.core = NoRun]
    /\ Reopen("event")
    /\ Goto("lane")
    /\ UNCHANGED <<rounds, attention, delivery, parking>>

RecordDelivered ==
    /\ pass.plan.last = "delivered"
    /\ RecordDelivery
    /\ Goto("lane")
    /\ UNCHANGED <<card, rounds, event, governing, runs, attention, parking>>

FinishCleaned ==
    /\ pass.plan.last = "finish"
    /\ IF card.status = "review" THEN Finish ELSE UNCHANGED <<store, recent>>
    /\ Goto("lane")

\* _append_claim_projection_failure_event
RecordUnprojected ==
    /\ pass.plan.last = "unprojected"
    /\ governing' = "projection_failure"
    /\ pass' = NoPass
    /\ UNCHANGED <<card, rounds, event, runs, attention, delivery, parking, recent>>

Last ==
    /\ pass.pc = "last"
    /\ \/ Attend \/ Requeue \/ RecordDelivered \/ FinishCleaned \/ RecordUnprojected
    /\ UNCHANGED github

-----------------------------------------------------------------------------
(* The dispatch lane: _dispatch_pending_rework_locked                       *)

Pending ==
    /\ card.status = "ready" /\ card.claim = "none"
    /\ governing \in {"rework", "projection_failure"}

\* agent-working, as the lane knows it: from the context, which a new round rebuilds.
Busy == IF pass.plan.db \in {"rework", "retry"} THEN "working" \in labels ELSE pass.busy

Claim ==
    /\ pass.pc = "lane"
    /\ Pending /\ ~Busy
    /\ card' = [card EXCEPT !.status = "running", !.assignee = "worker", !.claim = "edge"]
    /\ runs' = [runs EXCEPT !.edge = Run(Round, "open", NoHead, FALSE)]
    /\ pass' = [NoPass EXCEPT !.pc = "get",
                              !.plan = Plan("none", {"working"}, {"rework", "ready"}, "spawn", FALSE)]
    /\ UNCHANGED <<rounds, event, governing, attention, delivery, parking, github, recent>>

SkipLane ==
    /\ pass.pc = "lane"
    /\ ~Pending \/ Busy
    /\ pass' = NoPass
    /\ UNCHANGED <<store, github, recent>>

\* The claim whose labels could not be shown is given up and the card reserved again.
Reclaim ==
    /\ pass.pc = "reclaim"
    /\ Moves("ready", "reserved")
    /\ runs' = [runs EXCEPT !.edge.state = "reclaimed"]
    /\ governing' = "other"
    /\ Goto("get")
    /\ UNCHANGED <<rounds, event, attention, delivery, parking, github, recent>>

Spawn ==
    /\ pass.pc = "spawn"
    /\ \/ /\ runs' = [runs EXCEPT !.edge.spawned = TRUE]
          /\ pass' = NoPass
          /\ UNCHANGED card
       \/ /\ "spawn" \in Happens
          /\ runs' = [runs EXCEPT !.edge.state = "spawn_failed"]
          /\ card' = LET after == AfterFailure(card.assignee)
                     IN [after EXCEPT !.assignee = IF after.status = "ready" THEN "reserved" ELSE @]
          /\ pass' = [pass EXCEPT !.pc = "get", !.plan = ClearLabels("none", "released")]
    /\ UNCHANGED <<rounds, event, governing, attention, delivery, parking, github, recent>>

\* The process of the pass ends: a timeout of the controller, a restart of the host.
Kill ==
    /\ "kill" \in Happens /\ pass.pc # "idle"
    /\ pass' = NoPass
    /\ UNCHANGED <<store, github, recent>>

Edge == Read \/ ReadAgain \/ Write \/ GetLabels \/ PatchLabels \/ CheckLabels \/ Last
        \/ Claim \/ SkipLane \/ Reclaim \/ Spawn

-----------------------------------------------------------------------------
(* The world around the edge                                                *)

\* The core dispatcher: a ready card that is not reserved, a card in review.
CoreClaim ==
    /\ card.claim = "none"
    /\ card.status = "review" \/ (card.status = "ready" /\ card.assignee # "reserved")
    /\ card' = [card EXCEPT !.status = "running", !.assignee = "worker", !.claim = "core"]
    /\ runs' = [runs EXCEPT !.core = Run(Round, "open", NoHead, TRUE)]
    /\ UNCHANGED <<rounds, event, governing, attention, delivery, parking, github, recent, pass>>

\* A worker runs: the one of the edge from its spawn, the one of the core from its claim.
Working(who) == card.status = "running" /\ card.claim = who /\ runs[who].spawned

\* The worker ends its run, attesting the head it sees or none.
WorkerEnds(who, outcome, head) ==
    /\ Working(who)
    /\ runs' = [runs EXCEPT ![who].state = outcome, ![who].head = IF who = "edge" THEN head ELSE NoHead]
    /\ card' = [card EXCEPT !.status = IF outcome = "blocked" THEN "blocked" ELSE "done",
                            !.claim = "none"]
    /\ governing' = "other"
    /\ IF outcome = "blocked" THEN UNCHANGED recent ELSE StampCompletion
    /\ UNCHANGED <<rounds, event, attention, delivery, parking, github, pass>>

\* The worker is lost: the core ends its run and releases the claim. The card it leaves
\* behind is running without a claim, as in the edge's tests, or ready again.
WorkerLost(who) ==
    /\ Working(who)
    /\ runs' = [runs EXCEPT ![who].state = "crashed"]
    /\ \E status \in {"running", "ready"} :
          card' = [card EXCEPT !.status = status, !.claim = "none"]
    /\ UNCHANGED <<rounds, event, governing, attention, delivery, parking, github, recent, pass>>

\* The core takes back a claim of the edge that never came to a worker.
ClaimExpires ==
    /\ card.claim = "edge" /\ ~runs.edge.spawned /\ pass.pc = "idle"
    /\ Moves("ready", card.assignee)
    /\ runs' = [runs EXCEPT !.edge.state = "reclaimed"]
    /\ governing' = "other"
    /\ UNCHANGED <<rounds, event, attention, delivery, parking, github, recent, pass>>

Push ==
    /\ Open /\ pull.head < MaxHead
    /\ pull' = [pull EXCEPT !.head = @ + 1]
    /\ UNCHANGED <<store, marker, labels, command, comments, recent, pass>>

Merge ==
    /\ "merge" \in Happens /\ Open
    /\ pull' = [pull EXCEPT !.state = "merged"]
    /\ UNCHANGED <<store, marker, labels, command, comments, recent, pass>>

\* The Issue loses agent-ready, once and for good. Of a merged pull request nothing asks.
IssueNotReady ==
    /\ "issue" \in Happens /\ pull.ready /\ Open
    /\ pull' = [pull EXCEPT !.ready = FALSE]
    /\ UNCHANGED <<store, marker, labels, command, comments, recent, pass>>

LabelRework(trusted) ==
    /\ "rework" \notin labels /\ command.id < MaxLabels
    /\ labels' = labels \union {"rework"}
    /\ command' = [id |-> command.id + 1, trusted |-> trusted]
    /\ Stamp("command")
    /\ UNCHANGED <<store, marker, pull, comments, pass>>

CommentRetry ==
    /\ comments < MaxComments
    /\ comments' = comments + 1
    /\ Stamp("comment")
    /\ UNCHANGED <<store, marker, pull, labels, command, pass>>

\* An operator moves the card by hand.
Operator(from, to) ==
    /\ card.status = from
    /\ Moves(to, card.assignee)
    /\ governing' = "other"
    /\ UNCHANGED <<rounds, event, runs, attention, delivery, parking, github, recent, pass>>

World ==
    \/ CoreClaim \/ ClaimExpires \/ Push \/ Merge \/ IssueNotReady \/ CommentRetry
    \/ \E who \in {"edge", "core"} :
          \/ WorkerLost(who)
          \/ \E outcome \in {"completed", "blocked", "review_requested"}, head \in {NoHead, pull.head} :
                WorkerEnds(who, outcome, head)
    \/ LabelRework(TRUE) \/ ("stranger" \in Happens /\ LabelRework(FALSE))
    \/ \E to \in {"review", "ready"} : Operator("blocked", to)

Next == Edge \/ Kill \/ World

Spec == Init /\ [][Next]_vars
FairSpec == Spec /\ WF_vars(Edge)

-----------------------------------------------------------------------------
(* Properties                                                               *)

\* Every variable keeps its type, a claim is held only by a running card, and nothing on
\* record is of a later round than the rounds there are.
TypeOK ==
    /\ card \in [status: {"ready", "running", "review", "blocked", "done"},
                  assignee: {"none", "reserved", "worker"}, claim: {"none", "edge", "core"},
                  failures: 0..FailureLimit]
    /\ card.claim # "none" => card.status = "running"
    /\ \A n \in 1..Round : rounds[n].trigger \in {"label", "comment"} /\ rounds[n].head \in 1..MaxHead
    /\ labels \subseteq Lifecycle /\ pass.desired \subseteq Lifecycle
    /\ runs.edge.round <= Round /\ delivery.round <= Round /\ marker.round <= Round

\* A label command or a retry comment opens at most one round, whatever passes are cut
\* short, whatever labels stay behind and however late the card is looked at again.
OneRoundPerCommand ==
    \A n, m \in 1..Round :
        n # m => <<rounds[n].trigger, rounds[n].id>> # <<rounds[m].trigger, rounds[m].id>>

\* A worker that runs has not ended: its card is running and the claim is its own, whatever
\* the edge decided from an older reading of the card.
WorkerKeepsClaim ==
    \A who \in {"edge", "core"} :
        runs[who].state = "open" /\ runs[who].spawned => card.status = "running" /\ card.claim = who

\* agent-review-ready appears only for a round whose own edge-claimed run has ended and whose
\* completion marker was posted, and a delivery is recorded for the round, and at the head, of
\* the marker.
CompletionIsEarned ==
    [][ /\ "ready" \in labels' /\ "ready" \notin labels
          => /\ runs.edge.round = Round
             /\ runs.edge.state \in {"completed", "blocked", "review_requested"}
             /\ marker.round = Round
        /\ delivery' # delivery => marker = delivery' ]_vars

\* The first worker of a round is the one the edge claims: the core does not take the card
\* before.
RoundStartsAtEdge ==
    [][card.status = "ready" /\ card'.claim = "core" /\ event = "rework"
         => runs.edge.round = Round]_vars

\* A card does not stay DONE while its pull request is open and its Issue is agent-ready.
FalseTerminal == card.status = "done" /\ Open /\ pull.ready
DoneIsRepaired == FalseTerminal ~> ~FalseTerminal

\* A card the edge has reserved does not stay in the queue of its dispatch lane.
ReservedIsDispatched ==
    card.status = "ready" /\ card.assignee = "reserved" /\ governing \in {"rework", "projection_failure"}
        ~> card.status # "ready"

\* What the comment at the deferral of a second request says: once the run of the worker
\* has ended, its agent-working goes and the request proceeds.
Deferred ==
    /\ Open /\ pull.ready
    /\ {"rework", "working"} \subseteq labels /\ command.trusted
    /\ card.status \in {"blocked", "done"}
DeferredRequestProceeds == Deferred ~> ~Deferred

\* What the comment at the retry of a DONE card says (kanban-github-sync.py:7572-7576): "the
\* comment must postdate the provisional completion (enforced by the baseline in
\* _consume_explicit_rework_retry)".  It need not: an older comment, newer than the round,
\* opens one too.
RetryPostdatesCompletion ==
    [][Read /\ card.status = "done" /\ pass'.plan.db = "retry" => Newer("comment", "completion")]_vars

=============================================================================
