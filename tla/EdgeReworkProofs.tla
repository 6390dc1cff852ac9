-------------------------- MODULE EdgeReworkProofs --------------------------
(***************************************************************************)
(* Proofs about EdgeRework, for every bound and every failure the model    *)
(* admits: a worker keeps its claim, a command or a retry comment opens    *)
(* one round, the edge starts it, and what is shown as ready was earned.   *)
(***************************************************************************)
EXTENDS EdgeRework, TLAPS

Status == {"ready", "running", "review", "blocked", "done"}
RunState == {"none", "open", "reclaimed", "spawn_failed", "crashed",
             "completed", "blocked", "review_requested"}
Ended == {"completed", "blocked", "review_requested"}
AskedFor == {"rework", "projection_failure"}
Projecting == {"get", "patch", "check"}

CardRow == [status: Status, assignee: {"none", "reserved", "worker"},
            claim: {"none", "edge", "core"}, failures: Nat]
RoundRow == [trigger: {"label", "comment"}, id: Nat, head: Nat]
RunRow == [round: Nat, state: RunState, head: Nat, spawned: BOOLEAN]
PlanRow == [db: {"none", "rework", "retry", "repair", "recover", "reopen", "close", "finish", "deliver"},
            add: SUBSET Lifecycle, remove: SUBSET Lifecycle,
            last: {"none", "again", "spawn", "released", "unprojected",
                   "attention", "delivered", "finish", "requeue"},
            insists: BOOLEAN]
Findings == {"none", "superseded", "run_missing", "run_failed", "review_requested",
             "issue_not_agent_ready", "handoff_missing", "head_mismatch", "head_unchanged",
             "post_failed", "delivered"}
PassRow == [pc: {"idle", "write", "get", "patch", "check", "last", "again", "lane", "spawn", "reclaim"},
            status: Status \union {"none"}, plan: PlanRow,
            why: Findings,
            head: Nat, by: Nat, busy: BOOLEAN, desired: SUBSET Lifecycle]
HeadRow == [round: Nat, head: Nat]

Types ==
    /\ card \in CardRow
    /\ rounds \in Seq(RoundRow)
    /\ runs \in [edge: RunRow, core: RunRow]
    /\ delivery \in HeadRow /\ marker \in HeadRow
    /\ pull \in [state: {"open", "merged"}, head: Nat, ready: BOOLEAN]
    /\ labels \in SUBSET Lifecycle
    /\ command \in [id: Nat, trusted: BOOLEAN] /\ comments \in Nat
    /\ recent \in [Kinds -> SUBSET Kinds]
    /\ pass \in PassRow

-----------------------------------------------------------------------------
(* What a pass may still do                                                 *)

\* What a plan is, by what it writes first and last.
PlanShape(plan) ==
    /\ plan.db \in {"rework", "retry"} => plan.add = {} /\ plan.last = "none"
    /\ plan.last \in {"again", "requeue"} => plan.db = "none"
    /\ plan.last \notin {"spawn", "released", "unprojected"}

\* The pass is between the claim and the start of the worker.
Starting ==
    \/ pass.pc \in {"spawn", "reclaim"}
    \/ pass.pc \in Projecting /\ pass.plan.last = "spawn"

\* A worker keeps its claim, and so does the pass that claims for one; the writes of a pass
\* that take a card from its owner still find one nobody owns.
ClaimInv ==
    /\ WorkerKeepsClaim
    /\ card.claim # "none" => card.status = "running"
    /\ card.claim = "edge" => runs.edge.state = "open" /\ runs.edge.round = Round
    /\ pass.pc = "write" /\ pass.plan.db = "deliver"
         => \/ pass.status = "blocked"
            \/ pass.status = "running" /\ card.status = "running" /\ card.claim = "none"
    /\ pass.pc \in Projecting \union {"last"} /\ pass.plan.last = "requeue"
         => card.status \in {"done", "running"} /\ card.claim = "none"
    /\ Starting => card.claim = "edge" /\ ~runs.edge.spawned
    /\ pass.pc = "again" \/ (pass.pc \in Projecting /\ pass.plan.last = "again")
         => pass.status \in {"review", "ready"}
    /\ pass.pc = "write" => PlanShape(pass.plan) /\ pass.plan.db # "none"
    /\ pass.pc = "reclaim" => pass.plan.last \in {"unprojected", "released"} /\ pass.plan.add = {}

\* The rounds of a trigger are older than what opens the next one.
Before(trigger, n) == \A k \in 1..Round : rounds[k].trigger = trigger => rounds[k].id < n

RoundsInv ==
    /\ OneRoundPerCommand
    /\ Before("label", command.id + 1) /\ Before("comment", comments + 1)
    /\ Newer("command", "event") => Before("label", command.id)
    /\ Newer("comment", "event") => Before("comment", comments)
    /\ pass.pc = "write" /\ pass.plan.db = "rework" => Before("label", pass.by) /\ pass.by <= command.id
    /\ pass.pc = "write" /\ pass.plan.db = "retry" => Before("comment", pass.by) /\ pass.by <= comments

\* A round nobody has claimed is the edge's.
StartInv ==
    event = "rework" /\ runs.edge.round # Round
        => card.status = "ready" /\ card.assignee = "reserved" /\ card.claim = "none"

Earned ==
    /\ runs.edge.round = Round /\ runs.edge.state \in Ended
    /\ marker.round = Round

Delivered == Newer("delivery", "event") /\ delivery.round = Round

UnderWay == pass.pc \in Projecting \union {"write", "last"}

EarnedInv ==
    /\ runs.edge.round <= Round /\ delivery.round <= Round
    /\ runs.edge.round = Round /\ runs.edge.state \in Ended => governing \notin AskedFor
    /\ Delivered => Earned
    /\ UnderWay /\ "ready" \in pass.plan.add => Earned
    /\ pass.pc = "patch" /\ "ready" \in pass.desired => "ready" \in labels \union pass.plan.add
    /\ (pass.pc = "write" /\ pass.plan.db = "deliver") \/ (UnderWay /\ pass.plan.last = "delivered")
         => Earned /\ marker = [round |-> Round, head |-> pass.head]
    /\ UnderWay /\ pass.plan.last = "unprojected" => runs.edge.state = "reclaimed"

Inv == Types /\ ClaimInv /\ RoundsInv /\ StartInv /\ EarnedInv

-----------------------------------------------------------------------------
(* The order of the evidence                                                *)

\* A stamp makes one kind the newest and keeps the order of the others.
LEMMA StampedIs ==
    ASSUME NEW order \in [Kinds -> SUBSET Kinds], NEW e \in Kinds
    PROVE  /\ Stamped(order, e) \in [Kinds -> SUBSET Kinds]
           /\ \A f \in Kinds \ {e} : Stamped(order, e)[f] = order[f] \ {e}
           /\ \A f \in Kinds : f \in order[f] => f \in Stamped(order, e)[e]
    BY DEF Stamped

\* Once a kind is stamped nothing older is newer than it, and of the others none has become
\* newer than another.
LEMMA StampKeepsOrder ==
    ASSUME recent \in [Kinds -> SUBSET Kinds], NEW e \in Kinds, Stamp(e)
    PROVE  /\ recent' \in [Kinds -> SUBSET Kinds]
           /\ \A f, g \in Kinds \ {e} : Newer(f, g)' => Newer(f, g)
           /\ \A f \in Kinds \ {e} : ~Newer(f, e)'
    BY StampedIs DEF Stamp, Newer, OnRecord

\* The completion of a card that leaves DONE is no longer on record.
LEMMA UncompletedIs ==
    ASSUME recent \in [Kinds -> SUBSET Kinds]
    PROVE  /\ Uncompleted \in [Kinds -> SUBSET Kinds]
           /\ \A f \in Kinds \ {"completion"} : Uncompleted[f] = recent[f] \ {"completion"}
    BY DEF Uncompleted

\* The same for a stamp at a reopening.
LEMMA ReopenKeepsOrder ==
    ASSUME recent \in [Kinds -> SUBSET Kinds], NEW e \in Kinds \ {"completion"}, Reopen(e)
    PROVE  /\ recent' \in [Kinds -> SUBSET Kinds]
           /\ \A f, g \in Kinds \ {e, "completion"} : Newer(f, g)' => Newer(f, g)
           /\ \A f \in Kinds \ {e, "completion"} : ~Newer(f, e)'
    BY UncompletedIs, StampedIs DEF Reopen, Newer, OnRecord

\* Nothing is newer than the event of a round just opened.
LEMMA RoundIsNewest ==
    ASSUME recent \in [Kinds -> SUBSET Kinds],
           recent' = Stamped(Stamped(Uncompleted, "origin"), "event")
    PROVE  /\ recent' \in [Kinds -> SUBSET Kinds]
           /\ \A f \in Kinds \ {"event", "origin", "completion"} : ~Newer(f, "event")'
<1>1. Uncompleted \in [Kinds -> SUBSET Kinds]
    BY UncompletedIs
<1>2. "origin" \in Kinds /\ "event" \in Kinds
    BY DEF Kinds
<1>3. Stamped(Uncompleted, "origin") \in [Kinds -> SUBSET Kinds]
    BY <1>1, <1>2, StampedIs
<1>4. recent' \in [Kinds -> SUBSET Kinds]
    BY <1>2, <1>3, StampedIs
<1>5. ASSUME NEW f \in Kinds \ {"event", "origin", "completion"}
      PROVE  ~Newer(f, "event")'
    <2>1. /\ recent'[f] = Stamped(Uncompleted, "origin")[f] \ {"event"}
          /\ f \in Stamped(Uncompleted, "origin")[f] => f \in recent'["event"]
        BY <1>2, <1>3, StampedIs
    <2> QED BY <2>1 DEF Newer, OnRecord
<1> QED BY <1>4, <1>5
-----------------------------------------------------------------------------
(* What a pass decides                                                      *)

\* What the plan for a card of that status says of the card, of the command or comment it
\* takes up and of the evidence it rests on.
PlanFits(plan, status, evidence) ==
    /\ plan \in PlanRow
    /\ PlanShape(plan)
    /\ plan.last = "requeue" => status = "done" \/ (status = "running" /\ card.claim = "none")
    /\ plan.last = "again" => status \in {"review", "ready"}
    /\ plan.db = "deliver" => status = "blocked" \/ (status = "running" /\ card.claim = "none")
    /\ plan.db = "rework" => FreshCommand
    /\ plan.db = "retry" => FreshComment
    /\ plan.db = "deliver" \/ plan.last = "delivered" => evidence = "delivered"
    /\ "ready" \in plan.add => evidence = "delivered" \/ CurrentDelivery

\* The plans of the classic paths and of a blocked card open a round for a fresh command
\* only, and show nothing as ready.
LEMMA ClassicFits ==
    ASSUME NEW status \in Status, NEW evidence \in Findings
    PROVE  PlanFits(Classic(status), status, evidence) /\ PlanFits(Blocked, status, evidence)
    BY DEF PlanFits, PlanShape, PlanRow, Classic, Blocked, Plan, Nothing, Status, Findings, Lifecycle

\* Every plan of the lifecycle fits.
LEMMA ReconciledFits ==
    ASSUME NEW status \in Status, NEW evidence \in Findings
    PROVE  PlanFits(Reconciled(status, evidence), status, evidence)
<1>1. PlanFits(Nothing, status, evidence)
    BY DEF PlanFits, PlanShape, PlanRow, Plan, Nothing, Lifecycle
<1>2. FreshComment => PlanFits(CommentPlan, status, evidence)
    BY <1>1 DEF PlanFits, PlanShape, PlanRow, CommentPlan, Retry, Plan, Lifecycle
<1>3. PlanFits(ConflictPlan(status), status, evidence)
    BY <1>1 DEF PlanFits, PlanShape, PlanRow, ConflictPlan, Plan, Lifecycle
<1>4. PlanFits(HeldPlan(status, evidence), status, evidence)
    BY <1>1, <1>2, ClassicFits
    DEF HeldPlan, PlanFits, PlanShape, PlanRow, ShowReady, Plan, Lifecycle
<1>5. status = "blocked" => PlanFits(BlockedPlan(evidence), status, evidence)
    BY <1>2, ClassicFits
    DEF BlockedPlan, PlanFits, PlanShape, PlanRow, ShowReady, ClearLabels, Plan, Lifecycle
<1>6. PlanFits(ClearLabels("none", "finish"), status, evidence)
    BY DEF PlanFits, PlanShape, PlanRow, ClearLabels, Plan, Lifecycle
<1>7. /\ CurrentDelivery => PlanFits(ShowReady("none", "none", FALSE), status, evidence)
      /\ PlanFits(ShowWorking, status, evidence)
    BY DEF PlanFits, PlanShape, PlanRow, ShowReady, ShowWorking, Plan, Lifecycle
<1>8. PlanFits(ClassicPlan(status), status, evidence)
    BY ClassicFits DEF ClassicPlan, PlanFits, PlanShape, PlanRow, Plan, Lifecycle
<1>9. evidence = "delivered" /\ ~Active(status) => PlanFits(DeliveredPlan(status), status, evidence)
    BY DEF DeliveredPlan, Active, PlanFits, PlanShape, PlanRow, ShowReady, Plan, Lifecycle
<1>10. status \notin {"blocked", "ready"} /\ ~Active(status)
         => PlanFits(UndeliveredPlan(status, evidence), status, evidence)
    BY <1>1 DEF UndeliveredPlan, Active, PlanFits, PlanShape, PlanRow, ClearLabels, Plan, Status, Lifecycle
<1>11. OutdatedReady(status)
         => PlanFits(Plan("none", {}, {"ready"}, "again", FALSE), status, evidence)
    BY DEF OutdatedReady, PlanFits, PlanShape, PlanRow, Plan, Lifecycle
<1> QED
    BY <1>1, <1>3, <1>4, <1>5, <1>6, <1>7, <1>8, <1>9, <1>10, <1>11 DEF Reconciled, ClassicOwns

\* So does the plan a pass decides on; without a round there is no delivery to show.
LEMMA DecidedFits ==
    ASSUME NEW status \in Status, NEW evidence \in Findings
    PROVE  /\ PlanFits(Decided(status, evidence), status, evidence)
           /\ Round = 0 => Decided(status, evidence).add = {} /\ Decided(status, evidence).last = "none"
                           /\ Decided(status, evidence).db # "deliver"
    BY ClassicFits, ReconciledFits DEF Decided, Classic, Blocked, Plan, Nothing
\* The evidence is complete only for a run of the round that has ended, and with the marker
\* on record or about to be posted.
LEMMA EvidenceIs ==
    ASSUME NEW posted \in BOOLEAN
    PROVE  /\ Evidence(posted) \in Findings
           /\ Evidence(posted) = "delivered"
                => /\ runs.edge.round = Round /\ runs.edge.state \in Ended
                   /\ Marked \/ posted
           /\ Evidence(FALSE) = "delivered" => Marked
<1>1. ASSUME NEW answer \in BOOLEAN
      PROVE  MarkerRefusal(answer) \in Findings \ {"delivered"} /\ MarkerRefusal(FALSE) # "none"
    BY DEF MarkerRefusal, Findings
<1>2. /\ Evidence(posted) \in Findings
      /\ Evidence(FALSE) = "delivered" => Marked
    BY <1>1 DEF Evidence, Findings
<1>3. Evidence(posted) = "delivered" => Marked \/ MarkerRefusal(posted) = "none"
    BY <1>1 DEF Evidence
<1>4. MarkerRefusal(posted) = "none" => posted
    BY DEF MarkerRefusal
<1>5. Evidence(posted) = "delivered" => runs.edge.round = Round /\ runs.edge.state \in Ended
    BY <1>1 DEF Evidence, Ended
<1> QED BY <1>2, <1>3, <1>4, <1>5

\* The marker of the round is on record, for the head of the pull request.
Attested == marker' = [round |-> Round, head |-> pull.head]

\* What the pass knows once it has decided, for a card of that status.
LEMMA DecideIs ==
    ASSUME Types, NEW status \in Status, NEW busy \in BOOLEAN, Decide(status, busy)
    PROVE  /\ pass' \in PassRow /\ pass'.pc \in {"write", "get", "lane"} /\ marker' \in HeadRow
           /\ UNCHANGED <<store, pull, labels, command, comments, recent>>
           /\ marker' = marker \/ Attested
           /\ PlanShape(pass'.plan) /\ (pass'.pc = "write" => pass'.plan.db # "none")
           /\ pass'.desired = {}
           /\ pass'.plan.last = "requeue" => status = "done" \/ (status = "running" /\ card.claim = "none")
           /\ pass'.plan.last = "again" => status \in {"review", "ready"} /\ pass'.status = status
           /\ pass'.plan.db = "deliver"
                => /\ status = "blocked" \/ (status = "running" /\ card.claim = "none")
                   /\ pass'.status = status
           /\ pass'.plan.db = "rework" => FreshCommand /\ pass'.by = command.id
           /\ pass'.plan.db = "retry" => FreshComment /\ pass'.by = comments
           /\ pass'.plan.db = "deliver" \/ pass'.plan.last = "delivered"
                => /\ runs.edge.round = Round /\ runs.edge.state \in Ended
                   /\ Attested /\ pass'.head = pull.head
           /\ "ready" \in pass'.plan.add
                => Delivered \/ (runs.edge.round = Round /\ runs.edge.state \in Ended /\ Attested)
<1>1. PICK evidence, plan :
        /\ evidence \in Found(status) /\ plan = Decided(status, evidence)
        /\ pass' = [pc |-> IF plan.db = "none" THEN AfterWrite(plan) ELSE "write",
                    status |-> IF plan.last = "again" \/ plan.db = "deliver" THEN status ELSE "none",
                    plan |-> plan,
                    why |-> IF plan.last = "attention" THEN evidence ELSE "none",
                    head |-> IF plan.db \in {"rework", "retry", "deliver"} \/ plan.last = "delivered"
                             THEN pull.head ELSE NoHead,
                    by |-> CASE plan.db = "retry" -> comments
                             [] plan.db \in {"rework", "recover"} -> command.id
                             [] OTHER -> 0,
                    busy |-> busy, desired |-> {}]
        /\ \/ MarkerIsDue(status) /\ Attested
           \/ ~(MarkerIsDue(status) /\ evidence = "delivered") /\ UNCHANGED marker
    BY DEF Decide, Attested
<1>2. UNCHANGED <<store, pull, labels, command, comments, recent>>
    BY DEF Decide
<1>3. /\ evidence \in Findings
      /\ Round = 0 \/ evidence = Evidence(TRUE) \/ evidence = Evidence(FALSE)
      /\ Round = 0 => evidence = "none"
    <2>1. CASE Round = 0
        BY <1>1, <2>1 DEF Found, Findings
    <2>2. CASE Round # 0
        <3>1. PICK posted \in BOOLEAN : evidence = Evidence(posted)
            BY <1>1, <2>2 DEF Found
        <3>2. posted = TRUE \/ posted = FALSE
            BY <3>1
        <3> QED BY <2>2, <3>1, <3>2, EvidenceIs
    <2> QED BY <2>1, <2>2
<1>4. plan = Decided(status, evidence) /\ PlanFits(plan, status, evidence)
    BY <1>1, <1>3, DecidedFits
<1>5. Round = 0 => plan.add = {} /\ plan.last = "none" /\ plan.db # "deliver"
    BY <1>3, <1>4, DecidedFits
<1>6. Round \in Nat /\ pull.head \in Nat /\ command.id \in Nat /\ comments \in Nat
    BY DEF Types, Round
<1>7. plan \in PlanRow
    BY <1>4 DEF PlanFits
<1>8. pass' \in PassRow /\ pass'.pc \in {"write", "get", "lane"}
    <2>1. AfterWrite(plan) \in {"get", "lane"}
        BY DEF AfterWrite
    <2>2. PICK pc \in {"write", "get", "lane"}, was \in Status \union {"none"}, why \in Findings,
               head \in Nat, by \in Nat :
            pass' = [pc |-> pc, status |-> was, plan |-> plan, why |-> why, head |-> head, by |-> by,
                     busy |-> busy, desired |-> {}]
        <3>1. PICK pc : pc = IF plan.db = "none" THEN AfterWrite(plan) ELSE "write"
            OBVIOUS
        <3>2. PICK was : was = IF plan.last = "again" \/ plan.db = "deliver" THEN status ELSE "none"
            OBVIOUS
        <3>3. PICK why : why = IF plan.last = "attention" THEN evidence ELSE "none"
            OBVIOUS
        <3>4. PICK head : head = IF plan.db \in {"rework", "retry", "deliver"} \/ plan.last = "delivered"
                                 THEN pull.head ELSE NoHead
            OBVIOUS
        <3>5. PICK by : by = CASE plan.db = "retry" -> comments
                               [] plan.db \in {"rework", "recover"} -> command.id
                               [] OTHER -> 0
            OBVIOUS
        <3>6. pc \in {"write", "get", "lane"} /\ was \in Status \union {"none"} /\ why \in Findings
            BY <1>3, <2>1, <3>1, <3>2, <3>3 DEF Findings
        <3>7. head \in Nat /\ by \in Nat
            BY <1>6, <3>4, <3>5 DEF NoHead
        <3>8. pass' = [pc |-> pc, status |-> was, plan |-> plan, why |-> why, head |-> head, by |-> by,
                       busy |-> busy, desired |-> {}]
            BY <1>1, <3>1, <3>2, <3>3, <3>4, <3>5
        <3> QED BY <3>6, <3>7, <3>8
    <2> QED BY <1>7, <2>2 DEF PassRow
<1>9. marker' = marker \/ Attested
    BY <1>1
<1>10. marker' \in HeadRow
    BY <1>6, <1>9 DEF Types, HeadRow, Attested
<1>11. /\ pass'.plan = plan /\ pass'.desired = {}
       /\ pass'.pc = "write" => plan.db # "none"
       /\ plan.last = "again" \/ plan.db = "deliver" => pass'.status = status
       /\ plan.db = "rework" => pass'.by = command.id
       /\ plan.db = "retry" => pass'.by = comments
       /\ plan.db = "deliver" \/ plan.last = "delivered" => pass'.head = pull.head
    BY <1>1 DEF AfterWrite
<1>12. ASSUME evidence = "delivered",
              "ready" \in plan.add \/ plan.db = "deliver" \/ plan.last = "delivered",
              ~CurrentDelivery \/ plan.db = "deliver" \/ plan.last = "delivered"
       PROVE  runs.edge.round = Round /\ runs.edge.state \in Ended /\ Attested
    <2>1. Round # 0
        BY <1>5, <1>12
    <2>2. /\ runs.edge.round = Round /\ runs.edge.state \in Ended
          /\ Marked \/ (evidence = Evidence(TRUE) /\ Evidence(FALSE) # "delivered")
        BY <1>3, <1>12, <2>1, EvidenceIs
    <2>3. CASE Marked /\ marker' = marker
        BY <2>2, <2>3 DEF Marked, Attested
    <2>4. CASE Attested
        BY <2>2, <2>4
    <2>5. CASE ~Marked /\ ~Attested
        <3>1. evidence = Evidence(TRUE) /\ Evidence(FALSE) # "delivered" /\ Evidence(FALSE) \in Findings
            BY <2>2, <2>5, EvidenceIs
        <3>2. plan = Reconciled(status, Evidence(TRUE))
            <4>1. Round > 0
                BY <1>6, <2>1
            <4> QED BY <1>4, <4>1, <3>1 DEF Decided
        <3>3. PlanFits(Reconciled(status, Evidence(FALSE)), status, Evidence(FALSE))
            BY <3>1, ReconciledFits
        <3>4. Reconciled(status, Evidence(TRUE)) # Reconciled(status, Evidence(FALSE))
            BY <1>12, <3>1, <3>2, <3>3 DEF PlanFits
        <3>5. MarkerIsDue(status)
            <4>1. Round > 0
                BY <1>6, <2>1
            <4>2. Evidence(TRUE) # Evidence(FALSE)
                BY <1>12, <3>1
            <4> QED BY <3>4, <4>1, <4>2 DEF MarkerIsDue
        <3> QED BY <1>1, <1>12, <2>5, <3>5
    <2> QED BY <1>9, <2>3, <2>4, <2>5
<1>13. CurrentDelivery => Delivered
    BY DEF CurrentDelivery, Delivered
<1>14. /\ plan.db = "deliver" \/ plan.last = "delivered" => evidence = "delivered"
       /\ "ready" \in plan.add => evidence = "delivered" \/ CurrentDelivery
       /\ PlanShape(plan)
       /\ plan.last = "requeue" => status = "done" \/ (status = "running" /\ card.claim = "none")
       /\ plan.last = "again" => status \in {"review", "ready"}
       /\ plan.db = "deliver" => status = "blocked" \/ (status = "running" /\ card.claim = "none")
       /\ plan.db = "rework" => FreshCommand
       /\ plan.db = "retry" => FreshComment
    BY <1>4 DEF PlanFits
<1>15. plan.db = "deliver" \/ plan.last = "delivered"
         => runs.edge.round = Round /\ runs.edge.state \in Ended /\ Attested
    BY <1>12, <1>14
<1>16. "ready" \in plan.add
         => Delivered \/ (runs.edge.round = Round /\ runs.edge.state \in Ended /\ Attested)
    BY <1>12, <1>13, <1>14
<1> QED BY <1>2, <1>8, <1>9, <1>10, <1>11, <1>14, <1>15, <1>16
-----------------------------------------------------------------------------
(* How a pass moves on                                                      *)

Same ==
    /\ pass'.plan = pass.plan /\ pass'.status = pass.status
    /\ pass'.head = pass.head /\ pass'.by = pass.by

\* The pass moves on with its plan.
LEMMA GotoIs ==
    ASSUME pass \in PassRow, NEW pc \in {"write", "get", "patch", "check", "last", "again", "lane", "spawn"},
           Goto(pc)
    PROVE  pass' \in PassRow /\ pass'.pc = pc /\ Same
<1>1. PICK desired : desired = IF pc = "check" THEN pass.desired ELSE {}
    OBVIOUS
<1>2. pass' = [pass EXCEPT !.pc = pc, !.desired = desired] /\ desired \in SUBSET Lifecycle
    BY <1>1 DEF Goto, PassRow
<1> QED BY <1>2 DEF PassRow, Same

\* A pass that has dealt with its labels: it ends, goes to its lane, or on to what its plan
\* has last; if it has just claimed the card it starts the worker or gives the claim up.
GoesOn ==
    \/ pass'.pc \in {"idle", "lane"}
    \/ Same /\ pass'.pc \in {"again", "spawn"} /\ pass'.pc = pass.plan.last
    \/ Same /\ pass'.pc = "last" /\ pass.plan.last # "spawn"
    \/ /\ pass'.pc = "reclaim" /\ pass.plan.last = "spawn"
       /\ pass'.plan.last \in {"unprojected", "released"} /\ pass'.plan.add = {}

\* The end of a pass.
LEMMA NoPassIs == NoPass \in PassRow /\ NoPass.pc = "idle"
    BY DEF NoPass, PassRow, PlanRow, Nothing, Plan, Findings, Lifecycle

\* The end of a projection that succeeds, and of one that fails.
LEMMA ProceedIs ==
    ASSUME pass \in PassRow, Proceed
    PROVE  pass' \in PassRow /\ GoesOn /\ pass'.pc # "patch"
<1>1. CASE pass.plan.last = "none"
    BY <1>1, GotoIs DEF Proceed, GoesOn
<1>2. CASE pass.plan.last \in {"again", "spawn"}
    BY <1>2, GotoIs DEF Proceed, GoesOn
<1>3. CASE pass.plan.last = "released"
    BY <1>3, NoPassIs DEF Proceed, GoesOn
<1>4. CASE pass.plan.last \notin {"none", "again", "spawn", "released"}
    BY <1>4, GotoIs DEF Proceed, GoesOn
<1> QED BY <1>1, <1>2, <1>3, <1>4

\* A projection that fails: a claim that could not be shown is to be given up.
LEMMA FailedIs ==
    ASSUME pass \in PassRow, NEW retryable \in BOOLEAN, Failed(retryable)
    PROVE  pass' \in PassRow /\ GoesOn /\ pass'.pc # "patch"
<1>1. CASE pass.plan.last = "spawn"
    <2>1. PICK last : last = IF retryable THEN "unprojected" ELSE "released"
        OBVIOUS
    <2>2. pass' = [pass EXCEPT !.pc = "reclaim", !.plan = ClearLabels("none", last)]
        BY <1>1, <2>1 DEF Failed
    <2>3. last \in {"unprojected", "released"}
        BY <2>1
    <2>4. ClearLabels("none", last) \in PlanRow /\ ClearLabels("none", last).last = last
          /\ ClearLabels("none", last).add = {}
        BY <2>3 DEF ClearLabels, Plan, PlanRow, Lifecycle
    <2> QED BY <1>1, <2>2, <2>3, <2>4 DEF PassRow, GoesOn
<1>2. CASE pass.plan.last \in {"released", "unprojected"}
    BY <1>2, ProceedIs DEF Failed
<1>3. CASE pass.plan.last \notin {"spawn", "released", "unprojected"}
    BY <1>3, GotoIs DEF Failed, GoesOn
<1> QED BY <1>1, <1>2, <1>3

\* The three steps of the projection of labels.
LEMMA ProjectionIs ==
    ASSUME Types, GetLabels \/ PatchLabels \/ CheckLabels
    PROVE  /\ pass.pc \in Projecting /\ pass' \in PassRow
           /\ UNCHANGED <<store, marker, pull, command, comments, recent>>
           /\ GoesOn \/ (Same /\ pass'.pc \in {"patch", "check"})
           /\ labels' = labels \/ (pass.pc = "patch" /\ labels' = pass.desired)
           /\ pass'.pc = "patch" => labels' = labels /\ pass'.desired \subseteq labels \union pass.plan.add
<1>0. pass \in PassRow
    BY DEF Types
<1>1. CASE GetLabels
    <2>1. pass.pc = "get" /\ UNCHANGED <<store, github, recent>>
        BY <1>1 DEF GetLabels
    <2>2. CASE Proceed \/ Failed(FALSE)
        BY <1>0, <2>1, <2>2, ProceedIs, FailedIs DEF github, Projecting
    <2>3. CASE pass' = [pass EXCEPT !.pc = "patch",
                                    !.desired = (labels \ pass.plan.remove) \union pass.plan.add]
        <3>1. (labels \ pass.plan.remove) \union pass.plan.add \in SUBSET Lifecycle
            BY DEF Types, PassRow, PlanRow
        <3>2. pass' \in PassRow /\ Same /\ pass'.pc = "patch"
              /\ pass'.desired = (labels \ pass.plan.remove) \union pass.plan.add
            BY <1>0, <2>3, <3>1 DEF PassRow, Same
        <3> QED BY <2>1, <3>2 DEF github, Projecting
    <2> QED BY <1>1, <2>2, <2>3 DEF GetLabels
<1>2. CASE PatchLabels
    <2>1. pass.pc = "patch" /\ UNCHANGED <<store, marker, pull, command, comments, recent>>
        BY <1>2 DEF PatchLabels
    <2>2. CASE labels' = pass.desired /\ Goto("check")
        BY <1>0, <2>1, <2>2, GotoIs DEF Projecting
    <2>3. CASE (labels' = labels \/ labels' = pass.desired) /\ (Failed(TRUE) \/ Failed(FALSE))
        BY <1>0, <2>1, <2>3, FailedIs DEF Projecting
    <2> QED BY <1>2, <2>2, <2>3 DEF PatchLabels
<1>3. CASE CheckLabels
    <2>1. pass.pc = "check" /\ UNCHANGED <<store, github, recent>>
        BY <1>3 DEF CheckLabels
    <2>2. Proceed \/ Failed(TRUE) \/ Failed(FALSE)
        BY <1>3 DEF CheckLabels
    <2> QED BY <1>0, <2>1, <2>2, ProceedIs, FailedIs DEF github, Projecting
<1> QED BY <1>1, <1>2, <1>3
-----------------------------------------------------------------------------
(* What the steps do to the card and to the order of the evidence           *)

\* A card that moves is nobody's.
LEMMA MovesIs ==
    ASSUME card \in CardRow, NEW status \in Status, NEW assignee \in {"none", "reserved", "worker"},
           Moves(status, assignee)
    PROVE  /\ card' \in CardRow /\ card'.status = status /\ card'.assignee = assignee
           /\ card'.claim = "none"
    BY DEF Moves, CardRow

\* A card that has failed is ready again or blocked, and nobody's.
LEMMA AfterFailureIs ==
    ASSUME card \in CardRow, NEW assignee \in {"none", "reserved", "worker"}
    PROVE  /\ AfterFailure(assignee) \in CardRow /\ AfterFailure(assignee).claim = "none"
           /\ AfterFailure(assignee).status \in {"blocked", "ready"}
<1>1. FailureLimit \in Nat /\ card.failures + 1 \in Nat
    BY EdgeAssumption DEF CardRow
<1> QED BY <1>1 DEF AfterFailure, Card, CardRow, Status

\* A round is opened for a card that is then ready, reserved and nobody's, and nothing but the
\* round and its event changes with it.
LEMMA OpenRoundIs ==
    ASSUME Types, NEW trigger \in {"label", "comment"}, OpenRound(trigger)
    PROVE  /\ card' \in CardRow /\ card'.status = "ready" /\ card'.assignee = "reserved"
           /\ card'.claim = "none"
           /\ rounds' \in Seq(RoundRow) /\ Round' = Round + 1
           /\ \A k \in 1..Round : rounds'[k] = rounds[k]
           /\ rounds'[Round + 1] = [trigger |-> trigger, id |-> pass.by, head |-> pass.head]
           /\ runs' \in [edge: RunRow, core: RunRow] /\ runs'.edge = runs.edge /\ runs'.core = NoRun
           /\ recent' \in [Kinds -> SUBSET Kinds]
           /\ \A f \in {"command", "comment", "delivery"} : ~Newer(f, "event")'
           /\ UNCHANGED <<attention, delivery, parking>>
<1>1. PICK row : row = [trigger |-> trigger, id |-> pass.by, head |-> pass.head]
    OBVIOUS
<1>2. row \in RoundRow
    BY <1>1 DEF Types, PassRow, RoundRow
<1>3. rounds' = Append(rounds, row)
    BY <1>1 DEF OpenRound
<1>4. /\ rounds' \in Seq(RoundRow) /\ Round' = Round + 1
      /\ \A k \in 1..Round : rounds'[k] = rounds[k]
      /\ rounds'[Round + 1] = row
    BY <1>2, <1>3 DEF Types, Round
<1>5. PICK failures \in Nat : card' = Card("ready", "reserved", "none", failures)
    <2>1. card.failures \in Nat
        BY DEF Types, CardRow
    <2> QED BY <2>1 DEF OpenRound
<1>6. card' \in CardRow /\ card'.status = "ready" /\ card'.assignee = "reserved" /\ card'.claim = "none"
    BY <1>5 DEF Card, CardRow, Status
<1>7. NoRun \in RunRow
    BY DEF NoRun, Run, NoHead, RunRow, RunState
<1>8. runs' = [runs EXCEPT !.core = NoRun]
    BY DEF OpenRound
<1>9. runs' \in [edge: RunRow, core: RunRow] /\ runs'.edge = runs.edge /\ runs'.core = NoRun
    BY <1>7, <1>8 DEF Types
<1>10. /\ recent' \in [Kinds -> SUBSET Kinds]
       /\ \A f \in Kinds \ {"event", "origin", "completion"} : ~Newer(f, "event")'
    BY RoundIsNewest DEF OpenRound, Types
<1>11. {"command", "comment", "delivery"} \subseteq Kinds \ {"event", "origin", "completion"}
    BY DEF Kinds
<1> QED BY <1>1, <1>4, <1>6, <1>9, <1>10, <1>11 DEF OpenRound

\* The evidence the invariants look at: nothing of it has become newer than the event.
OrderKept ==
    /\ recent' \in [Kinds -> SUBSET Kinds]
    /\ \A f \in {"command", "comment", "delivery"} : Newer(f, "event")' => Newer(f, "event")

\* An unchanged order, and the stamp of a completion, keep it so.
LEMMA OrderUnchanged == Types /\ UNCHANGED recent => OrderKept
    BY DEF Types, OrderKept, Newer, OnRecord

\* The stamp of a completion is no stamp of the evidence the invariants look at.
LEMMA StampCompletionIs ==
    ASSUME Types, StampCompletion
    PROVE  OrderKept
<1>1. CASE Stamp("completion")
    BY <1>1, StampKeepsOrder DEF Types, OrderKept, Kinds
<1>2. CASE UNCHANGED recent
    BY <1>2, OrderUnchanged
<1> QED BY <1>1, <1>2 DEF StampCompletion

\* A card parked in REVIEW.
LEMMA ParkIs ==
    ASSUME Types, NEW by, Park(by)
    PROVE  /\ card' \in CardRow /\ card'.status = "review" /\ card'.claim = "none"
           /\ OrderKept /\ governing' = "other"
           /\ UNCHANGED <<rounds, event, runs, attention, delivery>>
<1>1. card' \in CardRow /\ card'.status = "review" /\ card'.claim = "none"
    BY MovesIs DEF Park, Types, Status
<1>2. CASE card.status = "done"
    <2>1. Reopen("parking")
        BY <1>2 DEF Park
    <2> QED BY <1>1, <2>1, ReopenKeepsOrder DEF Park, Types, OrderKept, Kinds
<1>3. CASE card.status # "done"
    BY <1>1, <1>3, OrderUnchanged DEF Park
<1> QED BY <1>2, <1>3

\* A card that is finished.
LEMMA FinishIs ==
    ASSUME Types, Finish
    PROVE  /\ card' \in CardRow /\ card'.status = "done" /\ card'.claim = "none"
           /\ OrderKept /\ governing' = "other"
           /\ UNCHANGED <<rounds, event, runs, attention, delivery, parking>>
<1>1. card' \in CardRow /\ card'.status = "done" /\ card'.claim = "none"
    BY MovesIs DEF Finish, Types, Status, CardRow
<1> QED BY <1>1, StampCompletionIs DEF Finish

\* A delivery recorded for the round.
LEMMA RecordDeliveryIs ==
    ASSUME Types, RecordDelivery
    PROVE  /\ delivery' = [round |-> Round, head |-> pass.head] /\ delivery' \in HeadRow
           /\ recent' \in [Kinds -> SUBSET Kinds]
           /\ \A f \in {"command", "comment"} : Newer(f, "event")' => Newer(f, "event")
<1>1. Round \in Nat /\ pass.head \in Nat
    BY DEF Types, Round, PassRow
<1>2. delivery' \in HeadRow
    BY <1>1 DEF RecordDelivery, HeadRow
<1>3. /\ recent' \in [Kinds -> SUBSET Kinds]
      /\ \A f, g \in Kinds \ {"delivery"} : Newer(f, g)' => Newer(f, g)
    BY StampKeepsOrder DEF RecordDelivery, Types, Kinds
<1> QED BY <1>2, <1>3 DEF RecordDelivery, Kinds
-----------------------------------------------------------------------------
(* Steps that leave a part of the invariant alone                           *)

\* The rounds stay, nothing on record becomes newer than the event and no write is planned.
LEMMA RoundsKept ==
    ASSUME RoundsInv, UNCHANGED <<rounds, command, comments>>,
           \A f \in {"command", "comment"} : Newer(f, "event")' => Newer(f, "event"),
           UNCHANGED pass \/ pass'.pc # "write"
    PROVE  RoundsInv'
<1>1. OneRoundPerCommand' /\ (\A trigger, n : Before(trigger, n) => Before(trigger, n)')
    BY DEF RoundsInv, OneRoundPerCommand, Before, Round
<1>2. Before("label", command.id + 1)' /\ Before("comment", comments + 1)'
    BY <1>1 DEF RoundsInv, Before, Round
<1>3. Newer("command", "event")' => Before("label", command.id)'
    BY <1>1 DEF RoundsInv, Before, Round
<1>4. Newer("comment", "event")' => Before("comment", comments)'
    BY <1>1 DEF RoundsInv, Before, Round
<1>5. pass'.pc = "write" => UNCHANGED pass
    OBVIOUS
<1>6. (pass.pc = "write" /\ pass.plan.db = "rework" => Before("label", pass.by) /\ pass.by <= command.id)'
    BY <1>5 DEF RoundsInv, Before, Round
<1>7. (pass.pc = "write" /\ pass.plan.db = "retry" => Before("comment", pass.by) /\ pass.by <= comments)'
    BY <1>5 DEF RoundsInv, Before, Round
<1> QED BY <1>1, <1>2, <1>3, <1>4, <1>6, <1>7 DEF RoundsInv

\* A card with no round of its own to start.
LEMMA StartKept ==
    ASSUME StartInv, UNCHANGED rounds, runs'.edge.round = runs.edge.round,
           event' = event \/ event' # "rework",
           UNCHANGED card \/ card.status # "ready" \/ card.assignee # "reserved" \/ card.claim # "none"
    PROVE  StartInv'
    BY DEF StartInv, Round

\* The newest run of the edge, the marker and the deliveries stay; the pass, if it moves,
\* moves with its plan or ends.
PassMoves ==
    \/ UNCHANGED pass
    \/ pass'.pc \in {"idle", "lane", "again", "spawn"}
    \/ Same /\ UnderWay /\ pass'.pc \in {"get", "check", "last"}
    \/ Same /\ UnderWay /\ pass'.pc = "patch" /\ pass'.desired \subseteq labels \union pass.plan.add
    \/ pass'.pc = "reclaim"

\* A step that leaves the rounds, their runs and their deliveries alone keeps what was earned.
LEMMA EarnedKept ==
    ASSUME EarnedInv, UNCHANGED <<rounds, delivery, marker>>, runs'.edge = runs.edge,
           governing' = governing \/ governing' = "other",
           Newer("delivery", "event")' => Newer("delivery", "event"),
           labels \subseteq labels', PassMoves
    PROVE  EarnedInv'
<1>1. Round' = Round /\ (Earned' <=> Earned) /\ (Delivered' => Delivered)
    BY DEF Round, Earned, Delivered
<1>2. /\ runs'.edge.round <= Round' /\ delivery'.round <= Round'
      /\ runs'.edge.round = Round' /\ runs'.edge.state \in Ended => governing' \notin AskedFor
      /\ Delivered' => Earned'
    BY <1>1 DEF EarnedInv, AskedFor
<1>3. UnderWay' => UNCHANGED pass \/ (Same /\ UnderWay)
    BY DEF PassMoves, UnderWay, Projecting
<1>4. UnderWay' => UnderWay /\ pass'.plan = pass.plan /\ pass'.head = pass.head
    BY <1>3 DEF UnderWay, Same
<1>5. pass'.pc = "write" => pass.pc = "write"
    BY DEF PassMoves
<1>6. UnderWay' /\ "ready" \in pass'.plan.add => Earned'
    BY <1>1, <1>4 DEF EarnedInv
<1>7. pass'.pc = "patch" /\ "ready" \in pass'.desired => "ready" \in labels' \union pass'.plan.add
    BY DEF EarnedInv, PassMoves, Same
<1>8. (pass'.pc = "write" /\ pass'.plan.db = "deliver") \/ (UnderWay' /\ pass'.plan.last = "delivered")
        => Earned' /\ marker' = [round |-> Round', head |-> pass'.head]
    <2>1. pass'.pc = "write" => UnderWay'
        BY DEF UnderWay
    <2> QED BY <1>1, <1>4, <1>5, <2>1 DEF EarnedInv
<1>9. UnderWay' /\ pass'.plan.last = "unprojected" => runs'.edge.state = "reclaimed"
    BY <1>4 DEF EarnedInv
<1> QED BY <1>2, <1>6, <1>7, <1>8, <1>9 DEF EarnedInv

\* The card and its runs stay and the pass moves on from the projection of its labels, or ends.
LEMMA ClaimKept ==
    ASSUME ClaimInv, UNCHANGED <<card, runs, rounds>>,
           \/ UNCHANGED pass
           \/ pass'.pc \in {"idle", "lane"}
           \/ pass.pc \in Projecting /\ (GoesOn \/ (Same /\ pass'.pc \in {"patch", "check"}))
    PROVE  ClaimInv'
<1>1. /\ WorkerKeepsClaim'
      /\ card'.claim # "none" => card'.status = "running"
      /\ card'.claim = "edge" => runs'.edge.state = "open" /\ runs'.edge.round = Round'
    BY DEF ClaimInv, WorkerKeepsClaim, Round
<1>2. CASE UNCHANGED pass
    BY <1>1, <1>2 DEF ClaimInv, Starting, Round, PlanShape
<1>3. CASE pass'.pc \in {"idle", "lane"}
    BY <1>1, <1>3 DEF ClaimInv, Starting, Projecting, PlanShape
<1>4. CASE pass.pc \in Projecting /\ (GoesOn \/ (Same /\ pass'.pc \in {"patch", "check"}))
    BY <1>1, <1>4 DEF ClaimInv, Starting, Projecting, PlanShape, GoesOn, Same
<1> QED BY <1>2, <1>3, <1>4
-----------------------------------------------------------------------------
(* The steps of a pass                                                      *)

\* The invariant holds of a card that was just imported.
LEMMA InitInv == Init => Inv
<1> SUFFICES ASSUME Init PROVE Inv
    OBVIOUS
<1>1. NoRun \in RunRow /\ NoRun.state = "none" /\ NoRun.round = 0 /\ ~NoRun.spawned
    BY DEF NoRun, Run, NoHead, RunRow, RunState
<1>2. Round = 0 /\ rounds \in Seq(RoundRow)
    BY DEF Init, Round
<1>3. card \in CardRow /\ card.claim = "none"
    BY DEF Init, Card, CardRow, Status
<1>4. runs \in [edge: RunRow, core: RunRow] /\ runs.edge = NoRun /\ runs.core = NoRun
    BY <1>1 DEF Init
<1>5. recent \in [Kinds -> SUBSET Kinds] /\ \A f \in Kinds : ~OnRecord(f)
    BY DEF Init, OnRecord
<1>6. pass \in PassRow /\ pass.pc = "idle"
    BY NoPassIs DEF Init
<1>7. Types
    BY <1>2, <1>3, <1>4, <1>5, <1>6 DEF Init, Types, HeadRow, NoHead, Lifecycle
<1>8. ClaimInv
    BY <1>1, <1>3, <1>4, <1>6 DEF ClaimInv, WorkerKeepsClaim, Starting, Projecting
<1>9. RoundsInv
    BY <1>2, <1>6 DEF RoundsInv, OneRoundPerCommand, Before
<1>10. StartInv
    BY DEF Init, StartInv
<1>11. delivery.round = 0 /\ marker.round = 0 /\ ~Newer("delivery", "event")
    BY <1>5 DEF Init, Newer, Kinds
<1>12. EarnedInv
    BY <1>1, <1>2, <1>4, <1>6, <1>11 DEF EarnedInv, UnderWay, Projecting, Delivered, Ended
<1> QED BY <1>7, <1>8, <1>9, <1>10, <1>12 DEF Inv

\* A pass that reads the card and settles on a plan.
LEMMA DecideKeeps ==
    ASSUME Inv, NEW status \in Status, NEW busy \in BOOLEAN, Decide(status, busy),
           status = card.status \/ status \in {"review", "ready"}
    PROVE  Inv'
<1> USE DEF Inv
<1>1. /\ pass' \in PassRow /\ pass'.pc \in {"write", "get", "lane"} /\ marker' \in HeadRow
      /\ UNCHANGED <<store, pull, labels, command, comments, recent>>
      /\ marker' = marker \/ Attested
      /\ PlanShape(pass'.plan) /\ (pass'.pc = "write" => pass'.plan.db # "none")
    BY DecideIs
<1>2. UNCHANGED <<card, rounds, event, governing, runs, delivery, pull, labels, command, comments, recent>>
    BY <1>1 DEF store
<1>3. Types'
    BY <1>1, <1>2 DEF Types
<1>4. ClaimInv'
    <2>1. /\ WorkerKeepsClaim'
          /\ card'.claim # "none" => card'.status = "running"
          /\ card'.claim = "edge" => runs'.edge.state = "open" /\ runs'.edge.round = Round'
        BY <1>2 DEF ClaimInv, WorkerKeepsClaim, Round
    <2>2. pass'.plan.last = "requeue" => card'.status \in {"done", "running"} /\ card'.claim = "none"
        <3>1. pass'.plan.last = "requeue" => status = "done" \/ (status = "running" /\ card.claim = "none")
            BY DecideIs
        <3> QED BY <1>2, <3>1 DEF ClaimInv
    <2>3. /\ pass'.plan.last = "again" => pass'.status \in {"review", "ready"}
        BY DecideIs
    <2>4. pass'.plan.db = "deliver"
            => \/ pass'.status = "blocked"
               \/ pass'.status = "running" /\ card'.status = "running" /\ card'.claim = "none"
        <3>1. pass'.plan.db = "deliver"
                => /\ status = "blocked" \/ (status = "running" /\ card.claim = "none")
                   /\ pass'.status = status
            BY DecideIs
        <3> QED BY <1>2, <3>1
    <2> QED BY <1>1, <2>1, <2>2, <2>3, <2>4 DEF ClaimInv, Starting, Projecting, PlanShape
<1>5. RoundsInv'
    <2>1. OneRoundPerCommand' /\ (\A trigger, n : Before(trigger, n) => Before(trigger, n)')
        BY <1>2 DEF RoundsInv, OneRoundPerCommand, Before, Round
    <2>2. /\ Before("label", command.id + 1)' /\ Before("comment", comments + 1)'
          /\ Newer("command", "event")' => Before("label", command.id)'
          /\ Newer("comment", "event")' => Before("comment", comments)'
        BY <1>2 DEF RoundsInv, Before, Round, Newer, OnRecord
    <2>3. pass'.plan.db = "rework" => pass'.by = command.id /\ Newer("command", "event")
        BY DecideIs DEF FreshCommand
    <2>4. pass'.plan.db = "retry" => pass'.by = comments /\ Newer("comment", "event")
        BY DecideIs DEF FreshComment
    <2>5. command.id \in Nat /\ comments \in Nat
        BY DEF Types
    <2>6. pass'.plan.db = "rework" => Before("label", pass.by)' /\ pass'.by <= command'.id
        BY <1>2, <2>3, <2>5 DEF RoundsInv, Before, Round
    <2>7. pass'.plan.db = "retry" => Before("comment", pass.by)' /\ pass'.by <= comments'
        BY <1>2, <2>4, <2>5 DEF RoundsInv, Before, Round
    <2> QED BY <2>1, <2>2, <2>6, <2>7 DEF RoundsInv
<1>6. StartInv'
    BY <1>2 DEF StartInv, Round
<1>7. EarnedInv'
    <2>1. Round' = Round /\ Round \in Nat
        BY <1>2 DEF Round, Types
    <2>2. Earned => Earned'
        BY <1>1, <1>2, <2>1 DEF Earned, Attested
    <2>3. Delivered' = Delivered
        BY <1>2, <2>1 DEF Delivered, Newer, OnRecord
    <2>4. runs.edge.round = Round /\ runs.edge.state \in Ended /\ Attested => Earned'
        BY <1>2, <2>1 DEF Earned, Attested
    <2>5. "ready" \in pass'.plan.add => Earned'
        <3>1. "ready" \in pass'.plan.add
                => Delivered \/ (runs.edge.round = Round /\ runs.edge.state \in Ended /\ Attested)
            BY DecideIs
        <3> QED BY <2>2, <2>4, <3>1 DEF EarnedInv
    <2>6. pass'.plan.db = "deliver" \/ pass'.plan.last = "delivered"
            => Earned' /\ marker' = [round |-> Round', head |-> pass'.head]
        <3>1. pass'.plan.db = "deliver" \/ pass'.plan.last = "delivered"
                => /\ runs.edge.round = Round /\ runs.edge.state \in Ended
                   /\ Attested /\ pass'.head = pull.head
            BY DecideIs
        <3> QED BY <2>1, <2>4, <3>1 DEF Attested
    <2>7. /\ runs'.edge.round <= Round' /\ delivery'.round <= Round'
          /\ runs'.edge.round = Round' /\ runs'.edge.state \in Ended => governing' \notin AskedFor
          /\ Delivered' => Earned'
        BY <1>2, <2>1, <2>2, <2>3 DEF EarnedInv
    <2> QED BY <1>1, <2>5, <2>6, <2>7 DEF EarnedInv, PlanShape
<1> QED BY <1>3, <1>4, <1>5, <1>6, <1>7

\* The projection of labels.
LEMMA ProjectionKeeps ==
    ASSUME Inv, GetLabels \/ PatchLabels \/ CheckLabels
    PROVE  Inv'
<1> USE DEF Inv
<1>1. /\ pass.pc \in Projecting /\ pass' \in PassRow
      /\ UNCHANGED <<store, marker, pull, command, comments, recent>>
      /\ GoesOn \/ (Same /\ pass'.pc \in {"patch", "check"})
      /\ labels' = labels \/ (pass.pc = "patch" /\ labels' = pass.desired)
      /\ pass'.pc = "patch" => labels' = labels /\ pass'.desired \subseteq labels \union pass.plan.add
    BY ProjectionIs
<1>2. UNCHANGED <<card, rounds, event, governing, runs, delivery, marker, pull, command, comments, recent>>
    BY <1>1 DEF store
<1>3. labels' \in SUBSET Lifecycle
    BY <1>1 DEF Types, PassRow
<1>4. Types'
    BY <1>1, <1>2, <1>3 DEF Types
<1>5. ClaimInv'
    BY <1>1, <1>2, ClaimKept
<1>6. pass'.pc # "write"
    BY <1>1 DEF GoesOn
<1>7. OrderKept
    BY <1>2, OrderUnchanged
<1>8. RoundsInv'
    BY <1>2, <1>6, <1>7, RoundsKept DEF OrderKept
<1>9. StartInv'
    BY <1>2, StartKept
<1>10. EarnedInv'
    <2>1. Round' = Round /\ Earned' = Earned /\ (Delivered' => Delivered)
        BY <1>2, <1>7 DEF Round, Earned, Delivered, OrderKept
    <2>2. UnderWay
        BY <1>1 DEF UnderWay
    <2>3. UnderWay' => pass'.plan = pass.plan /\ pass'.head = pass.head
        BY <1>1 DEF UnderWay, Projecting, GoesOn, Same
    <2>4. pass'.pc = "patch" => Same
        BY <1>1 DEF GoesOn
    <2>5. pass'.pc = "patch" /\ "ready" \in pass'.desired => "ready" \in labels' \union pass'.plan.add
        BY <1>1, <2>4 DEF Same
    <2> QED BY <1>2, <1>6, <2>1, <2>2, <2>3, <2>5 DEF EarnedInv
<1> QED BY <1>4, <1>5, <1>8, <1>9, <1>10
\* Of a card that does not run or that nobody has claimed, no worker is at work.
LEMMA Unowned ==
    ASSUME Inv, card.status # "running" \/ card.claim = "none"
    PROVE  /\ card.claim = "none"
           /\ \A who \in {"edge", "core"} : ~(runs[who].state = "open" /\ runs[who].spawned)
<1>1. card.claim = "none"
    BY DEF Inv, ClaimInv
<1>2. \A who \in {"edge", "core"} :
        runs[who].state = "open" /\ runs[who].spawned => card.status = "running" /\ card.claim = who
    BY DEF Inv, ClaimInv, WorkerKeepsClaim
<1> QED BY <1>1, <1>2

\* The write of a pass leaves a card nobody has claimed.
LEMMA WriteFindsUnowned ==
    ASSUME Inv, pass.pc = "write", card.status \in Sources(pass.plan.db)
    PROVE  card.claim = "none"
<1>1. pass.plan.db \in {"rework", "retry", "repair", "recover", "reopen", "close", "finish", "deliver"}
    BY DEF Inv, Types, PassRow, PlanRow, ClaimInv
<1>2. CASE pass.plan.db # "deliver"
    <2>1. card.status # "running"
        BY <1>1, <1>2 DEF Sources
    <2> QED BY <2>1, Unowned
<1>3. CASE pass.plan.db = "deliver"
    <2>1. card.status = pass.status
        BY <1>3 DEF Sources
    <2> QED BY <1>3, <2>1, Unowned DEF Inv, ClaimInv
<1> QED BY <1>2, <1>3

\* What the claims are after the pass has written to a card that nobody has claimed.
LEMMA ClaimAfterWrite ==
    ASSUME Inv, (pass.pc = "write" /\ Same /\ pass'.pc = "get") \/ pass'.pc \in {"lane", "idle"},
           \/ UNCHANGED <<card, runs, rounds>>
           \/ card.claim = "none" /\ card'.claim = "none" /\ runs'.edge = runs.edge
              /\ (runs'.core = runs.core \/ runs'.core = NoRun)
    PROVE  ClaimInv'
<1>1. pass.pc = "write" => PlanShape(pass.plan) /\ pass.plan.db # "none"
    BY DEF Inv, ClaimInv
<1>2. pass'.pc = "get" => pass'.plan.last \notin {"requeue", "again", "spawn"}
    BY <1>1 DEF PlanShape, Same
<1>3. /\ WorkerKeepsClaim'
      /\ card'.claim # "none" => card'.status = "running"
      /\ card'.claim = "edge" => runs'.edge.state = "open" /\ runs'.edge.round = Round'
    <2>1. CASE UNCHANGED <<card, runs, rounds>>
        BY <2>1 DEF Inv, ClaimInv, WorkerKeepsClaim, Round
    <2>2. CASE card.claim = "none" /\ card'.claim = "none" /\ runs'.edge = runs.edge
               /\ (runs'.core = runs.core \/ runs'.core = NoRun)
        <3>1. /\ ~(runs.edge.state = "open" /\ runs.edge.spawned)
              /\ ~(runs.core.state = "open" /\ runs.core.spawned)
            BY <2>2, Unowned
        <3>2. NoRun.state # "open"
            BY DEF NoRun, Run
        <3>3. \A who \in {"edge", "core"} : ~(runs'[who].state = "open" /\ runs'[who].spawned)
            BY <2>2, <3>1, <3>2
        <3> QED BY <2>2, <3>3 DEF WorkerKeepsClaim
    <2> QED BY <2>1, <2>2
<1> QED BY <1>2, <1>3 DEF ClaimInv, Starting, Projecting

\* A round is opened by a command or a comment that is newer than all that opened one before.
LEMMA OpenRoundKeepsRounds ==
    ASSUME Inv, pass.pc = "write", NEW trigger \in {"label", "comment"}, OpenRound(trigger),
           pass.plan.db = IF trigger = "label" THEN "rework" ELSE "retry",
           UNCHANGED github, pass'.pc \in {"get", "lane"}
    PROVE  RoundsInv'
<1>1. /\ rounds' \in Seq(RoundRow) /\ Round' = Round + 1
      /\ \A k \in 1..Round : rounds'[k] = rounds[k]
      /\ rounds'[Round + 1] = [trigger |-> trigger, id |-> pass.by, head |-> pass.head]
      /\ \A f \in {"command", "comment", "delivery"} : ~Newer(f, "event")'
    BY OpenRoundIs DEF Inv
<1>2. UNCHANGED <<command, comments>>
    BY DEF github
<1>3. /\ Round \in Nat /\ pass.by \in Nat /\ command.id \in Nat /\ comments \in Nat
      /\ \A k \in 1..Round : rounds[k] \in RoundRow
    BY DEF Inv, Types, Round, PassRow
<1>4. /\ Before(trigger, pass.by)
      /\ trigger = "label" => pass.by <= command.id
      /\ trigger = "comment" => pass.by <= comments
    BY DEF Inv, RoundsInv
<1>5. rounds'[Round + 1].trigger = trigger /\ rounds'[Round + 1].id = pass.by
    BY <1>1
<1>6. OneRoundPerCommand'
    <2> SUFFICES ASSUME NEW n \in 1..(Round + 1), NEW m \in 1..(Round + 1), n # m
                 PROVE  <<rounds'[n].trigger, rounds'[n].id>> # <<rounds'[m].trigger, rounds'[m].id>>
        BY <1>1 DEF OneRoundPerCommand
    <2>1. CASE n \in 1..Round /\ m \in 1..Round
        BY <1>1, <2>1 DEF Inv, RoundsInv, OneRoundPerCommand
    <2>2. ASSUME NEW k \in 1..Round
          PROVE  rounds'[k].trigger # trigger \/ rounds'[k].id # pass.by
        <3>1. rounds[k].trigger = trigger => rounds[k].id < pass.by
            BY <1>4 DEF Before
        <3>2. rounds[k].id \in Nat
            BY <1>3 DEF RoundRow
        <3> QED BY <1>1, <1>3, <3>1, <3>2
    <2>3. CASE n = Round + 1 /\ m \in 1..Round
        BY <1>5, <2>2, <2>3
    <2>4. CASE m = Round + 1 /\ n \in 1..Round
        BY <1>5, <2>2, <2>4
    <2> QED BY <1>3, <2>1, <2>3, <2>4
<1>7. ASSUME NEW t \in {"label", "comment"}, NEW n \in Nat, Before(t, n), t = trigger => pass.by < n
      PROVE  Before(t, n)'
    BY <1>1, <1>3, <1>5, <1>7 DEF Before
<1>8. Before("label", command.id + 1)'
    <2>1. Before("label", command.id + 1) /\ command.id + 1 \in Nat
        BY <1>3 DEF Inv, RoundsInv
    <2>2. trigger = "label" => pass.by < command.id + 1
        BY <1>3, <1>4
    <2>3. \A n \in Nat : Before("label", n) /\ (trigger = "label" => pass.by < n) => Before("label", n)'
        BY <1>7
    <2> QED BY <1>2, <2>1, <2>2, <2>3 DEF Before
<1>9. Before("comment", comments + 1)'
    <2>1. Before("comment", comments + 1) /\ comments + 1 \in Nat
        BY <1>3 DEF Inv, RoundsInv
    <2>2. trigger = "comment" => pass.by < comments + 1
        BY <1>3, <1>4
    <2>3. \A n \in Nat : Before("comment", n) /\ (trigger = "comment" => pass.by < n) => Before("comment", n)'
        BY <1>7
    <2> QED BY <1>2, <2>1, <2>2, <2>3 DEF Before
<1> QED BY <1>1, <1>6, <1>8, <1>9 DEF RoundsInv

\* The first write of a plan.
LEMMA WriteKeeps ==
    ASSUME Inv, Write
    PROVE  Inv'
<1> USE DEF Inv
<1>1. pass.pc = "write" /\ UNCHANGED github /\ PlanShape(pass.plan) /\ pass.plan.db # "none"
    BY DEF Write, ClaimInv
<1>2. pass \in PassRow
    BY DEF Types
<1>3. /\ pass' \in PassRow /\ Same /\ pass'.pc \in {"get", "lane"}
    <2>1. PICK pc \in {"get", "lane"} : Goto(pc)
        BY DEF Write, AfterWrite
    <2> QED BY <1>2, <2>1, GotoIs
<1>4. UNCHANGED <<marker, pull, labels, command, comments>>
    BY <1>1 DEF github
<1>5. UnderWay
    BY <1>1 DEF UnderWay
<1>6. PassMoves
    BY <1>3, <1>5 DEF PassMoves
<1>7. CASE UNCHANGED <<store, recent>>
    <2>1. UNCHANGED <<card, rounds, event, governing, runs, delivery, recent>>
        BY <1>7 DEF store
    <2>2. Types'
        BY <1>3, <1>4, <2>1 DEF Types
    <2>3. OrderKept
        BY <2>1, OrderUnchanged
    <2>4. ClaimInv'
        BY <1>1, <1>3, <2>1, ClaimAfterWrite
    <2>5. RoundsInv'
        BY <1>3, <1>4, <2>1, <2>3, RoundsKept DEF OrderKept
    <2>6. StartInv'
        BY <2>1, StartKept
    <2>7. EarnedInv'
        BY <1>4, <1>6, <2>1, <2>3, EarnedKept DEF OrderKept
    <2> QED BY <2>2, <2>4, <2>5, <2>6, <2>7
<1>8. CASE card.status \in Sources(pass.plan.db) /\ Apply(pass.plan.db)
    <2>1. card.claim = "none"
        BY <1>1, <1>8, WriteFindsUnowned
    <2>2. CASE \E trigger \in {"label", "comment"} :
                  OpenRound(trigger) /\ pass.plan.db = IF trigger = "label" THEN "rework" ELSE "retry"
        <3>1. PICK trigger \in {"label", "comment"} :
                  OpenRound(trigger) /\ pass.plan.db = IF trigger = "label" THEN "rework" ELSE "retry"
            BY <2>2
        <3>2. /\ card' \in CardRow /\ card'.status = "ready" /\ card'.assignee = "reserved"
              /\ card'.claim = "none"
              /\ rounds' \in Seq(RoundRow) /\ Round' = Round + 1
              /\ runs' \in [edge: RunRow, core: RunRow] /\ runs'.edge = runs.edge /\ runs'.core = NoRun
              /\ recent' \in [Kinds -> SUBSET Kinds]
              /\ ~Newer("delivery", "event")'
              /\ UNCHANGED delivery
            BY <3>1, OpenRoundIs
        <3>3. Types'
            BY <1>3, <1>4, <3>2 DEF Types
        <3>4. ClaimInv'
            BY <1>1, <1>3, <2>1, <3>2, ClaimAfterWrite
        <3>5. RoundsInv'
            BY <1>1, <1>3, <3>1, OpenRoundKeepsRounds
        <3>6. StartInv'
            BY <3>2 DEF StartInv
        <3>7. EarnedInv'
            <4>1. pass'.plan.add = {} /\ pass'.plan.last = "none"
                BY <1>1, <1>3, <3>1 DEF PlanShape, Same
            <4>2. Round \in Nat /\ runs.edge.round \in Nat /\ delivery.round \in Nat
                BY DEF Types, Round, RunRow, HeadRow
            <4>3. runs'.edge.round < Round' /\ delivery'.round < Round'
                BY <3>2, <4>2 DEF EarnedInv
            <4>4. runs'.edge.round # Round' /\ runs'.edge.round <= Round' /\ delivery'.round <= Round'
                BY <3>2, <4>2, <4>3
            <4> QED BY <1>3, <3>2, <4>1, <4>4 DEF EarnedInv, Delivered
        <3> QED BY <3>3, <3>4, <3>5, <3>6, <3>7
    <2>3. CASE Finish \/ \E by \in {0, pass.by} : Park(by)
        <3>1. /\ card' \in CardRow /\ card'.status \in {"review", "done"} /\ card'.claim = "none"
              /\ OrderKept /\ governing' = "other"
              /\ UNCHANGED <<rounds, event, runs, attention, delivery>>
            BY <2>3, ParkIs, FinishIs
        <3>2. Types'
            BY <1>3, <1>4, <3>1 DEF Types, OrderKept
        <3>3. ClaimInv'
            BY <1>1, <1>3, <2>1, <3>1, ClaimAfterWrite
        <3>4. RoundsInv'
            BY <1>3, <1>4, <3>1, RoundsKept DEF OrderKept
        <3>5. card.status # "ready"
            <4>1. pass.plan.db \in {"repair", "recover", "reopen", "close", "finish"}
                  \/ pass.plan.db \in {"rework", "retry"} \/ pass.plan.db = "deliver"
                BY <1>1 DEF Types, PassRow, PlanRow
            <4>2. CASE pass.plan.db = "deliver"
                BY <1>1, <1>8, <4>2 DEF ClaimInv, Sources
            <4> QED BY <1>8, <4>1, <4>2 DEF Sources
        <3>6. StartInv'
            BY <3>1, <3>5, StartKept
        <3>7. EarnedInv'
            BY <1>4, <1>6, <3>1, EarnedKept DEF OrderKept
        <3> QED BY <3>2, <3>3, <3>4, <3>6, <3>7
    <2>4. CASE pass.plan.db = "deliver" /\ Deliver
        <3>1. card' \in CardRow /\ card'.claim = "none"
            BY <2>4, MovesIs DEF Deliver, Types, Status
        <3>2. /\ delivery' = [round |-> Round, head |-> pass.head] /\ delivery' \in HeadRow
              /\ recent' \in [Kinds -> SUBSET Kinds]
              /\ \A f \in {"command", "comment"} : Newer(f, "event")' => Newer(f, "event")
            BY <2>4, RecordDeliveryIs DEF Deliver
        <3>3. UNCHANGED <<rounds, event, governing, runs, attention, parking>>
            BY <2>4 DEF Deliver
        <3>4. Types'
            BY <1>3, <1>4, <3>1, <3>2, <3>3 DEF Types
        <3>5. ClaimInv'
            BY <1>1, <1>3, <2>1, <3>1, <3>3, ClaimAfterWrite
        <3>6. RoundsInv'
            BY <1>3, <1>4, <3>2, <3>3, RoundsKept
        <3>7. card.status # "ready"
            BY <1>1, <1>8, <2>4 DEF ClaimInv, Sources
        <3>8. StartInv'
            BY <3>3, <3>7, StartKept
        <3>9. EarnedInv'
            <4>1. Round' = Round /\ Round \in Nat /\ delivery'.round = Round'
                BY <3>2, <3>3 DEF Types, Round
            <4>2. Earned /\ Earned'
                BY <1>1, <1>4, <2>4, <3>3, <4>1 DEF EarnedInv, Earned
            <4>3. UnderWay' => pass'.plan = pass.plan /\ pass'.head = pass.head
                BY <1>3 DEF Same
            <4> QED BY <1>3, <1>4, <1>5, <3>3, <4>1, <4>2, <4>3 DEF EarnedInv
        <3> QED BY <3>4, <3>5, <3>6, <3>8, <3>9
    <2> QED BY <1>8, <2>2, <2>3, <2>4 DEF Apply
<1> QED BY <1>7, <1>8 DEF Write
\* The last write of a plan.
LEMMA LastKeeps ==
    ASSUME Inv, Last
    PROVE  Inv'
<1> USE DEF Inv
<1>1. pass.pc = "last" /\ UNCHANGED <<marker, pull, labels, command, comments>>
    BY DEF Last, github
<1>2. pass \in PassRow
    BY DEF Types
<1>3. pass' \in PassRow /\ pass'.pc \in {"lane", "idle"}
    <2>1. Goto("lane") \/ pass' = NoPass
        BY DEF Last, Attend, Requeue, RecordDelivered, FinishCleaned, RecordUnprojected
    <2> QED BY <1>2, <2>1, GotoIs, NoPassIs
<1>4. PassMoves
    BY <1>3 DEF PassMoves
<1>5. UnderWay
    BY <1>1 DEF UnderWay
<1>6. CASE Attend
    <2>1. UNCHANGED <<card, rounds, event, governing, runs, delivery, parking>>
        BY <1>6 DEF Attend
    <2>2. OrderKept
        <3>1. CASE Stamp("attention")
            BY <3>1, StampKeepsOrder DEF Types, OrderKept, Kinds
        <3>2. CASE UNCHANGED recent
            BY <3>2, OrderUnchanged
        <3> QED BY <1>6, <3>1, <3>2 DEF Attend
    <2>3. Types'
        BY <1>1, <1>3, <2>1, <2>2 DEF Types, OrderKept
    <2>4. ClaimInv'
        BY <1>3, <2>1, ClaimKept
    <2>5. RoundsInv'
        BY <1>1, <1>3, <2>1, <2>2, RoundsKept DEF OrderKept
    <2>6. StartInv'
        BY <2>1, StartKept
    <2>7. EarnedInv'
        BY <1>1, <1>4, <2>1, <2>2, EarnedKept DEF OrderKept
    <2> QED BY <2>3, <2>4, <2>5, <2>6, <2>7
<1>7. CASE Requeue
    <2>1. /\ pass.plan.last = "requeue" /\ card' = AfterFailure("none")
          /\ event' = "retry" /\ governing' = "other"
          /\ runs' = [runs EXCEPT !.core = NoRun]
          /\ Reopen("event")
          /\ UNCHANGED <<rounds, attention, delivery, parking>>
        BY <1>7 DEF Requeue
    <2>2. card.status \in {"done", "running"} /\ card.claim = "none"
        BY <1>1, <2>1 DEF ClaimInv
    <2>3. card' \in CardRow /\ card'.claim = "none"
        BY <2>1, AfterFailureIs DEF Types
    <2>4. NoRun \in RunRow
        BY DEF NoRun, Run, NoHead, RunRow, RunState
    <2>5. runs' \in [edge: RunRow, core: RunRow] /\ runs'.edge = runs.edge /\ runs'.core = NoRun
        BY <2>1, <2>4 DEF Types
    <2>6. /\ recent' \in [Kinds -> SUBSET Kinds]
          /\ \A f \in Kinds \ {"event", "completion"} : ~Newer(f, "event")'
        BY <2>1, ReopenKeepsOrder DEF Types, Kinds
    <2>7. ~Newer("command", "event")' /\ ~Newer("comment", "event")' /\ ~Newer("delivery", "event")'
        BY <2>6 DEF Kinds
    <2>8. Types'
        BY <1>1, <1>3, <2>1, <2>3, <2>5, <2>6 DEF Types
    <2>9. ClaimInv'
        BY <1>3, <2>2, <2>3, <2>5, ClaimAfterWrite
    <2>10. RoundsInv'
        BY <1>1, <1>3, <2>1, <2>7, RoundsKept
    <2>11. StartInv'
        BY <2>1 DEF StartInv
    <2>12. EarnedInv'
        BY <1>1, <1>4, <2>1, <2>5, <2>7, EarnedKept
    <2> QED BY <2>8, <2>9, <2>10, <2>11, <2>12
<1>8. CASE RecordDelivered
    <2>1. /\ pass.plan.last = "delivered" /\ RecordDelivery
          /\ UNCHANGED <<card, rounds, event, governing, runs, attention, parking>>
        BY <1>8 DEF RecordDelivered
    <2>2. /\ delivery' = [round |-> Round, head |-> pass.head] /\ delivery' \in HeadRow
          /\ recent' \in [Kinds -> SUBSET Kinds]
          /\ \A f \in {"command", "comment"} : Newer(f, "event")' => Newer(f, "event")
        BY <2>1, RecordDeliveryIs
    <2>3. Types'
        BY <1>1, <1>3, <2>1, <2>2 DEF Types
    <2>4. ClaimInv'
        BY <1>3, <2>1, ClaimKept
    <2>5. RoundsInv'
        BY <1>1, <1>3, <2>1, <2>2, RoundsKept
    <2>6. StartInv'
        BY <2>1, StartKept
    <2>7. EarnedInv'
        <3>1. Round' = Round /\ Round \in Nat /\ delivery'.round = Round'
            BY <2>1, <2>2 DEF Types, Round
        <3>2. Earned
            BY <1>5, <2>1 DEF EarnedInv
        <3>3. Earned'
            BY <1>1, <2>1, <3>1, <3>2 DEF Earned
        <3>4. ~UnderWay' /\ pass'.pc \notin {"write", "patch"}
            BY <1>3 DEF UnderWay, Projecting
        <3> QED BY <2>1, <3>1, <3>3, <3>4 DEF EarnedInv
    <2> QED BY <2>3, <2>4, <2>5, <2>6, <2>7
<1>9. CASE FinishCleaned
    <2>1. CASE card.status = "review"
        <3>1. /\ card' \in CardRow /\ card'.status = "done" /\ card'.claim = "none"
              /\ OrderKept /\ governing' = "other"
              /\ UNCHANGED <<rounds, event, runs, attention, delivery, parking>>
            BY <1>9, <2>1, FinishIs DEF FinishCleaned
        <3>2. Types'
            BY <1>1, <1>3, <3>1 DEF Types, OrderKept
        <3>3. card.claim = "none"
            BY <2>1, Unowned
        <3>4. ClaimInv'
            BY <1>3, <3>1, <3>3, ClaimAfterWrite
        <3>5. RoundsInv'
            BY <1>1, <1>3, <3>1, RoundsKept DEF OrderKept
        <3>6. StartInv'
            BY <2>1, <3>1, StartKept
        <3>7. EarnedInv'
            BY <1>1, <1>4, <3>1, EarnedKept DEF OrderKept
        <3> QED BY <3>2, <3>4, <3>5, <3>6, <3>7
    <2>2. CASE card.status # "review"
        <3>1. UNCHANGED <<card, rounds, event, governing, runs, delivery, recent>>
            BY <1>9, <2>2 DEF FinishCleaned, store
        <3>2. Types'
            BY <1>1, <1>3, <3>1 DEF Types
        <3>3. OrderKept
            BY <3>1, OrderUnchanged
        <3>4. ClaimInv'
            BY <1>3, <3>1, ClaimKept
        <3>5. RoundsInv'
            BY <1>1, <1>3, <3>1, <3>3, RoundsKept DEF OrderKept
        <3>6. StartInv'
            BY <3>1, StartKept
        <3>7. EarnedInv'
            BY <1>1, <1>4, <3>1, <3>3, EarnedKept DEF OrderKept
        <3> QED BY <3>2, <3>4, <3>5, <3>6, <3>7
    <2> QED BY <2>1, <2>2
<1>10. CASE RecordUnprojected
    <2>1. /\ pass.plan.last = "unprojected"
          /\ UNCHANGED <<card, rounds, event, runs, attention, delivery, parking, recent>>
        BY <1>10 DEF RecordUnprojected
    <2>2. Types'
        BY <1>1, <1>3, <2>1 DEF Types
    <2>3. OrderKept
        BY <2>1, OrderUnchanged
    <2>4. ClaimInv'
        BY <1>3, <2>1, ClaimKept
    <2>5. RoundsInv'
        BY <1>1, <1>3, <2>1, <2>3, RoundsKept DEF OrderKept
    <2>6. StartInv'
        BY <2>1, StartKept
    <2>7. EarnedInv'
        <3>1. runs.edge.state \notin Ended
            BY <1>5, <2>1 DEF EarnedInv, Ended
        <3>2. Round' = Round /\ (Earned' <=> Earned) /\ (Delivered' => Delivered)
            BY <1>1, <2>1, <2>3 DEF Round, Earned, Delivered, OrderKept
        <3>3. ~UnderWay' /\ pass'.pc \notin {"write", "patch"}
            BY <1>3 DEF UnderWay, Projecting
        <3> QED BY <2>1, <3>1, <3>2, <3>3 DEF EarnedInv
    <2> QED BY <2>2, <2>4, <2>5, <2>6, <2>7
<1> QED BY <1>6, <1>7, <1>8, <1>9, <1>10 DEF Last
\* The claim of a card that the lane finds pending.
LEMMA ClaimKeeps ==
    ASSUME Inv, Claim
    PROVE  Inv'
<1> USE DEF Inv
<1>1. /\ card.status = "ready" /\ card.claim = "none" /\ governing \in AskedFor
      /\ card' = [card EXCEPT !.status = "running", !.assignee = "worker", !.claim = "edge"]
      /\ UNCHANGED <<rounds, event, governing, attention, delivery, parking, recent>>
      /\ UNCHANGED <<marker, pull, labels, command, comments>>
    BY DEF Claim, Pending, AskedFor, github
<1>2. PICK run : run = Run(Round, "open", NoHead, FALSE)
    OBVIOUS
<1>3. run \in RunRow /\ run.round = Round /\ run.state = "open" /\ run.spawned = FALSE
    BY <1>2 DEF Run, RunRow, RunState, NoHead, Types, Round
<1>4. runs' \in [edge: RunRow, core: RunRow] /\ runs'.edge = run /\ runs'.core = runs.core
    <2>1. runs' = [runs EXCEPT !.edge = run]
        BY <1>2 DEF Claim
    <2> QED BY <1>3, <2>1 DEF Types
<1>5. card' \in CardRow /\ card'.status = "running" /\ card'.claim = "edge"
    BY <1>1 DEF Types, CardRow, Status
<1>6. pass' \in PassRow /\ pass'.pc = "get" /\ pass'.plan.last = "spawn" /\ pass'.plan.add = {"working"}
    <2>1. PICK plan : plan = Plan("none", {"working"}, {"rework", "ready"}, "spawn", FALSE)
        OBVIOUS
    <2>2. plan \in PlanRow /\ plan.last = "spawn" /\ plan.add = {"working"}
        BY <2>1 DEF Plan, PlanRow, Lifecycle
    <2>3. pass' = [NoPass EXCEPT !.pc = "get", !.plan = plan]
        BY <2>1 DEF Claim
    <2> QED BY <2>2, <2>3, NoPassIs DEF PassRow
<1>7. Types'
    BY <1>1, <1>4, <1>5, <1>6 DEF Types
<1>8. Round' = Round
    BY <1>1 DEF Round
<1>9. ClaimInv'
    <2>1. ~(runs.core.state = "open" /\ runs.core.spawned)
        BY <1>1, Unowned
    <2>2. WorkerKeepsClaim'
        BY <1>3, <1>4, <2>1 DEF WorkerKeepsClaim
    <2> QED BY <1>3, <1>4, <1>5, <1>6, <1>8, <2>2 DEF ClaimInv, Starting, Projecting
<1>10. RoundsInv'
    <2>1. OrderKept
        BY <1>1, OrderUnchanged
    <2> QED BY <1>1, <1>6, <2>1, RoundsKept DEF OrderKept
<1>11. StartInv'
    BY <1>3, <1>4, <1>8 DEF StartInv
<1>12. EarnedInv'
    <2>1. ~Delivered
        BY <1>1 DEF EarnedInv, Earned
    <2>2. Delivered' = Delivered
        BY <1>1, <1>8 DEF Delivered, Newer, OnRecord
    <2>3. Round \in Nat
        BY DEF Types, Round
    <2> QED BY <1>1, <1>3, <1>4, <1>6, <1>8, <2>1, <2>2, <2>3 DEF EarnedInv, Ended
<1> QED BY <1>7, <1>9, <1>10, <1>11, <1>12

\* A pass that ends and leaves everything else as it is.
LEMMA EndKeeps ==
    ASSUME Inv, pass' = NoPass, UNCHANGED <<store, github, recent>>
    PROVE  Inv'
<1> USE DEF Inv
<1>1. UNCHANGED <<card, rounds, event, governing, runs, delivery, marker, pull, labels,
                  command, comments, recent>>
    BY DEF store, github
<1>2. pass' \in PassRow /\ pass'.pc = "idle"
    BY NoPassIs
<1>3. Types'
    BY <1>1, <1>2 DEF Types
<1>4. OrderKept
    BY <1>1, OrderUnchanged
<1>5. ClaimInv'
    BY <1>1, <1>2, ClaimKept
<1>6. RoundsInv'
    BY <1>1, <1>2, <1>4, RoundsKept DEF OrderKept
<1>7. StartInv'
    BY <1>1, StartKept
<1>8. PassMoves
    BY <1>2 DEF PassMoves
<1>9. EarnedInv'
    BY <1>1, <1>4, <1>8, EarnedKept DEF OrderKept
<1> QED BY <1>3, <1>5, <1>6, <1>7, <1>9

\* While the worker of the edge has not ended its run, the round is not delivered, and no
\* other worker is at work.
LEMMA StartingIs ==
    ASSUME Inv, card.claim = "edge"
    PROVE  /\ card.status = "running" /\ runs.edge.state = "open" /\ runs.edge.round = Round
           /\ ~(runs.core.state = "open" /\ runs.core.spawned)
           /\ ~Delivered /\ ~Earned
<1>1. card.status = "running" /\ runs.edge.state = "open" /\ runs.edge.round = Round
    BY DEF Inv, ClaimInv
<1>2. ~(runs.core.state = "open" /\ runs.core.spawned)
    BY DEF Inv, ClaimInv, WorkerKeepsClaim
<1>3. ~Earned
    BY <1>1 DEF Earned, Ended
<1> QED BY <1>1, <1>2, <1>3 DEF Inv, EarnedInv

\* What is earned after the run of the edge for the round has changed.
LEMMA EarnedAfterRun ==
    ASSUME Inv, card.claim = "edge", UNCHANGED <<rounds, delivery, recent, labels>>,
           runs'.edge.round = Round,
           runs'.edge.state \notin Ended,
           \/ UNCHANGED pass /\ pass.pc # "write" /\ ~UnderWay
           \/ pass'.pc = "idle"
           \/ /\ pass'.pc = "get" /\ pass'.plan.add = {} /\ pass'.plan.last # "delivered"
              /\ pass'.plan.last = "unprojected" => runs'.edge.state = "reclaimed"
    PROVE  EarnedInv'
<1>1. ~Delivered
    BY StartingIs
<1>2. Round' = Round /\ Round \in Nat
    BY DEF Inv, Types, Round
<1>3. ~Delivered'
    BY <1>1, <1>2 DEF Delivered, Newer, OnRecord
<1>4. /\ runs'.edge.round <= Round' /\ delivery'.round <= Round'
      /\ runs'.edge.round = Round' /\ runs'.edge.state \in Ended => governing' \notin AskedFor
    BY <1>2 DEF Inv, EarnedInv
<1> QED BY <1>3, <1>4 DEF EarnedInv, Inv, UnderWay, Projecting

\* A claim that is given up.
LEMMA ReclaimKeeps ==
    ASSUME Inv, Reclaim
    PROVE  Inv'
<1> USE DEF Inv
<1>1. /\ pass.pc = "reclaim" /\ Moves("ready", "reserved")
      /\ runs' = [runs EXCEPT !.edge.state = "reclaimed"]
      /\ governing' = "other"
      /\ UNCHANGED <<rounds, event, attention, delivery, parking, recent>>
      /\ UNCHANGED <<marker, pull, labels, command, comments>>
    BY DEF Reclaim, github
<1>2. /\ card.claim = "edge"
      /\ pass.plan.last \in {"unprojected", "released"} /\ pass.plan.add = {}
    BY <1>1 DEF ClaimInv, Starting
<1>3. pass' \in PassRow /\ pass'.pc = "get" /\ pass'.plan = pass.plan
    BY GotoIs DEF Reclaim, Types, Same
<1>4. card' \in CardRow /\ card'.status = "ready" /\ card'.claim = "none"
    BY <1>1, MovesIs DEF Types, Status
<1>5. /\ runs' \in [edge: RunRow, core: RunRow] /\ runs'.core = runs.core
      /\ runs'.edge.state = "reclaimed" /\ runs'.edge.round = runs.edge.round
    BY <1>1 DEF Types, RunRow, RunState
<1>6. /\ runs.edge.round = Round
      /\ ~(runs.core.state = "open" /\ runs.core.spawned)
    BY <1>2, StartingIs
<1>7. Types'
    BY <1>1, <1>3, <1>4, <1>5 DEF Types
<1>8. ClaimInv'
    <2>1. WorkerKeepsClaim'
        BY <1>5, <1>6 DEF WorkerKeepsClaim
    <2> QED BY <1>2, <1>3, <1>4, <2>1 DEF ClaimInv, Starting, Projecting
<1>9. RoundsInv'
    <2>1. OrderKept
        BY <1>1, OrderUnchanged
    <2> QED BY <1>1, <1>3, <2>1, RoundsKept DEF OrderKept
<1>10. StartInv'
    BY <1>1, <1>5, <1>6 DEF StartInv, Round
<1>11. EarnedInv'
    BY <1>1, <1>2, <1>3, <1>5, <1>6, EarnedAfterRun DEF Ended
<1> QED BY <1>7, <1>8, <1>9, <1>10, <1>11

\* The start of a worker, and one that fails.
LEMMA SpawnKeeps ==
    ASSUME Inv, Spawn
    PROVE  Inv'
<1> USE DEF Inv
<1>1. /\ pass.pc = "spawn"
      /\ UNCHANGED <<rounds, event, governing, attention, delivery, parking, recent>>
      /\ UNCHANGED <<marker, pull, labels, command, comments>>
    BY DEF Spawn, github
<1>2. card.claim = "edge"
    BY <1>1 DEF ClaimInv, Starting
<1>3. /\ card.status = "running" /\ runs.edge.state = "open" /\ runs.edge.round = Round
      /\ ~(runs.core.state = "open" /\ runs.core.spawned)
    BY <1>2, StartingIs
<1>4. Round' = Round
    BY <1>1 DEF Round
<1>5. OrderKept
    BY <1>1, OrderUnchanged
<1>6. CASE runs' = [runs EXCEPT !.edge.spawned = TRUE] /\ pass' = NoPass /\ UNCHANGED card
    <2>1. /\ runs' \in [edge: RunRow, core: RunRow] /\ runs'.core = runs.core
          /\ runs'.edge.state = "open" /\ runs'.edge.round = Round
        BY <1>3, <1>6 DEF Types, RunRow
    <2>2. pass' \in PassRow /\ pass'.pc = "idle"
        BY <1>6, NoPassIs
    <2>3. Types'
        BY <1>1, <1>6, <2>1, <2>2 DEF Types
    <2>4. ClaimInv'
        <3>1. WorkerKeepsClaim'
            BY <1>2, <1>3, <1>6, <2>1 DEF WorkerKeepsClaim
        <3> QED BY <1>2, <1>3, <1>4, <1>6, <2>1, <2>2, <3>1 DEF ClaimInv, Starting, Projecting
    <2>5. RoundsInv'
        BY <1>1, <1>5, <2>2, RoundsKept DEF OrderKept
    <2>6. StartInv'
        BY <1>4, <2>1 DEF StartInv
    <2>7. EarnedInv'
        BY <1>1, <1>2, <2>1, <2>2, EarnedAfterRun DEF Ended
    <2> QED BY <2>3, <2>4, <2>5, <2>6, <2>7
<1>7. CASE /\ runs' = [runs EXCEPT !.edge.state = "spawn_failed"]
           /\ card' = LET after == AfterFailure(card.assignee)
                      IN [after EXCEPT !.assignee = IF after.status = "ready" THEN "reserved" ELSE @]
           /\ pass' = [pass EXCEPT !.pc = "get", !.plan = ClearLabels("none", "released")]
    <2>1. /\ runs' \in [edge: RunRow, core: RunRow] /\ runs'.core = runs.core
          /\ runs'.edge.state = "spawn_failed" /\ runs'.edge.round = Round
        BY <1>3, <1>7 DEF Types, RunRow, RunState
    <2>2. card' \in CardRow /\ card'.claim = "none"
        <3>1. PICK after : after = AfterFailure(card.assignee)
            OBVIOUS
        <3>2. after \in CardRow /\ after.claim = "none"
            BY <3>1, AfterFailureIs DEF Types, CardRow
        <3>3. PICK assignee : assignee = IF after.status = "ready" THEN "reserved" ELSE after.assignee
            OBVIOUS
        <3>4. assignee \in {"none", "reserved", "worker"}
            BY <3>2, <3>3 DEF CardRow
        <3>5. card' = [after EXCEPT !.assignee = assignee]
            BY <1>7, <3>1, <3>3
        <3> QED BY <3>2, <3>4, <3>5 DEF CardRow
    <2>3. pass' \in PassRow /\ pass'.pc = "get" /\ pass'.plan.last = "released" /\ pass'.plan.add = {}
        <3>1. PICK plan : plan = ClearLabels("none", "released")
            OBVIOUS
        <3>2. plan \in PlanRow /\ plan.last = "released" /\ plan.add = {}
            BY <3>1 DEF ClearLabels, Plan, PlanRow, Lifecycle
        <3>3. pass' = [pass EXCEPT !.pc = "get", !.plan = plan]
            BY <1>7, <3>1
        <3> QED BY <3>2, <3>3 DEF Types, PassRow
    <2>4. Types'
        BY <1>1, <2>1, <2>2, <2>3 DEF Types
    <2>5. ClaimInv'
        <3>1. WorkerKeepsClaim'
            BY <1>3, <2>1 DEF WorkerKeepsClaim
        <3> QED BY <2>2, <2>3, <3>1 DEF ClaimInv, Starting, Projecting
    <2>6. RoundsInv'
        BY <1>1, <1>5, <2>3, RoundsKept DEF OrderKept
    <2>7. StartInv'
        BY <1>4, <2>1 DEF StartInv
    <2>8. EarnedInv'
        BY <1>1, <1>2, <2>1, <2>3, EarnedAfterRun DEF Ended
    <2> QED BY <2>4, <2>5, <2>6, <2>7, <2>8
<1> QED BY <1>6, <1>7 DEF Spawn
-----------------------------------------------------------------------------
(* The steps of the world                                                   *)

\* The pass stays where it is; of the claims there is then only what the card and its runs say.
LEMMA ClaimAfterWorld ==
    ASSUME Inv, UNCHANGED <<pass, rounds>>, WorkerKeepsClaim',
           card'.claim # "none" => card'.status = "running",
           card'.claim = "edge" => runs'.edge = runs.edge /\ card.claim = "edge",
           \/ card.claim # "none" /\ ~(card.claim = "edge" /\ Starting)
           \/ card.status \in {"review", "ready", "blocked"}
           \/ UNCHANGED <<card, runs>>
    PROVE  ClaimInv'
<1>1. card'.claim = "edge" => runs'.edge.state = "open" /\ runs'.edge.round = Round'
    BY DEF Inv, ClaimInv, Round
<1>2. Starting => card.claim = "edge"
    BY DEF Inv, ClaimInv
<1>3. CASE card.claim # "none" /\ ~(card.claim = "edge" /\ Starting)
    BY <1>1, <1>2, <1>3 DEF Inv, ClaimInv, Starting, Projecting, PlanShape
<1>4. CASE card.status \in {"review", "ready", "blocked"}
    <2>1. ~Starting
        BY <1>2, <1>4 DEF Inv, ClaimInv
    <2>2. pass.pc \in Projecting \union {"last"} => pass.plan.last # "requeue"
        BY <1>4 DEF Inv, ClaimInv
    <2>3. pass.pc = "write" /\ pass.plan.db = "deliver" => pass.status = "blocked"
        BY <1>4 DEF Inv, ClaimInv
    <2> QED BY <1>1, <2>1, <2>2, <2>3 DEF Inv, ClaimInv, Starting, Projecting, PlanShape
<1>5. CASE UNCHANGED <<card, runs>>
    BY <1>5, ClaimKept DEF Inv
<1> QED BY <1>3, <1>4, <1>5

\* A claim of the core.
LEMMA CoreClaimKeeps ==
    ASSUME Inv, CoreClaim
    PROVE  Inv'
<1> USE DEF Inv
<1>1. /\ card.claim = "none"
      /\ card.status = "review" \/ (card.status = "ready" /\ card.assignee # "reserved")
      /\ card' = [card EXCEPT !.status = "running", !.assignee = "worker", !.claim = "core"]
      /\ UNCHANGED <<rounds, event, governing, attention, delivery, parking, recent, pass>>
      /\ UNCHANGED <<marker, pull, labels, command, comments>>
    BY DEF CoreClaim, github
<1>2. PICK run : run = Run(Round, "open", NoHead, TRUE)
    OBVIOUS
<1>3. run \in RunRow
    BY <1>2 DEF Run, RunRow, RunState, NoHead, Types, Round
<1>4. runs' \in [edge: RunRow, core: RunRow] /\ runs'.edge = runs.edge
    <2>1. runs' = [runs EXCEPT !.core = run]
        BY <1>2 DEF CoreClaim
    <2> QED BY <1>3, <2>1 DEF Types
<1>5. card' \in CardRow /\ card'.status = "running" /\ card'.claim = "core"
    BY <1>1 DEF Types, CardRow, Status
<1>6. Types'
    BY <1>1, <1>4, <1>5 DEF Types
<1>7. ~(runs.edge.state = "open" /\ runs.edge.spawned)
    BY <1>1, Unowned
<1>8. WorkerKeepsClaim'
    BY <1>4, <1>5, <1>7 DEF WorkerKeepsClaim
<1>9. ClaimInv'
    BY <1>1, <1>5, <1>8, ClaimAfterWorld
<1>10. OrderKept
    BY <1>1, OrderUnchanged
<1>11. RoundsInv'
    BY <1>1, <1>10, RoundsKept DEF OrderKept
<1>12. StartInv'
    BY <1>1, <1>4, StartKept
<1>13. PassMoves
    BY <1>1 DEF PassMoves
<1>14. EarnedInv'
    BY <1>1, <1>4, <1>10, <1>13, EarnedKept DEF OrderKept
<1> QED BY <1>6, <1>9, <1>11, <1>12, <1>14

\* A run that ends, with the card it leaves behind.
LEMMA RunOverKeeps ==
    ASSUME Inv, NEW who \in {"edge", "core"}, Working(who), NEW state \in RunState \ {"open"},
           runs'[who].state = state, runs'[who].round = runs[who].round,
           runs' \in [edge: RunRow, core: RunRow],
           \A other \in {"edge", "core"} \ {who} : runs'[other] = runs[other],
           card' \in CardRow, card'.claim = "none",
           state \in Ended => governing' = "other",
           governing' = governing \/ governing' = "other",
           OrderKept,
           UNCHANGED <<rounds, event, delivery, pass>>,
           UNCHANGED <<marker, pull, labels, command, comments>>
    PROVE  Inv'
<1> USE DEF Inv
<1>1. card.status = "running" /\ card.claim = who /\ runs[who].spawned
    BY DEF Working
<1>2. Types'
    BY DEF Types, OrderKept
<1>3. WorkerKeepsClaim'
    <2> SUFFICES ASSUME NEW other \in {"edge", "core"}, runs'[other].state = "open", runs'[other].spawned
                 PROVE  FALSE
        BY DEF WorkerKeepsClaim
    <2>1. other # who
        OBVIOUS
    <2>2. runs[other].state = "open" /\ runs[other].spawned
        BY <2>1
    <2> QED BY <1>1, <2>1, <2>2 DEF ClaimInv, WorkerKeepsClaim
<1>4. ~(card.claim = "edge" /\ Starting)
    BY <1>1 DEF ClaimInv
<1>5. ClaimInv'
    BY <1>1, <1>3, <1>4, ClaimAfterWorld
<1>6. RoundsInv'
    BY RoundsKept DEF OrderKept
<1>7. runs'.edge.round = runs.edge.round
    OBVIOUS
<1>8. StartInv'
    BY <1>1, <1>7, StartKept
<1>9. EarnedInv'
    <2>1. PassMoves
        BY DEF PassMoves
    <2>2. CASE who = "core"
        <3>1. runs'.edge = runs.edge
            BY <2>2
        <3> QED BY <2>1, <3>1, EarnedKept DEF OrderKept
    <2>3. CASE who = "edge"
        <3>1. /\ runs.edge.state = "open" /\ runs.edge.round = Round
              /\ ~Delivered /\ ~Earned
            BY <1>1, <2>3, StartingIs
        <3>2. Round' = Round /\ Round \in Nat
            BY DEF Types, Round
        <3>3. ~Delivered'
            BY <3>1, <3>2 DEF Delivered, OrderKept
        <3>4. /\ runs'.edge.round <= Round' /\ delivery'.round <= Round'
              /\ runs'.edge.round = Round' /\ runs'.edge.state \in Ended => governing' \notin AskedFor
            BY <1>7, <2>3, <3>1, <3>2 DEF EarnedInv, AskedFor
        <3>5. ~(UnderWay /\ "ready" \in pass.plan.add) /\ ~(UnderWay /\ pass.plan.last = "unprojected")
            BY <3>1 DEF EarnedInv
        <3> QED BY <3>1, <3>3, <3>4, <3>5 DEF EarnedInv, UnderWay
    <2> QED BY <2>2, <2>3
<1> QED BY <1>2, <1>5, <1>6, <1>8, <1>9

\* A worker that ends its run, or is lost.
LEMMA WorkerKeeps ==
    ASSUME Inv, NEW who \in {"edge", "core"},
           \/ WorkerLost(who)
           \/ \E outcome \in {"completed", "blocked", "review_requested"}, head \in {NoHead, pull.head} :
                 WorkerEnds(who, outcome, head)
    PROVE  Inv'
<1>1. /\ card \in CardRow /\ runs \in [edge: RunRow, core: RunRow] /\ runs[who] \in RunRow
      /\ pull.head \in Nat /\ Types
    BY DEF Inv, Types
<1>2. CASE WorkerLost(who)
    <2>1. /\ Working(who) /\ runs' = [runs EXCEPT ![who].state = "crashed"]
          /\ UNCHANGED <<rounds, event, governing, attention, delivery, parking, recent, pass>>
          /\ UNCHANGED <<marker, pull, labels, command, comments>>
        BY <1>2 DEF WorkerLost, github
    <2>2. card' \in CardRow /\ card'.claim = "none"
        BY <1>1, <1>2 DEF WorkerLost, CardRow, Status
    <2>3. /\ runs' \in [edge: RunRow, core: RunRow]
          /\ runs'[who].state = "crashed" /\ runs'[who].round = runs[who].round
          /\ \A other \in {"edge", "core"} \ {who} : runs'[other] = runs[other]
        BY <1>1, <2>1 DEF RunRow, RunState
    <2>4. "crashed" \in RunState \ {"open"} /\ "crashed" \notin Ended
        BY DEF RunState, Ended
    <2>5. OrderKept
        BY <1>1, <2>1, OrderUnchanged
    <2> QED BY <2>1, <2>2, <2>3, <2>4, <2>5, RunOverKeeps
<1>3. CASE \E outcome \in {"completed", "blocked", "review_requested"}, head \in {NoHead, pull.head} :
              WorkerEnds(who, outcome, head)
    <2>1. PICK outcome \in {"completed", "blocked", "review_requested"}, head \in {NoHead, pull.head} :
              WorkerEnds(who, outcome, head)
        BY <1>3
    <2>2. PICK attested : attested = IF who = "edge" THEN head ELSE NoHead
        OBVIOUS
    <2>3. /\ Working(who) /\ runs' = [runs EXCEPT ![who].state = outcome, ![who].head = attested]
          /\ governing' = "other"
          /\ UNCHANGED <<rounds, event, attention, delivery, parking, pass>>
          /\ UNCHANGED <<marker, pull, labels, command, comments>>
        BY <2>1, <2>2 DEF WorkerEnds, github
    <2>4. attested \in Nat /\ outcome \in RunState \ {"open"}
        BY <1>1, <2>2 DEF NoHead, RunState
    <2>5. card' \in CardRow /\ card'.claim = "none"
        BY <1>1, <2>1 DEF WorkerEnds, CardRow, Status
    <2>6. /\ runs' \in [edge: RunRow, core: RunRow]
          /\ runs'[who].state = outcome /\ runs'[who].round = runs[who].round
          /\ \A other \in {"edge", "core"} \ {who} : runs'[other] = runs[other]
        BY <1>1, <2>3, <2>4 DEF RunRow
    <2>7. OrderKept
        <3>1. UNCHANGED recent \/ StampCompletion
            BY <2>1 DEF WorkerEnds
        <3> QED BY <1>1, <3>1, OrderUnchanged, StampCompletionIs
    <2> QED BY <2>3, <2>4, <2>5, <2>6, <2>7, RunOverKeeps
<1> QED BY <1>2, <1>3

\* A claim that never came to a worker and expires.
LEMMA ClaimExpiresKeeps ==
    ASSUME Inv, ClaimExpires
    PROVE  Inv'
<1> USE DEF Inv
<1>1. /\ card.claim = "edge" /\ pass.pc = "idle" /\ Moves("ready", card.assignee)
      /\ runs' = [runs EXCEPT !.edge.state = "reclaimed"]
      /\ governing' = "other"
      /\ UNCHANGED <<rounds, event, attention, delivery, parking, recent, pass>>
      /\ UNCHANGED <<marker, pull, labels, command, comments>>
    BY DEF ClaimExpires, github
<1>2. /\ runs.edge.round = Round
      /\ ~(runs.core.state = "open" /\ runs.core.spawned)
    BY <1>1, StartingIs
<1>3. card' \in CardRow /\ card'.claim = "none"
    BY <1>1, MovesIs DEF Types, Status, CardRow
<1>4. /\ runs' \in [edge: RunRow, core: RunRow] /\ runs'.core = runs.core
      /\ runs'.edge.state = "reclaimed" /\ runs'.edge.round = Round
    BY <1>1, <1>2 DEF Types, RunRow, RunState
<1>5. Types'
    BY <1>1, <1>3, <1>4 DEF Types
<1>6. WorkerKeepsClaim'
    BY <1>2, <1>4 DEF WorkerKeepsClaim
<1>7. ~Starting
    BY <1>1 DEF Starting, Projecting
<1>8. ClaimInv'
    BY <1>1, <1>3, <1>6, <1>7, ClaimAfterWorld
<1>9. OrderKept
    BY <1>1, OrderUnchanged
<1>10. RoundsInv'
    BY <1>1, <1>9, RoundsKept DEF OrderKept
<1>11. StartInv'
    BY <1>1, <1>4 DEF StartInv, Round
<1>12. EarnedInv'
    BY <1>1, <1>4, EarnedAfterRun DEF Ended
<1> QED BY <1>5, <1>8, <1>10, <1>11, <1>12

\* A card moved by hand.
LEMMA OperatorKeeps ==
    ASSUME Inv, NEW to \in {"review", "ready"}, Operator("blocked", to)
    PROVE  Inv'
<1> USE DEF Inv
<1>1. /\ card.status = "blocked" /\ Moves(to, card.assignee) /\ governing' = "other"
      /\ UNCHANGED <<rounds, event, runs, attention, delivery, parking, recent, pass>>
      /\ UNCHANGED <<marker, pull, labels, command, comments>>
    BY DEF Operator, github
<1>2. card' \in CardRow /\ card'.claim = "none"
    BY <1>1, MovesIs DEF Types, Status, CardRow
<1>3. Types'
    BY <1>1, <1>2 DEF Types
<1>4. \A who \in {"edge", "core"} : ~(runs[who].state = "open" /\ runs[who].spawned)
    BY <1>1, Unowned
<1>5. WorkerKeepsClaim'
    BY <1>1, <1>4 DEF WorkerKeepsClaim
<1>6. ClaimInv'
    BY <1>1, <1>2, <1>5, ClaimAfterWorld
<1>7. OrderKept
    BY <1>1, OrderUnchanged
<1>8. RoundsInv'
    BY <1>1, <1>7, RoundsKept DEF OrderKept
<1>9. StartInv'
    BY <1>1, StartKept
<1>10. PassMoves
    BY <1>1 DEF PassMoves
<1>11. EarnedInv'
    BY <1>1, <1>7, <1>10, EarnedKept DEF OrderKept
<1> QED BY <1>3, <1>6, <1>8, <1>9, <1>11

\* What maintainers and strangers do on GitHub.
LEMMA GithubKeeps ==
    ASSUME Inv, UNCHANGED <<store, marker, pass>>,
           pull' \in [state: {"open", "merged"}, head: Nat, ready: BOOLEAN],
           labels' \in SUBSET Lifecycle, labels \subseteq labels',
           \/ UNCHANGED <<command, comments, recent>>
           \/ /\ command' \in [id: Nat, trusted: BOOLEAN] /\ command'.id = command.id + 1
              /\ UNCHANGED comments /\ Stamp("command")
           \/ comments' = comments + 1 /\ UNCHANGED command /\ Stamp("comment")
    PROVE  Inv'
<1> USE DEF Inv
<1>1. UNCHANGED <<card, rounds, event, governing, runs, delivery>>
    BY DEF store
<1>2. /\ recent' \in [Kinds -> SUBSET Kinds]
      /\ Newer("delivery", "event")' => Newer("delivery", "event")
      /\ Newer("command", "event")' => Newer("command", "event") \/ command'.id = command.id + 1
      /\ Newer("comment", "event")' => Newer("comment", "event") \/ comments' = comments + 1
    <2>1. CASE UNCHANGED recent
        BY <2>1 DEF Types, Newer, OnRecord
    <2>2. CASE Stamp("command") /\ command'.id = command.id + 1
        BY <2>2, StampKeepsOrder DEF Types, Kinds
    <2>3. CASE Stamp("comment") /\ comments' = comments + 1
        BY <2>3, StampKeepsOrder DEF Types, Kinds
    <2> QED BY <2>1, <2>2, <2>3
<1>3. command.id \in Nat /\ comments \in Nat /\ pass \in PassRow
    BY DEF Types
<1>4. /\ command' \in [id: Nat, trusted: BOOLEAN] /\ comments' \in Nat
      /\ command'.id \in {command.id, command.id + 1}
      /\ comments' \in {comments, comments + 1}
    BY <1>3 DEF Types
<1>5. Types'
    BY <1>1, <1>2, <1>4 DEF Types
<1>6. ClaimInv'
    BY <1>1, ClaimKept
<1>7. StartInv'
    BY <1>1, StartKept
<1>8. EarnedInv'
    <2>1. PassMoves
        BY DEF PassMoves
    <2> QED BY <1>1, <1>2, <2>1, EarnedKept
<1>9. RoundsInv'
    <2>1. Round' = Round /\ Round \in Nat /\ \A k \in 1..Round : rounds[k].id \in Nat
        <3>1. Round' = Round
            BY <1>1 DEF Round
        <3>2. Round \in Nat /\ \A k \in 1..Round : rounds[k] \in RoundRow
            BY DEF Types, Round
        <3>3. \A row \in RoundRow : row.id \in Nat
            BY DEF RoundRow
        <3> QED BY <3>1, <3>2, <3>3
    <2>2. ASSUME NEW trigger, NEW n \in Nat, NEW m \in Nat, n <= m, Before(trigger, n)
          PROVE  Before(trigger, m)
        BY <2>1, <2>2 DEF Before
    <2>3. OneRoundPerCommand'
        BY <1>1 DEF RoundsInv, OneRoundPerCommand, Round
    <2>4. Before("label", command'.id + 1)
        <3>1. Before("label", command.id + 1) /\ command.id + 1 \in Nat /\ command'.id + 1 \in Nat
            BY <1>3, <1>4 DEF RoundsInv
        <3>2. command.id + 1 <= command'.id + 1
            BY <1>3, <1>4
        <3> QED BY <2>2, <3>1, <3>2
    <2>5. Before("comment", comments' + 1)
        <3>1. Before("comment", comments + 1)
            BY DEF RoundsInv
        <3>2. CASE comments' = comments
            BY <3>1, <3>2
        <3>3. CASE comments' = comments + 1
            <4>1. comments + 1 \in Nat /\ comments' + 1 \in Nat /\ comments + 1 <= comments' + 1
                BY <1>3, <3>3
            <4> QED BY <2>2, <3>1, <4>1
        <3> QED BY <1>4, <3>2, <3>3
    <2>6. Newer("command", "event")' => Before("label", command'.id)
        BY <1>2, <1>4 DEF RoundsInv
    <2>7. Newer("comment", "event")' => Before("comment", comments')
        BY <1>2, <1>4 DEF RoundsInv
    <2>8. pass.by \in Nat
        BY <1>3 DEF PassRow
    <2>9. pass.pc = "write" /\ pass.plan.db = "rework" => Before("label", pass.by) /\ pass.by <= command'.id
        BY <1>3, <1>4, <2>8 DEF RoundsInv
    <2>10. pass.pc = "write" /\ pass.plan.db = "retry" => Before("comment", pass.by) /\ pass.by <= comments'
        BY <1>3, <1>4, <2>8 DEF RoundsInv
    <2>11. \A trigger, n : Before(trigger, n) => \A k \in 1..Round' : rounds'[k].trigger = trigger => rounds'[k].id < n
        BY <1>1, <2>1 DEF Before
    <2> QED BY <2>3, <2>4, <2>5, <2>6, <2>7, <2>9, <2>10, <2>11 DEF RoundsInv, Before
<1> QED BY <1>5, <1>6, <1>7, <1>8, <1>9

\* Every step of the world keeps the invariant.
LEMMA WorldKeeps ==
    ASSUME Inv, World
    PROVE  Inv'
<1>1. /\ pull \in [state: {"open", "merged"}, head: Nat, ready: BOOLEAN]
      /\ labels \in SUBSET Lifecycle /\ command \in [id: Nat, trusted: BOOLEAN]
    BY DEF Inv, Types
<1>2. CASE Push \/ Merge \/ IssueNotReady
    <2>1. pull' \in [state: {"open", "merged"}, head: Nat, ready: BOOLEAN]
        <3>1. CASE Push
            BY <1>1, <3>1 DEF Push
        <3>2. CASE Merge
            BY <1>1, <3>2 DEF Merge
        <3>3. CASE IssueNotReady
            BY <1>1, <3>3 DEF IssueNotReady
        <3> QED BY <1>2, <3>1, <3>2, <3>3
    <2>2. UNCHANGED <<store, marker, labels, command, comments, recent, pass>>
        BY <1>2 DEF Push, Merge, IssueNotReady
    <2> QED BY <1>1, <2>1, <2>2, GithubKeeps
<1>3. CASE CommentRetry
    <2>1. /\ comments' = comments + 1 /\ Stamp("comment")
          /\ UNCHANGED <<store, marker, pull, labels, command, pass>>
        BY <1>3 DEF CommentRetry
    <2> QED BY <1>1, <2>1, GithubKeeps
<1>4. CASE LabelRework(TRUE) \/ LabelRework(FALSE)
    <2>1. PICK trusted \in BOOLEAN : LabelRework(trusted)
        BY <1>4
    <2>2. /\ labels' = labels \union {"rework"} /\ Stamp("command")
          /\ command' = [id |-> command.id + 1, trusted |-> trusted]
          /\ UNCHANGED <<store, marker, pull, comments, pass>>
        BY <2>1 DEF LabelRework
    <2>3. labels' \in SUBSET Lifecycle /\ labels \subseteq labels'
        BY <1>1, <2>2 DEF Lifecycle
    <2>4. command' \in [id: Nat, trusted: BOOLEAN] /\ command'.id = command.id + 1
        BY <1>1, <2>2
    <2> QED BY <1>1, <2>2, <2>3, <2>4, GithubKeeps
<1>5. CASE \E who \in {"edge", "core"} :
              \/ WorkerLost(who)
              \/ \E outcome \in {"completed", "blocked", "review_requested"}, head \in {NoHead, pull.head} :
                    WorkerEnds(who, outcome, head)
    BY <1>5, WorkerKeeps
<1>6. CASE \E to \in {"review", "ready"} : Operator("blocked", to)
    BY <1>6, OperatorKeeps
<1> QED BY <1>2, <1>3, <1>4, <1>5, <1>6, CoreClaimKeeps, ClaimExpiresKeeps DEF World

-----------------------------------------------------------------------------
(* The theorems                                                             *)

\* The strengthening holds in every reachable state.
LEMMA NextKeeps ==
    ASSUME Inv, [Next]_vars
    PROVE  Inv'
<1>1. CASE Read \/ ReadAgain
    <2>1. card.status \in Status /\ pass.busy \in BOOLEAN /\ ("working" \in labels) \in BOOLEAN
        BY DEF Inv, Types, CardRow, PassRow
    <2>2. CASE Read
        BY <2>1, <2>2, DecideKeeps DEF Read
    <2>3. CASE ReadAgain
        <3>1. pass.status \in {"review", "ready"}
            BY <2>3 DEF ReadAgain, Inv, ClaimInv
        <3>2. {"review", "ready"} \subseteq Status
            BY DEF Status
        <3> QED BY <2>1, <2>3, <3>1, <3>2, DecideKeeps DEF ReadAgain
    <2> QED BY <1>1, <2>2, <2>3
<1>2. CASE Write \/ GetLabels \/ PatchLabels \/ CheckLabels \/ Last
    BY <1>2, WriteKeeps, ProjectionKeeps, LastKeeps
<1>3. CASE Claim \/ Reclaim \/ Spawn
    BY <1>3, ClaimKeeps, ReclaimKeeps, SpawnKeeps
<1>4. CASE SkipLane \/ Kill
    BY <1>4, EndKeeps DEF SkipLane, Kill
<1>5. CASE World
    BY <1>5, WorldKeeps
<1>6. CASE UNCHANGED vars
    BY <1>6 DEF vars, Inv, Types, ClaimInv, WorkerKeepsClaim, Starting, PlanShape, RoundsInv,
       OneRoundPerCommand, Before, Newer, OnRecord, Round, StartInv, EarnedInv, Earned, Delivered,
       UnderWay
<1> QED BY <1>1, <1>2, <1>3, <1>4, <1>5, <1>6 DEF Next, Edge
\* So it is an invariant of the specification.
LEMMA SpecKeeps == Spec => []Inv
    BY InitInv, NextKeeps, PTL DEF Spec

\* A worker of the edge or the core that has not ended its run still holds the claim of its
\* card: no write of a pass, however old the reading it rests on, takes the card from it.
THEOREM WorkersKeepTheirClaim == Spec => []WorkerKeepsClaim
<1>1. Inv => WorkerKeepsClaim
    BY DEF Inv, ClaimInv
<1> QED BY SpecKeeps, <1>1, PTL

\* apply_rework opens at most one round for an addition of agent-rework or a retry comment.
THEOREM CommandsOpenOneRound == Spec => []OneRoundPerCommand
<1>1. Inv => OneRoundPerCommand
    BY DEF Inv, RoundsInv
<1> QED BY SpecKeeps, <1>1, PTL

\* Only the core dispatcher makes a card the core's.
LEMMA OnlyTheCoreClaims ==
    ASSUME Inv, [Next]_vars, card.claim = "none", card'.claim = "core"
    PROVE  CoreClaim
<1>1. card \in CardRow
    BY DEF Inv, Types
<1>2. CASE \/ Read \/ ReadAgain \/ GetLabels \/ PatchLabels \/ CheckLabels \/ SkipLane \/ Kill
           \/ UNCHANGED vars
    BY <1>2 DEF Read, ReadAgain, Decide, GetLabels, PatchLabels, CheckLabels, SkipLane, Kill, vars, store
<1>3. CASE Write
    <2>1. card' = card \/ Apply(pass.plan.db)
        BY <1>3 DEF Write, store
    <2>2. \A to, assignee : Moves(to, assignee) => card'.claim = "none"
        BY <1>1 DEF Moves, CardRow
    <2>3. \A trigger : OpenRound(trigger) => card'.claim = "none"
        BY DEF OpenRound, Card
    <2> QED BY <2>1, <2>2, <2>3 DEF Apply, Park, Finish, Deliver
<1>4. CASE Last
    <2>1. \A to, assignee : Moves(to, assignee) => card'.claim = "none"
        BY <1>1 DEF Moves, CardRow
    <2>2. AfterFailure("none").claim = "none"
        BY <1>1, AfterFailureIs
    <2> QED BY <1>4, <2>1, <2>2
        DEF Last, Attend, Requeue, RecordDelivered, FinishCleaned, RecordUnprojected, Finish, store
<1>5. CASE Claim \/ Reclaim
    BY <1>1, <1>5 DEF Claim, Reclaim, Moves, CardRow
<1>6. CASE Spawn
    <2>1. pass.pc = "spawn"
        BY <1>6 DEF Spawn
    <2> QED BY <2>1 DEF Inv, ClaimInv, Starting
<1>7. CASE World
    <2>1. CASE Push \/ Merge \/ IssueNotReady \/ CommentRetry \/ LabelRework(TRUE) \/ LabelRework(FALSE)
        BY <2>1 DEF Push, Merge, IssueNotReady, CommentRetry, LabelRework, store
    <2>2. CASE \E who \in {"edge", "core"} :
                  \/ WorkerLost(who)
                  \/ \E outcome \in {"completed", "blocked", "review_requested"},
                        head \in {NoHead, pull.head} : WorkerEnds(who, outcome, head)
        BY <2>2 DEF WorkerLost, WorkerEnds, Working
    <2>3. CASE ClaimExpires
        BY <2>3 DEF ClaimExpires
    <2>4. CASE \E to \in {"review", "ready"} : Operator("blocked", to)
        BY <1>1, <2>4 DEF Operator, Moves, CardRow
    <2> QED BY <1>7, <2>1, <2>2, <2>3, <2>4 DEF World
<1> QED BY <1>2, <1>3, <1>4, <1>5, <1>6, <1>7 DEF Next, Edge

\* The first worker of a round is the edge's: until the edge has claimed the card for the round,
\* the core dispatcher finds it reserved.
THEOREM RoundsStartAtTheEdge == Spec => RoundStartsAtEdge
<1>1. ASSUME Inv, [Next]_vars
      PROVE  [card.status = "ready" /\ card'.claim = "core" /\ event = "rework"
                => runs.edge.round = Round]_vars
    <2> SUFFICES ASSUME card.status = "ready", card'.claim = "core", event = "rework"
                 PROVE  runs.edge.round = Round
        OBVIOUS
    <2>1. card.claim = "none"
        BY <1>1 DEF Inv, ClaimInv
    <2>2. CoreClaim
        BY <1>1, <2>1, OnlyTheCoreClaims
    <2>3. card.assignee # "reserved"
        BY <2>2 DEF CoreClaim
    <2> QED BY <1>1, <2>3 DEF Inv, StartInv
<1> QED BY SpecKeeps, <1>1, PTL DEF Spec, RoundStartsAtEdge

\* agent-review-ready appears only through the projection of a plan that adds it.
LEMMA ReadyIsProjected ==
    ASSUME Inv, [Next]_vars, "ready" \in labels', "ready" \notin labels
    PROVE  Earned
<1>1. PatchLabels
    <2> SUFFICES ASSUME ~PatchLabels PROVE FALSE
        OBVIOUS
    <2>1. CASE \/ Read \/ ReadAgain \/ Write \/ GetLabels \/ CheckLabels \/ Last \/ Claim \/ SkipLane
               \/ Reclaim \/ Spawn \/ Kill \/ UNCHANGED vars
        BY <2>1 DEF Read, ReadAgain, Decide, Write, GetLabels, CheckLabels, Last, Claim, SkipLane,
           Reclaim, Spawn, Kill, vars, github
    <2>2. CASE World
        <3>1. CASE CoreClaim \/ ClaimExpires \/ Push \/ Merge \/ IssueNotReady \/ CommentRetry
            BY <3>1 DEF CoreClaim, ClaimExpires, Push, Merge, IssueNotReady, CommentRetry, github
        <3>2. CASE \E who \in {"edge", "core"} :
                      \/ WorkerLost(who)
                      \/ \E outcome \in {"completed", "blocked", "review_requested"},
                            head \in {NoHead, pull.head} : WorkerEnds(who, outcome, head)
            BY <3>2 DEF WorkerLost, WorkerEnds, github
        <3>3. CASE \E to \in {"review", "ready"} : Operator("blocked", to)
            BY <3>3 DEF Operator, github
        <3>4. CASE LabelRework(TRUE) \/ LabelRework(FALSE)
            <4>1. labels' = labels \union {"rework"}
                BY <3>4 DEF LabelRework
            <4> QED BY <4>1
        <3> QED BY <2>2, <3>1, <3>2, <3>3, <3>4 DEF World
    <2> QED BY <2>1, <2>2 DEF Next, Edge
<1>2. Types
    BY DEF Inv
<1>3. pass.pc = "patch" /\ labels' = pass.desired
    BY <1>1, <1>2, ProjectionIs
<1>4. "ready" \in pass.plan.add /\ UnderWay
    BY <1>3 DEF Inv, EarnedInv, UnderWay, Projecting
<1> QED BY <1>4 DEF Inv, EarnedInv

\* A delivery is recorded by the write that parks the card or by the one that goes last.
LEMMA DeliveryIsAttested ==
    ASSUME Inv, [Next]_vars, delivery' # delivery
    PROVE  marker = delivery'
<1>1. \/ pass.pc = "write" /\ pass.plan.db = "deliver" /\ RecordDelivery
      \/ pass.pc = "last" /\ pass.plan.last = "delivered" /\ RecordDelivery
    <2>1. CASE \/ Read \/ ReadAgain \/ GetLabels \/ PatchLabels \/ CheckLabels \/ Claim \/ SkipLane
               \/ Reclaim \/ Spawn \/ Kill \/ UNCHANGED vars
        BY <2>1 DEF Read, ReadAgain, Decide, GetLabels, PatchLabels, CheckLabels, Claim, SkipLane,
           Reclaim, Spawn, Kill, vars, store
    <2>2. CASE World
        BY <2>2 DEF World, CoreClaim, ClaimExpires, Push, Merge, IssueNotReady, CommentRetry,
           LabelRework, WorkerLost, WorkerEnds, Operator, store
    <2>3. CASE Write
        <3>1. Apply(pass.plan.db)
            BY <2>3 DEF Write, store
        <3> QED BY <2>3, <3>1 DEF Write, Apply, OpenRound, Park, Finish, Deliver
    <2>4. CASE Last
        BY <2>4 DEF Last, Attend, Requeue, RecordDelivered, FinishCleaned, RecordUnprojected, Finish, store
    <2> QED BY <2>1, <2>2, <2>3, <2>4 DEF Next, Edge
<1>2. marker = [round |-> Round, head |-> pass.head]
    BY <1>1 DEF Inv, EarnedInv, UnderWay
<1> QED BY <1>1, <1>2 DEF RecordDelivery

\* agent-review-ready appears only for a round whose own edge-claimed run has ended and whose
\* completion marker is posted, and a delivery is recorded only for the round and the head of
\* the marker: whatever evidence a pass read, the card and GitHub still bear it out when it
\* writes.
THEOREM CompletionsAreEarned == Spec => CompletionIsEarned
<1>1. ASSUME Inv, [Next]_vars
      PROVE  [/\ "ready" \in labels' /\ "ready" \notin labels
                   => /\ runs.edge.round = Round
                      /\ runs.edge.state \in {"completed", "blocked", "review_requested"}
                      /\ marker.round = Round
              /\ delivery' # delivery => marker = delivery']_vars
    BY <1>1, ReadyIsProjected, DeliveryIsAttested DEF Earned, Ended
<1> QED BY SpecKeeps, <1>1, PTL DEF Spec, CompletionIsEarned
=============================================================================
