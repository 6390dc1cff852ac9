-------------------------- MODULE EdgeLanesProofs --------------------------
(***************************************************************************)
(* Proofs about the edge outside the rework lifecycle, EdgeHold and        *)
(* EdgeTerminal, for any pull requests, reasons of a block, heads, rounds, *)
(* answers and faults.  MCEdgeLanes, which this module extends, has the    *)
(* names of both.                                                          *)
(***************************************************************************)
EXTENDS MCEdgeLanes, TLAPS

-----------------------------------------------------------------------------
(* The inductive invariant of a card without parents                        *)

PullStates == {"none", "open", "closed", "merged"}
InState(s) == {p \in Pulls : pulls[p] = s}

Phases == {"idle", "pulls", "conclude", "signal", "agree", "supersede", "decide", "apply",
           "issue", "comments", "resume", "upsert", "label", "record"}
Outcomes == {"none", "no_linked_pr", "linked_pr_open", "linked_pr_closed_not_merged",
             "all_linked_prs_merged", "superseded_pr_merged", "authoritative_done_preserved",
             "trusted_issue_completed"}
Reasons == Causes \union {"none"}
MarkerTexts == [kind : {"none", "hold", "consumed"}, cause : Reasons, answer : Nat]
Cards == [status : Statuses \union {"none"}, cause : Reasons]
Histories == [consumed : Nat, resumes : Nat, done : SUBSET Outcomes, superseded : SUBSET Pulls]
Issues == {i \in [state : IssueStates, hold : BOOLEAN, agreed : BOOLEAN] :
              i.state = "completed" => i.agreed}

Passes == [pc : Phases, status : Statuses \union {"none"}, linked : SUBSET Pulls, closed : SUBSET Pulls,
           merged : SUBSET Pulls, desired : {"none", "review", "done"}, reason : Outcomes,
           ready : BOOLEAN, hold : BOOLEAN, seen : Nat, text : MarkerTexts]

Types ==
    /\ card \in Cards
    /\ events \in Histories
    /\ pulls \in [Pulls -> PullStates] /\ fresh \subseteq Pulls
    /\ issue \in Issues
    /\ answers \in Nat
    /\ pass \in Passes

\* The answer a pass is about to use was there, and no pass used it before.
AnswersAreNew ==
    /\ events.consumed <= answers /\ pass.seen <= answers
    /\ pass.pc = "resume" => events.consumed < pass.seen

\* What a pass read of the pull requests is final, and so is what was given up.
StatesAreFinal ==
    /\ pass.closed \subseteq InState("closed") /\ pass.merged \subseteq InState("merged")
    /\ events.superseded \subseteq InState("closed")

\* Nothing is, or is about to be, finished without its grounds: a merge, or the word of a
\* trusted actor.
Earned(reason) == IF reason = "trusted_issue_completed" THEN issue.agreed ELSE InState("merged") # {}
DoneHasGrounds ==
    /\ \A reason \in events.done : Earned(reason)
    /\ pass.desired = "done" => Earned(pass.reason)

HoldInv == Types /\ AnswersAreNew /\ OneResumePerAnswer /\ StatesAreFinal /\ DoneHasGrounds

-----------------------------------------------------------------------------
(* The inductive invariant of a root with parents                           *)

Rows == [status : {"todo", "ready", "running", "blocked", "review", "done", "archived"}, owned : BOOLEAN]

Links == {<<"spec", "developer">>, <<"developer", "reviewer">>, <<"reviewer", "root">>,
          <<"late", "root">>, <<"developer", "late">>}

GraphTypes ==
    /\ row \in [T!Cards -> Rows] /\ pull \in [state : {"open", "merged", "closed"}, head : Heads]
    /\ links \subseteq Links
    /\ sweep = [pc |-> sweep.pc, rows |-> sweep.rows, links |-> sweep.links, proven |-> sweep.proven,
                head |-> sweep.head]

\* Only a running card is owned.
OwnersRun == \A c \in T!Cards : row[c].owned <=> row[c].status = "running"

\* The head a pass read together with the merge is the one that was merged.
MergeIsRead ==
    sweep.pc \in {"issue", "prove", "converge"} => pull.state = "merged" /\ sweep.head = pull.head

GraphInv == GraphTypes /\ OwnersRun /\ MergeIsRead

-----------------------------------------------------------------------------
(* Lemmas about the pass                                                    *)

\* A pass that has ended, or has just begun, knows nothing.
LEMMA IdleIsTyped == Idle \in Passes /\ NoText \in MarkerTexts
<1>1. NoText \in MarkerTexts
  BY DEF NoText, MarkerTexts, Reasons
<1>2. QED
  BY <1>1 DEF Idle, Passes, Phases, Outcomes

\* What the step of a pass that writes nothing has to show.
LEMMA ReadingKeeps ==
    ASSUME HoldInv, UNCHANGED <<events, pulls, answers>>,
           card' \in Cards, fresh' \subseteq Pulls,
           issue' \in Issues, issue.agreed => issue'.agreed,
           pass' \in Passes, pass'.closed \subseteq InState("closed"), pass'.merged \subseteq InState("merged"),
           pass'.seen <= answers, pass'.pc = "resume" => events.consumed < pass'.seen,
           pass'.desired = "done" => Earned(pass'.reason)
    PROVE  HoldInv'
<1>1. \A s \in PullStates : InState(s)' = InState(s)
  BY DEF InState
<1>2. Types' /\ AnswersAreNew' /\ OneResumePerAnswer'
  BY DEF HoldInv, Types, AnswersAreNew, OneResumePerAnswer
<1>3. InState("closed")' = InState("closed") /\ InState("merged")' = InState("merged")
  BY DEF InState
<1>4. StatesAreFinal' /\ DoneHasGrounds'
  BY <1>3 DEF HoldInv, StatesAreFinal, DoneHasGrounds, Earned
<1>5. QED
  BY <1>2, <1>4 DEF HoldInv

\* A pass that ends writes nothing.
LEMMA EndsKeeps ==
    ASSUME HoldInv, Ends, UNCHANGED <<events, pulls, answers>>,
           card' \in Cards, fresh' \subseteq Pulls,
           issue' \in Issues, issue.agreed => issue'.agreed
    PROVE  HoldInv'
<1>1. pass' \in Passes /\ pass'.closed = {} /\ pass'.merged = {} /\ pass'.seen = 0
      /\ pass'.pc = "idle" /\ pass'.desired = "none"
  BY IdleIsTyped DEF Ends, Idle
<1>2. answers \in Nat
  BY DEF HoldInv, Types
<1>3. QED
  BY <1>1, <1>2, ReadingKeeps

\* A decision to finish the card names a merged pull request, or one did before, or a trusted
\* actor has completed the Issue (evaluate_completion, verify_completion and its wrapper,
\* _has_prior_authoritative_done).
LEMMA DecisionHasGrounds ==
    ASSUME HoldInv, Decision.desired = "done"
    PROVE  Earned(Decision.reason)
<1>1. /\ pass.linked \subseteq Pulls /\ pass.merged \subseteq InState("merged")
      /\ "all_linked_prs_merged" \in events.done => InState("merged") # {}
      /\ issue.state = "completed" => issue.agreed
  BY DEF HoldInv, Types, Passes, StatesAreFinal, DoneHasGrounds, Earned, Issues
<1>2. ASSUME NEW ps, Conclusion(ps).desired = "done", ps \subseteq pass.linked
      PROVE  Earned(Conclusion(ps).reason)
  <2>1. ps # {} /\ ps \subseteq pass.merged /\ Conclusion(ps).reason = "all_linked_prs_merged"
    BY <1>2 DEF Conclusion
  <2>2. QED
    BY <1>1, <2>1 DEF Earned
<1>3. ASSUME NEW ps, Conclusion(ps).reason = "linked_pr_closed_not_merged"
      PROVE  ~(ps \subseteq pass.merged) /\ ps \intersect Opened = {}
  BY <1>3 DEF Conclusion
<1>4. CASE Decision = Conclusion(Effective)
  BY <1>2, <1>4 DEF Effective
<1>5. CASE Decision = Conclusion(pass.linked)
  BY <1>2, <1>5
<1>6. CASE Lineage /\ Decision = [desired |-> "done", reason |-> "superseded_pr_merged"]
  <2>1. PICK p \in pass.linked : p \notin pass.merged /\ p \in pass.closed
    BY <1>3, <1>6 DEF Lineage, Opened
  <2>2. p \in Replaced
    BY <1>6, <2>1 DEF Lineage
  <2>3. QED
    BY <1>1, <1>6, <2>2 DEF Replaced, Earned
<1>7. CASE Preserved /\ Decision = [desired |-> "done", reason |-> "authoritative_done_preserved"]
  BY <1>1, <1>7 DEF Preserved, Earned
<1>8. CASE Completed /\ Decision = [desired |-> "done", reason |-> "trusted_issue_completed"]
  BY <1>1, <1>8 DEF Completed, Earned
<1>9. QED
  BY <1>4, <1>5, <1>6, <1>7, <1>8 DEF Decision

-----------------------------------------------------------------------------
(* The steps of a pass                                                      *)

\* Reading the card and the pull requests and concluding from them (ReadCard to ReadAgreement).
LEMMA ReadsKeep ==
    ASSUME HoldInv, ReadCard \/ ReadPulls \/ Conclude \/ ReadSignal \/ ReadAgreement \/ Decide
    PROVE  HoldInv'
<1>1. /\ card \in Cards /\ pass \in Passes /\ answers \in Nat
      /\ issue \in Issues
      /\ fresh \subseteq Pulls /\ pulls \in [Pulls -> PullStates] /\ pass.seen <= answers
      /\ pass.closed \subseteq InState("closed") /\ pass.merged \subseteq InState("merged")
      /\ pass.desired = "done" => Earned(pass.reason)
      /\ events.superseded \subseteq Pulls
  BY DEF HoldInv, Types, AnswersAreNew, StatesAreFinal, DoneHasGrounds, Histories
<1>2. CASE ReadCard
  <2>1. pass' = [Idle EXCEPT !.pc = "pulls", !.status = card.status]
    BY <1>2 DEF ReadCard
  <2>2. pass' \in Passes /\ pass'.closed = {} /\ pass'.merged = {} /\ pass'.seen = 0
        /\ pass'.pc = "pulls" /\ pass'.desired = "none"
    <3>1. card.status \in Statuses \union {"none"}
      BY <1>1 DEF Cards
    <3>2. QED
      BY <2>1, <3>1, IdleIsTyped DEF Idle, Passes, Phases
  <2>3. QED
    BY <1>1, <1>2, <2>2, ReadingKeeps DEF ReadCard, github
<1>3. CASE ReadPulls
  <2>1. Linked \subseteq Pulls
    BY DEF Linked
  <2>2. /\ {p \in Linked : pulls[p] = "closed"} \subseteq InState("closed")
        /\ {p \in Linked : pulls[p] = "merged"} \subseteq InState("merged")
    BY <2>1 DEF InState
  <2>3. /\ pass' \in Passes /\ pass'.pc = "conclude" /\ pass'.seen = pass.seen /\ pass'.desired = pass.desired
        /\ pass'.reason = pass.reason
        /\ pass'.closed = {p \in Linked : pulls[p] = "closed"}
        /\ pass'.merged = {p \in Linked : pulls[p] = "merged"}
    BY <1>1, <1>3, <2>1 DEF ReadPulls, Passes, Phases
  <2>4. QED
    BY <1>1, <1>3, <2>2, <2>3, ReadingKeeps DEF ReadPulls, github
<1>4. CASE Conclude
  <2>1. Decision.desired \in {"review", "done"} /\ Decision.reason \in Outcomes
    BY DEF Outcomes, Decision, Conclusion
  <2>2. PICK pc \in {"signal", "decide"} :
           pass' = [pass EXCEPT !.pc = pc, !.merged = {}, !.desired = Decision.desired,
                                !.reason = Decision.reason]
    BY <1>4 DEF Conclude
  <2>3. /\ pass' \in Passes /\ pass'.pc = pc /\ pass'.seen = pass.seen
        /\ pass'.closed = pass.closed /\ pass'.merged = {}
        /\ pass'.desired = Decision.desired /\ pass'.reason = Decision.reason
    BY <1>1, <2>1, <2>2 DEF Passes, Phases
  <2>4. QED
    BY <1>1, <1>4, <2>3, ReadingKeeps, DecisionHasGrounds DEF Conclude, github
<1>5. CASE ReadSignal
  <2>1. CASE Ends
    BY <1>1, <1>5, <2>1, EndsKeeps DEF ReadSignal, github
  <2>2. CASE ~Ends
    <3>1. PICK pc \in {"decide", "agree"} : pass' = [pass EXCEPT !.pc = pc]
      BY <1>5, <2>2 DEF ReadSignal
    <3>2. /\ pass' \in Passes /\ pass'.pc = pc /\ pass'.seen = pass.seen
          /\ pass'.closed = pass.closed /\ pass'.merged = pass.merged /\ pass'.desired = pass.desired
          /\ pass'.reason = pass.reason
      BY <1>1, <3>1 DEF Passes, Phases
    <3>3. QED
      BY <1>1, <1>5, <3>2, ReadingKeeps DEF ReadSignal, github
  <2>3. QED
    BY <2>1, <2>2
<1>6. CASE ReadAgreement
  <2>1. CASE Ends
    BY <1>1, <1>6, <2>1, EndsKeeps DEF ReadAgreement, github
  <2>2. CASE ~Ends
    <3>1. pass' = [Idle EXCEPT !.pc = "supersede", !.closed = pass.closed]
      BY <1>6, <2>2 DEF ReadAgreement
    <3>2. /\ pass' \in Passes /\ pass'.pc = "supersede" /\ pass'.seen = 0
          /\ pass'.closed = pass.closed /\ pass'.merged = {} /\ pass'.desired = "none"
      <4>1. pass.closed \in SUBSET Pulls
        BY <1>1 DEF Passes
      <4>2. QED
        BY <3>1, <4>1, IdleIsTyped DEF Passes, Phases, Idle
    <3>3. QED
      BY <1>1, <1>6, <3>2, ReadingKeeps DEF ReadAgreement, github
  <2>3. QED
    BY <2>1, <2>2
<1>7. CASE Decide
  <2>1. CASE pass' = [pass EXCEPT !.pc = "apply", !.linked = {}, !.closed = {}]
    <3>1. /\ pass' \in Passes /\ pass'.pc = "apply" /\ pass'.seen = pass.seen
          /\ pass'.closed = {} /\ pass'.merged = pass.merged /\ pass'.desired = pass.desired
          /\ pass'.reason = pass.reason
      BY <1>1, <2>1 DEF Passes, Phases
    <3>2. QED
      BY <1>1, <1>7, <3>1, ReadingKeeps DEF Decide, github
  <2>2. CASE pass' = [Idle EXCEPT !.pc = "issue", !.linked = Effective]
    <3>1. Effective \in SUBSET Pulls
      BY <1>1 DEF Passes, Effective
    <3>2. /\ pass' \in Passes /\ pass'.pc = "issue" /\ pass'.seen = 0
          /\ pass'.closed = {} /\ pass'.merged = {} /\ pass'.desired = "none"
      BY <2>2, <3>1, IdleIsTyped DEF Passes, Phases, Idle
    <3>3. QED
      BY <1>1, <1>7, <3>2, ReadingKeeps DEF Decide, github
  <2>3. QED
    BY <1>7, <2>1, <2>2 DEF Decide
<1>8. QED
  BY <1>2, <1>3, <1>4, <1>5, <1>6, <1>7

\* Reading the Issue and its comments and writing the marker and the label (_reconcile_blocked).
LEMMA ProjectionsKeep ==
    ASSUME HoldInv, ReadIssue \/ ReadComments \/ Upsert \/ AddLabel \/ Record \/ CallFails \/ Dies
    PROVE  HoldInv'
<1>1. /\ card \in Cards /\ pass \in Passes /\ answers \in Nat
      /\ issue \in Issues
      /\ fresh \subseteq Pulls /\ pass.seen <= answers
      /\ pass.closed \subseteq InState("closed") /\ pass.merged \subseteq InState("merged")
      /\ pass.desired = "done" => Earned(pass.reason)
      /\ events.consumed \in Nat /\ events.consumed <= answers
  BY DEF HoldInv, Types, AnswersAreNew, StatesAreFinal, DoneHasGrounds, Histories
<1>2. CASE ReadIssue
  <2>1. CASE Ends
    BY <1>1, <1>2, <2>1, EndsKeeps DEF ReadIssue, github
  <2>2. CASE ~Ends
    <3>1. PICK ready \in BOOLEAN :
             pass' = [pass EXCEPT !.pc = "comments", !.hold = issue.hold, !.ready = ready]
      BY <1>2, <2>2 DEF ReadIssue
    <3>2. /\ pass' \in Passes /\ pass'.pc = "comments" /\ pass'.seen = pass.seen
          /\ pass'.closed = pass.closed /\ pass'.merged = pass.merged /\ pass'.desired = pass.desired
          /\ pass'.reason = pass.reason
      BY <1>1, <3>1 DEF Passes, Phases, Issues
    <3>3. QED
      BY <1>1, <1>2, <3>2, ReadingKeeps DEF ReadIssue, github
  <2>3. QED
    BY <2>1, <2>2
<1>3. CASE ReadComments
  <2>1. PICK pc \in {"resume", "upsert"}, seen \in {0, answers},
             text \in {ConsumedText(answers), HoldText(card.cause)} :
           /\ pass' = [pass EXCEPT !.pc = pc, !.linked = {}, !.ready = FALSE, !.seen = seen, !.text = text]
           /\ pc = "resume" => Outcome = "resume" /\ seen = answers
    <3>1. Outcome = "resume" => ~Unanswered
      BY DEF Outcome
    <3>2. QED
      BY <1>3, <3>1 DEF ReadComments
  <2>2. text \in MarkerTexts
    BY <1>1 DEF ConsumedText, HoldText, Cards, Reasons, MarkerTexts
  <2>3. pc = "resume" => events.consumed < seen
    BY <1>1, <2>1 DEF Outcome, LastConsumed
  <2>4. seen \in Nat /\ seen <= answers
    BY <1>1
  <2>5. /\ pass' \in Passes /\ pass'.pc = pc /\ pass'.seen = seen
        /\ pass'.closed = pass.closed /\ pass'.merged = pass.merged /\ pass'.desired = pass.desired
        /\ pass'.reason = pass.reason
    BY <1>1, <2>1, <2>2, <2>4 DEF Passes, Phases
  <2>6. QED
    BY <1>1, <1>3, <2>3, <2>4, <2>5, ReadingKeeps DEF ReadComments, github
<1>4. CASE Upsert
  <2>1. CASE Ends
    BY <1>1, <1>4, <2>1, EndsKeeps DEF Upsert
  <2>2. CASE ~Ends
    <3>1. PICK pc \in {"label", "record"}, text \in {pass.text, NoText} :
             pass' = [Idle EXCEPT !.pc = pc, !.text = text]
      BY <1>4, <2>2 DEF Upsert
    <3>2. text \in MarkerTexts
      BY <1>1, IdleIsTyped DEF Passes
    <3>3. /\ pass' \in Passes /\ pass'.pc = pc /\ pass'.seen = 0
          /\ pass'.closed = {} /\ pass'.merged = {} /\ pass'.desired = "none"
      BY <3>1, <3>2, IdleIsTyped DEF Passes, Phases, Idle
    <3>4. QED
      BY <1>1, <1>4, <3>3, ReadingKeeps DEF Upsert
  <2>3. QED
    BY <2>1, <2>2
<1>5. CASE AddLabel
  <2>1. issue' \in Issues
    BY <1>1, <1>5 DEF AddLabel, Issues
  <2>2. /\ pass' \in Passes /\ pass'.pc = "record" /\ pass'.seen = pass.seen
        /\ pass'.closed = pass.closed /\ pass'.merged = pass.merged /\ pass'.desired = pass.desired
        /\ pass'.reason = pass.reason
    BY <1>1, <1>5 DEF AddLabel, Passes, Phases
  <2>3. QED
    BY <1>1, <1>5, <2>1, <2>2, ReadingKeeps DEF AddLabel
<1>6. CASE Record \/ CallFails \/ Dies
  BY <1>1, <1>6, EndsKeeps DEF Record, CallFails, Dies, github
<1>7. QED
  BY <1>2, <1>3, <1>4, <1>5, <1>6

\* The writes to the card: the supersession, the completion and the resume.
LEMMA WritesKeep ==
    ASSUME HoldInv, Supersede \/ Apply \/ Resume
    PROVE  HoldInv'
<1>1. /\ card \in Cards /\ pass \in Passes /\ answers \in Nat
      /\ issue \in Issues /\ pulls \in [Pulls -> PullStates]
      /\ fresh \subseteq Pulls /\ pass.seen <= answers /\ Ends
      /\ events \in Histories
      /\ UNCHANGED <<pulls, issue, answers>>
  BY DEF HoldInv, Types, AnswersAreNew, Supersede, Apply, Resume, github
<1>2. CASE events' = events
  <2>1. card' \in Cards /\ fresh' \subseteq Pulls
    <3>1. /\ fresh' \in {fresh, {}}
          /\ \/ card' = card
             \/ \E status \in {"ready", pass.desired} : card' = [card EXCEPT !.status = status]
      BY DEF Supersede, Apply, Resume
    <3>2. QED
      BY <1>1, <3>1 DEF Cards, Statuses, Passes
  <2>2. QED
    BY <1>1, <1>2, <2>1, EndsKeeps
<1>3. CASE events' # events
  <2>1. /\ pass' \in Passes /\ pass'.closed = {} /\ pass'.merged = {} /\ pass'.seen = 0
        /\ pass'.pc = "idle" /\ pass'.desired = "none"
    BY <1>1, IdleIsTyped DEF Ends, Idle
  <2>2. InState("closed")' = InState("closed") /\ InState("merged")' = InState("merged")
    BY <1>1 DEF InState
  <2>3. CASE Supersede
    <3>1. /\ card' = [card EXCEPT !.status = "ready"] /\ fresh' = {}
          /\ events' = [events EXCEPT !.superseded = @ \union pass.closed]
      BY <1>3, <2>3 DEF Supersede
    <3>2. card' \in Cards
      BY <1>1, <3>1 DEF Cards, Statuses
    <3>3. events' \in Histories
      BY <1>1, <3>1 DEF Passes, Histories
    <3>4. Types' /\ AnswersAreNew' /\ OneResumePerAnswer'
      BY <1>1, <2>1, <3>1, <3>2, <3>3 DEF HoldInv, Types, AnswersAreNew, OneResumePerAnswer
    <3>5. StatesAreFinal' /\ DoneHasGrounds'
      BY <1>1, <2>1, <2>2, <3>1 DEF HoldInv, StatesAreFinal, DoneHasGrounds, Earned
    <3>6. QED
      BY <3>4, <3>5 DEF HoldInv
  <2>4. CASE Apply
    <3>1. /\ card' = [card EXCEPT !.status = pass.desired] /\ fresh' = {}
          /\ pass.desired = "done" /\ events' = [events EXCEPT !.done = @ \union {pass.reason}]
      <4>1. /\ card' = [card EXCEPT !.status = pass.desired] /\ fresh' = {}
            /\ events' = [events EXCEPT !.done = IF pass.desired = "done"
                                                   THEN @ \union {pass.reason} ELSE @]
        BY <1>3, <2>4 DEF Apply
      <4>2. CASE pass.desired # "done"
        <5>1. events' = events
          BY <1>1, <4>1, <4>2 DEF Histories
        <5>2. QED
          BY <1>3, <5>1
      <4>3. QED
        BY <4>1, <4>2
    <3>2. card' \in Cards
      BY <1>1, <3>1 DEF Cards, Statuses
    <3>3. events' \in Histories
      BY <1>1, <3>1 DEF Passes, Histories
    <3>4. Types' /\ AnswersAreNew' /\ OneResumePerAnswer'
      BY <1>1, <2>1, <3>1, <3>2, <3>3 DEF HoldInv, Types, AnswersAreNew, OneResumePerAnswer
    <3>5. StatesAreFinal' /\ DoneHasGrounds'
      BY <1>1, <2>1, <2>2, <3>1 DEF HoldInv, StatesAreFinal, DoneHasGrounds, Earned
    <3>6. QED
      BY <3>4, <3>5 DEF HoldInv
  <2>5. CASE Resume
    <3>1. /\ card' = [card EXCEPT !.status = "ready"] /\ fresh' = {} /\ pass.pc = "resume"
          /\ events' = [events EXCEPT !.consumed = pass.seen, !.resumes = @ + 1]
      BY <1>3, <2>5 DEF Resume, Consume
    <3>2. card' \in Cards
      BY <1>1, <3>1 DEF Cards, Statuses
    <3>3. /\ pass.seen \in Nat /\ events.consumed < pass.seen /\ events.resumes <= events.consumed
          /\ events.consumed \in Nat /\ events.resumes \in Nat
      BY <1>1, <3>1 DEF HoldInv, AnswersAreNew, OneResumePerAnswer, Passes, Histories
    <3>4. /\ events' \in Histories
          /\ events'.consumed = pass.seen /\ events'.resumes = events.resumes + 1
          /\ events'.done = events.done /\ events'.superseded = events.superseded
      <4>1. events.resumes + 1 \in Nat
        BY <3>3
      <4>2. PICK n \in Nat : n = events.resumes + 1
        BY <4>1
      <4>3. events' = [events EXCEPT !.consumed = pass.seen, !.resumes = n]
        BY <3>1, <4>2
      <4>4. events' \in Histories /\ events'.consumed = pass.seen /\ events'.resumes = n
            /\ events'.done = events.done /\ events'.superseded = events.superseded
        BY <1>1, <3>3, <4>3 DEF Histories
      <4>5. QED
        BY <4>2, <4>4
    <3>5. Types' /\ AnswersAreNew' /\ OneResumePerAnswer'
      BY <1>1, <2>1, <3>1, <3>2, <3>3, <3>4 DEF HoldInv, Types, AnswersAreNew, OneResumePerAnswer
    <3>6. StatesAreFinal' /\ DoneHasGrounds'
      BY <1>1, <2>1, <2>2, <3>4 DEF HoldInv, StatesAreFinal, DoneHasGrounds, Earned
    <3>7. QED
      BY <3>5, <3>6 DEF HoldInv
  <2>6. QED
    BY <2>3, <2>4, <2>5
<1>4. QED
  BY <1>2, <1>3

-----------------------------------------------------------------------------
(* The steps of the world                                                   *)

\* What a step that leaves the pass and what it recorded alone has to show: a pull request
\* that was closed or merged stays so.
LEMMA WorldKeeps ==
    ASSUME HoldInv, UNCHANGED <<events, pass>>,
           card' \in Cards, fresh' \subseteq Pulls, issue' \in Issues, issue.agreed => issue'.agreed,
           pulls' \in [Pulls -> PullStates], answers' \in Nat, answers <= answers',
           \A p \in Pulls : pulls[p] \in {"closed", "merged"} => pulls'[p] = pulls[p]
    PROVE  HoldInv'
<1>1. /\ InState("closed") \subseteq InState("closed")' /\ InState("merged") \subseteq InState("merged")'
      /\ events \in Histories /\ pass \in Passes /\ answers \in Nat
  BY DEF HoldInv, Types, InState
<1>2. events.consumed \in Nat /\ events.resumes \in Nat /\ pass.seen \in Nat
  BY <1>1 DEF Histories, Passes
<1>3. Types' /\ AnswersAreNew' /\ OneResumePerAnswer'
  BY <1>1, <1>2 DEF HoldInv, Types, AnswersAreNew, OneResumePerAnswer
<1>4. StatesAreFinal' /\ DoneHasGrounds'
  BY <1>1 DEF HoldInv, StatesAreFinal, DoneHasGrounds, Earned
<1>5. QED
  BY <1>3, <1>4 DEF HoldInv

\* A pull request goes from open to closed or merged, and never back (OpenPull to MergePull).
LEMMA PullsAreFinal ==
    ASSUME pulls \in [Pulls -> PullStates], NEW p \in Pulls, NEW from \in {"none", "open"},
           NEW to \in PullStates, PullGoes(p, from, to)
    PROVE  /\ pulls' \in [Pulls -> PullStates]
           /\ \A q \in Pulls : pulls[q] \in {"closed", "merged"} => pulls'[q] = pulls[q]
BY DEF PullGoes

\* Steps of the worker, the dispatcher, the operator, GitHub and the maintainer.
LEMMA OutsideKeeps ==
    ASSUME HoldInv, World \/ GiveUp \/ Unblock
    PROVE  HoldInv'
<1>1. /\ card \in Cards /\ answers \in Nat /\ issue \in Issues /\ card.cause \in Reasons
      /\ fresh \subseteq Pulls /\ pulls \in [Pulls -> PullStates]
  BY DEF HoldInv, Types, Cards
<1>2. ASSUME NEW from, NEW to \in Statuses, NEW cause \in Reasons, Live(from, to, cause)
      PROVE  HoldInv'
  <2>1. card' \in Cards /\ fresh' \subseteq Pulls
    BY <1>2 DEF Live, Cards
  <2>2. QED
    BY <1>1, <1>2, <2>1, WorldKeeps DEF Live, github
<1>3. CASE Claim \/ Complete \/ Block \/ GiveUp \/ Unblock
  BY <1>1, <1>2, <1>3 DEF Claim, Complete, Block, GiveUp, Unblock, Statuses, Reasons
<1>4. CASE OpenPull \/ ClosePull \/ MergePull
  <2>1. PICK p \in Pulls, from \in {"none", "open"}, to \in PullStates : Human(PullGoes(p, from, to))
    BY <1>4 DEF OpenPull, ClosePull, MergePull, PullStates
  <2>2. UNCHANGED <<card, events, pass>> /\ PullGoes(p, from, to)
    BY <2>1 DEF Human
  <2>3. QED
    BY <1>1, <2>2, PullsAreFinal, WorldKeeps DEF PullGoes
<1>5. CASE Prune \/ Signal
  <2>1. fresh' \subseteq Pulls
    BY <1>1, <1>5 DEF Prune, Signal
  <2>2. QED
    BY <1>1, <1>5, <2>1, WorldKeeps DEF Prune, Signal, github
<1>6. CASE Answer
  BY <1>1, <1>6, WorldKeeps DEF Answer
<1>7. ASSUME NEW new \in Issues, issue.agreed => new.agreed, IssueGoes(new)
      PROVE  HoldInv'
  BY <1>1, <1>7, WorldKeeps DEF IssueGoes
<1>8. CASE LiftHold
  <2>1. PICK new : new = [issue EXCEPT !.hold = FALSE]
    OBVIOUS
  <2>2. new \in Issues /\ new.agreed = issue.agreed
    BY <1>1, <2>1 DEF Issues
  <2>3. QED
    BY <1>7, <1>8, <2>1, <2>2 DEF LiftHold
<1>9. CASE MoveIssue
  <2>1. PICK to \in IssueStates :
           IssueGoes([issue EXCEPT !.state = to, !.agreed = @ \/ to = "completed"])
    BY <1>9 DEF MoveIssue
  <2>2. PICK new : new = [issue EXCEPT !.state = to, !.agreed = @ \/ to = "completed"]
    OBVIOUS
  <2>3. new \in Issues /\ (issue.agreed => new.agreed)
    BY <1>1, <2>1, <2>2 DEF Issues
  <2>4. QED
    BY <1>7, <2>1, <2>2, <2>3
<1>10. QED
  BY <1>3, <1>4, <1>5, <1>6, <1>8, <1>9 DEF World

\* Every step of the card keeps the invariant.
LEMMA HoldStep ==
    ASSUME HoldInv, [Next]_vars
    PROVE  HoldInv'
<1>1. CASE UNCHANGED vars
  <2>1. card \in Cards /\ issue \in Issues /\ fresh \subseteq Pulls /\ answers \in Nat
        /\ pulls \in [Pulls -> PullStates]
    BY DEF HoldInv, Types
  <2>2. QED
    BY <1>1, <2>1, WorldKeeps DEF vars
<1>2. QED
  BY <1>1, ReadsKeep, ProjectionsKeep, WritesKeep, OutsideKeeps DEF Next, Step

\* The card begins ready, without events, pull requests and answers.
LEMMA HoldInitially == Init => HoldInv
<1> SUFFICES ASSUME Init  PROVE HoldInv
  OBVIOUS
<1>1. Types /\ AnswersAreNew /\ OneResumePerAnswer
  BY IdleIsTyped DEF Init, Types, AnswersAreNew, OneResumePerAnswer, Cards, Histories, Issues, IssueStates, Idle,
                     Statuses, Reasons, PullStates
<1>2. StatesAreFinal /\ DoneHasGrounds
  BY DEF Init, StatesAreFinal, DoneHasGrounds, Idle
<1>3. QED
  BY <1>1, <1>2 DEF HoldInv

\* An answer of the maintainer resumes a card once, whatever blocks, crashes and passes that
\* die come between (evaluate_blocked_resume, apply_blocked_resume).
THEOREM AnswersResumeOnce == Spec => []OneResumePerAnswer
<1>1. HoldInv => OneResumePerAnswer
  BY DEF HoldInv
<1>2. QED
  BY <1>1, HoldInitially, HoldStep, PTL DEF Spec

\* A card the edge finished for a merge has a merged pull request that nobody gave up, and one it
\* finished without a pull request has an Issue that a trusted actor completed
\* (evaluate_completion, verify_completion and its wrapper, apply_decision).
THEOREM FinishedIsEarned == Spec => []DoneIsEarned
<1>1. HoldInv => DoneIsEarned
  <2> SUFFICES ASSUME HoldInv  PROVE DoneIsEarned
    OBVIOUS
  <2>1. \A reason \in events.done : Earned(reason)
    BY DEF HoldInv, DoneHasGrounds
  <2>2. ASSUME events.done \intersect Merges # {}
        PROVE  \E p \in Pulls \ events.superseded : pulls[p] = "merged"
    <3>1. InState("merged") # {}
      BY <2>1, <2>2 DEF Earned, Merges
    <3>2. QED
      BY <3>1 DEF HoldInv, StatesAreFinal, InState
  <2>3. QED
    BY <2>1, <2>2 DEF DoneIsEarned, Earned
<1>2. QED
  BY <1>1, HoldInitially, HoldStep, PTL DEF Spec

-----------------------------------------------------------------------------
(* What the marker says and what a pass decides                             *)

Finishings == Merges \union {"trusted_issue_completed"}
Preserving == "authoritative_done_preserved"

\* The marker names only answers older than its edit, and what a pass would write into it
\* names only answers that exist.
MarkerFits ==
    /\ pruned \subseteq Pulls /\ answers <= MaxAnswers /\ faults \in 0..MaxFaults
    /\ marker.text \in Texts /\ marker.after \in 0..answers /\ marker.text.answer <= marker.after
    /\ pass.text \in Texts /\ pass.text.answer <= answers

\* A card that was read as done stays so until the pass decides, and only then is a done
\* preserved; what is recorded as finished is never one that was preserved.
Deciding == {"pulls", "conclude", "signal", "agree", "decide", "apply"}
DecisionFits ==
    /\ card.status \in Statuses /\ events.done \subseteq Finishings
    /\ pass.pc \in Deciding /\ pass.status = "done" => card.status = "done"
    /\ pass.pc \in Deciding /\ pass.reason = Preserving => pass.status = "done"
    /\ pass.pc \in {"signal", "decide", "apply"} =>
          \/ pass.desired = "review"
          \/ pass.desired = "done" /\ pass.reason \in Finishings \union {Preserving}

\* A pass that has ended.
LEMMA IdleProperties ==
    /\ Idle \in Passes /\ Idle.pc = "idle" /\ Idle.text = NoText
    /\ \A pc \in Phases : [Idle EXCEPT !.pc = pc].text = NoText /\ [Idle EXCEPT !.pc = pc].pc = pc
BY IdleIsTyped DEF Idle

\* A step that leaves the marker alone.
LEMMA MarkerIsLeft ==
    ASSUME HoldInv, MarkerFits, UNCHANGED <<pruned, answers, marker>>, UNCHANGED faults \/ Faulty,
           pass'.text \in {pass.text, NoText, HoldText(card.cause)}
    PROVE  MarkerFits'
<1>1. card.cause \in Causes \union {"none"} /\ answers \in Nat
  BY DEF HoldInv, Types, Cards, Reasons
<1>2. HoldText(card.cause) \in Texts /\ HoldText(card.cause).answer = 0
  BY <1>1 DEF HoldText, Texts
<1>3. NoText \in Texts /\ NoText.answer = 0
  BY DEF NoText, Texts
<1>4. pass'.text \in Texts /\ pass'.text.answer <= answers
  BY <1>1, <1>2, <1>3 DEF MarkerFits
<1>5. faults' \in 0..MaxFaults
  BY HoldAssumption DEF MarkerFits, Faulty
<1>6. QED
  BY <1>4, <1>5 DEF MarkerFits

\* The comments of an Issue are read: an answer that was used is in them (ReadComments).
LEMMA CommentsFit ==
    ASSUME HoldInv, MarkerFits, ReadComments, UNCHANGED faults
    PROVE  MarkerFits'
<1>1. UNCHANGED <<pruned, answers, marker>> /\ pass \in Passes /\ answers \in Nat
  BY DEF ReadComments, github, HoldInv, Types
<1>2. CASE Outcome = "consumed"
  <2>1. pass'.text = ConsumedText(answers)
    BY <1>1, <1>2 DEF ReadComments, Passes
  <2>2. answers \in 1..MaxAnswers
    <3>1. answers # marker.after /\ marker.after \in 0..answers /\ answers <= MaxAnswers
      BY <1>2 DEF Outcome, Unanswered, MarkerFits
    <3>2. QED
      BY <1>1, <3>1, HoldAssumption
  <2>3. pass'.text \in Texts /\ pass'.text.answer = answers
    BY <2>1, <2>2 DEF ConsumedText, Texts
  <2>4. QED
    BY <1>1, <2>3 DEF MarkerFits
<1>3. CASE Outcome # "consumed"
  <2>1. pass'.text = HoldText(card.cause)
    BY <1>1, <1>3 DEF ReadComments, Passes
  <2>2. QED
    BY <1>1, <2>1, MarkerIsLeft
<1>4. QED
  BY <1>2, <1>3

\* The marker is edited, or already says so (Upsert).
LEMMA EditFits ==
    ASSUME HoldInv, MarkerFits, Upsert, UNCHANGED faults
    PROVE  MarkerFits'
<1>1. UNCHANGED <<pruned, answers>> /\ answers \in Nat
  BY DEF Upsert, HoldInv, Types
<1>2. NoText \in Texts /\ NoText.answer = 0
  BY DEF NoText, Texts
<1>3. pass'.text \in {pass.text, NoText}
  <2>1. CASE Ends
    BY <2>1, IdleProperties DEF Ends
  <2>2. CASE ~Ends
    <3>1. PICK pc \in {"label", "record"}, text \in {pass.text, NoText} :
             pass' = [Idle EXCEPT !.pc = pc, !.text = text]
      BY <2>2 DEF Upsert
    <3>2. QED
      BY <3>1, IdleProperties DEF Passes
  <2>3. QED
    BY <2>1, <2>2
<1>4. pass'.text \in Texts /\ pass'.text.answer <= answers
  BY <1>1, <1>2, <1>3 DEF MarkerFits
<1>5. marker' = [text |-> pass.text, after |-> answers] \/ marker' = marker
  BY DEF Upsert
<1>6. /\ marker'.text \in Texts /\ marker'.after \in 0..answers /\ marker'.text.answer <= marker'.after
  BY <1>1, <1>5 DEF MarkerFits
<1>7. QED
  BY <1>1, <1>4, <1>6 DEF MarkerFits

\* Every step of the card keeps the marker sound.
LEMMA MarkerStep ==
    ASSUME HoldInv, MarkerFits, [Next]_vars
    PROVE  MarkerFits'
<1>1. pass \in Passes /\ answers \in Nat
  BY DEF HoldInv, Types
<1>2. CASE UNCHANGED vars
  BY <1>2, MarkerIsLeft DEF vars
<1>3. CASE (Claim \/ Complete \/ Block \/ GiveUp \/ Unblock) /\ (UNCHANGED faults \/ Faulty)
  BY <1>3, MarkerIsLeft DEF Claim, Complete, Block, GiveUp, Unblock, Live, github
<1>4. CASE (OpenPull \/ ClosePull \/ MergePull \/ Signal \/ LiftHold \/ MoveIssue) /\ UNCHANGED faults
  BY <1>4, MarkerIsLeft
     DEF OpenPull, ClosePull, MergePull, Signal, LiftHold, MoveIssue, Human, PullGoes, IssueGoes, github
<1>5. CASE Prune /\ UNCHANGED faults
  BY <1>5 DEF Prune, MarkerFits
<1>6. CASE Answer /\ UNCHANGED faults
  <2>1. answers' = answers + 1 /\ answers' <= MaxAnswers /\ UNCHANGED <<pruned, marker, pass, faults>>
    BY <1>1, <1>6, HoldAssumption DEF Answer
  <2>2. marker.after \in 0..answers' /\ pass.text.answer <= answers'
    <3>1. pass.text.answer \in Nat
      BY <1>1 DEF Passes, MarkerTexts
    <3>2. QED
      BY <1>1, <2>1, <3>1 DEF MarkerFits
  <2>3. QED
    BY <2>1, <2>2 DEF MarkerFits
<1>7. CASE (ReadCard \/ ReadPulls \/ Conclude \/ ReadSignal \/ ReadAgreement \/ Supersede
              \/ Decide \/ Apply \/ ReadIssue \/ Resume \/ Record) /\ UNCHANGED faults
  <2>1. UNCHANGED <<pruned, answers, marker>>
    BY <1>7 DEF ReadCard, ReadPulls, Conclude, ReadSignal, ReadAgreement, Supersede, Decide, Apply,
                ReadIssue, Resume, Record, github
  <2>2. pass'.text \in {pass.text, NoText}
    <3>1. CASE Ends
      BY <3>1, IdleProperties DEF Ends
    <3>2. CASE ReadCard \/ ReadAgreement \/ Decide
      BY <1>1, <3>1, <3>2, IdleProperties DEF ReadCard, ReadAgreement, Decide, Passes
    <3>3. CASE ReadPulls \/ Conclude \/ ReadSignal \/ ReadIssue
      BY <1>1, <3>1, <3>3 DEF ReadPulls, Conclude, ReadSignal, ReadIssue, Passes
    <3>4. QED
      BY <1>7, <3>1, <3>2, <3>3 DEF Supersede, Apply, Resume, Record
  <2>3. QED
    BY <1>7, <2>1, <2>2, MarkerIsLeft
<1>8. CASE AddLabel /\ UNCHANGED faults
  BY <1>1, <1>8, MarkerIsLeft DEF AddLabel, Passes
<1>9. CASE CallFails \/ Dies
  BY <1>9, MarkerIsLeft DEF CallFails, Dies, Ends, Idle, github
<1>10. QED
  BY <1>2, <1>3, <1>4, <1>5, <1>6, <1>7, <1>8, <1>9, CommentsFit, EditFits DEF Next, World, Step, GiveUp, Unblock

\* A pass that is not deciding has nothing to keep.
LEMMA EndsFits ==
    ASSUME DecisionFits, pass'.pc \notin Deciding, card'.status \in Statuses, events'.done \subseteq Finishings
    PROVE  DecisionFits'
BY DEF DecisionFits, Deciding

\* What the pass decides (Conclude).
LEMMA ConcludeFits ==
    ASSUME HoldInv, DecisionFits, Conclude
    PROVE  DecisionFits'
<1>1. pass \in Passes /\ UNCHANGED <<card, events>> /\ pass.pc = "conclude"
  BY DEF HoldInv, Types, Conclude
<1>2. /\ \/ Decision.desired = "review"
         \/ Decision.desired = "done" /\ Decision.reason \in Finishings \union {Preserving}
      /\ Decision.reason = Preserving => pass.status = "done"
  <2>1. ASSUME NEW ps
        PROVE  /\ \/ Conclusion(ps).desired = "review"
                  \/ Conclusion(ps).desired = "done" /\ Conclusion(ps).reason = "all_linked_prs_merged"
               /\ Conclusion(ps).reason # Preserving
    BY DEF Conclusion, Preserving
  <2>2. CASE Decision = Conclusion(Effective) \/ Decision = Conclusion(pass.linked)
    BY <2>1, <2>2 DEF Finishings, Merges
  <2>3. CASE \E reason \in {"superseded_pr_merged", "trusted_issue_completed"} :
                Decision = [desired |-> "done", reason |-> reason]
    BY <2>3 DEF Finishings, Merges, Preserving
  <2>4. CASE Preserved /\ Decision = [desired |-> "done", reason |-> "authoritative_done_preserved"]
    BY <2>4 DEF Preserved, Preserving
  <2>5. QED
    BY <2>2, <2>3, <2>4 DEF Decision
<1>3. PICK pc \in {"signal", "decide"} :
         pass' = [pass EXCEPT !.pc = pc, !.merged = {}, !.desired = Decision.desired,
                              !.reason = Decision.reason]
  BY DEF Conclude
<1>4. /\ pass'.pc = pc /\ pass'.status = pass.status
      /\ pass'.desired = Decision.desired /\ pass'.reason = Decision.reason
  BY <1>1, <1>3 DEF Passes
<1>5. QED
  BY <1>1, <1>2, <1>4 DEF DecisionFits, Deciding

\* The completion is written (Apply).
LEMMA ApplyFits ==
    ASSUME HoldInv, DecisionFits, Apply
    PROVE  DecisionFits'
<1>1. /\ pass \in Passes /\ card \in Cards /\ events \in Histories /\ pass.pc = "apply"
      /\ pass'.pc = "idle"
  BY DEF HoldInv, Types, Apply, Ends, Idle
<1>2. pass.pc \in Deciding /\ pass'.pc \notin Deciding
  BY <1>1 DEF Deciding
<1>3. CASE UNCHANGED <<card, events>>
  BY <1>2, <1>3, EndsFits DEF DecisionFits
<1>4. CASE /\ card.status # pass.desired /\ card' = [card EXCEPT !.status = pass.desired]
           /\ events' = [events EXCEPT !.done = IF pass.desired = "done"
                                                  THEN @ \union {pass.reason} ELSE @]
  <2>1. card'.status = pass.desired /\ pass.desired \in Statuses
    BY <1>1, <1>4 DEF Cards, DecisionFits, Statuses
  <2>2. pass.desired = "done" => pass.reason \in Finishings
    BY <1>1, <1>2, <1>4 DEF DecisionFits
  <2>3. events'.done = IF pass.desired = "done" THEN events.done \union {pass.reason} ELSE events.done
    BY <1>1, <1>4 DEF Histories
  <2>4. events'.done \subseteq Finishings
    BY <2>2, <2>3 DEF DecisionFits
  <2>5. QED
    BY <1>2, <2>1, <2>4, EndsFits
<1>5. QED
  BY <1>3, <1>4 DEF Apply

\* The other steps of a pass.
LEMMA PassFits ==
    ASSUME HoldInv, DecisionFits,
           \/ ReadCard \/ ReadPulls \/ ReadSignal \/ ReadAgreement \/ Supersede \/ Decide \/ ReadIssue
           \/ ReadComments \/ Resume \/ Upsert \/ AddLabel \/ Record \/ CallFails \/ Dies
    PROVE  DecisionFits'
<1>1. /\ pass \in Passes /\ card \in Cards /\ events \in Histories /\ events.done \subseteq Finishings
      /\ card.status \in Statuses
  BY DEF HoldInv, Types, DecisionFits
<1>2. Idle.pc = "idle" /\ Idle.reason = "none" /\ Idle.status = "none"
  BY DEF Idle
<1>3. card'.status \in Statuses /\ events'.done \subseteq Finishings
  <2>1. card' = card \/ card' = [card EXCEPT !.status = "ready"]
    BY DEF ReadCard, ReadPulls, ReadSignal, ReadAgreement, Supersede, Decide, ReadIssue, ReadComments,
           Resume, Upsert, AddLabel, Record, CallFails, Dies
  <2>2. card'.status \in Statuses
    BY <1>1, <2>1 DEF Cards, Statuses
  <2>3. CASE UNCHANGED events
    BY <1>1, <2>2, <2>3
  <2>4. CASE Supersede \/ Resume
    <3>1. events'.done = events.done
      BY <1>1, <2>4 DEF Supersede, Resume, Consume, Histories
    <3>2. QED
      BY <1>1, <2>2, <3>1
  <2>5. QED
    BY <2>3, <2>4 DEF ReadCard, ReadPulls, ReadSignal, ReadAgreement, Decide, ReadIssue, ReadComments,
                      Upsert, AddLabel, Record, CallFails, Dies
<1>4. CASE ReadCard
  <2>1. pass' = [Idle EXCEPT !.pc = "pulls", !.status = card.status] /\ card' = card
    BY <1>4 DEF ReadCard
  <2>2. pass'.pc = "pulls" /\ pass'.status = card.status /\ pass'.reason = "none"
    BY <2>1 DEF Idle
  <2>3. QED
    BY <1>3, <2>1, <2>2 DEF DecisionFits, Deciding, Preserving
<1>5. CASE pass'.pc \notin Deciding
  BY <1>3, <1>5, EndsFits
<1>6. CASE ReadPulls
  <2>1. pass'.pc = "conclude" /\ pass'.status = pass.status /\ pass'.reason = pass.reason /\ card' = card
    BY <1>1, <1>6 DEF ReadPulls, Passes
  <2>2. pass.pc = "pulls"
    BY <1>6 DEF ReadPulls
  <2>3. QED
    BY <1>3, <2>1, <2>2 DEF DecisionFits, Deciding
<1>7. CASE (ReadSignal \/ Decide) /\ pass'.pc \in Deciding
  <2>1. /\ card' = card /\ pass.pc \in {"signal", "decide"}
        /\ pass'.status = pass.status /\ pass'.reason = pass.reason /\ pass'.desired = pass.desired
    <3>1. \/ \E pc \in {"decide", "agree"} : pass' = [pass EXCEPT !.pc = pc]
          \/ pass' = [pass EXCEPT !.pc = "apply", !.linked = {}, !.closed = {}]
          \/ pass'.pc \in {"idle", "issue"}
      BY <1>1, <1>7, IdleProperties DEF ReadSignal, Decide, Ends, Passes
    <3>2. QED
      BY <1>1, <1>7, <3>1 DEF ReadSignal, Decide, Passes, Deciding
  <2>2. QED
    BY <1>3, <2>1 DEF DecisionFits, Deciding
<1>8. QED
  <2>1. CASE ReadAgreement \/ Supersede \/ Resume \/ Upsert \/ Record \/ CallFails \/ Dies
    <3>1. pass'.pc \notin Deciding
      <4>1. CASE Ends
        BY <4>1, IdleProperties DEF Ends, Deciding
      <4>2. CASE ~Ends
        <5>1. \/ pass' = [Idle EXCEPT !.pc = "supersede", !.closed = pass.closed]
              \/ \E pc \in {"label", "record"}, text \in {pass.text, NoText} :
                    pass' = [Idle EXCEPT !.pc = pc, !.text = text]
          BY <2>1, <4>2 DEF ReadAgreement, Supersede, Resume, Upsert, Record, CallFails, Dies
        <5>2. pass'.pc \in {"supersede", "label", "record"}
          BY <5>1, IdleProperties DEF Passes
        <5>3. QED
          BY <5>2 DEF Deciding
      <4>3. QED
        BY <4>1, <4>2
    <3>2. QED
      BY <1>5, <3>1
  <2>2. CASE ReadIssue \/ ReadComments \/ AddLabel
    <3>1. pass'.pc \notin Deciding
      <4>1. CASE Ends
        BY <4>1, IdleProperties DEF Ends, Deciding
      <4>2. CASE ~Ends
        <5>1. pass'.pc \in {"comments", "resume", "upsert", "record"}
          BY <1>1, <2>2, <4>2 DEF ReadIssue, ReadComments, AddLabel, Passes
        <5>2. QED
          BY <5>1 DEF Deciding
      <4>3. QED
        BY <4>1, <4>2
    <3>2. QED
      BY <1>5, <3>1
  <2>3. QED
    BY <1>4, <1>5, <1>6, <1>7, <2>1, <2>2

\* Every step of the card keeps the decision of a pass sound.
LEMMA DecisionStep ==
    ASSUME HoldInv, DecisionFits, [Next]_vars
    PROVE  DecisionFits'
<1>1. CASE UNCHANGED vars
  BY <1>1 DEF vars, DecisionFits
<1>2. CASE Claim \/ Complete \/ Block \/ GiveUp \/ Unblock
  <2>1. /\ card.status # "done" /\ card'.status \in Statuses /\ UNCHANGED <<events, pass>>
    BY <1>2 DEF Claim, Complete, Block, GiveUp, Unblock, Live, Statuses
  <2>2. QED
    BY <2>1 DEF DecisionFits
<1>3. CASE OpenPull \/ ClosePull \/ MergePull \/ Prune \/ Signal \/ Answer \/ LiftHold \/ MoveIssue
  <2>1. UNCHANGED <<card, events, pass>>
    BY <1>3 DEF OpenPull, ClosePull, MergePull, Prune, Signal, Answer, LiftHold, MoveIssue, Human, IssueGoes
  <2>2. QED
    BY <2>1 DEF DecisionFits
<1>4. QED
  BY <1>1, <1>2, <1>3, ConcludeFits, ApplyFits, PassFits DEF Next, World, Step

\* A card's rows and its marker keep their shape: the marker names only answers older than its
\* edit, a pass consumes only answers that exist, and what is on record as finished is finished by
\* a merge or by the word of a trusted actor (apply_decision, _upsert_blocker_comment).
THEOREM HoldsAreSound == Spec => []TypeOK
<1>1. Init => MarkerFits /\ DecisionFits
  <2> SUFFICES ASSUME Init  PROVE MarkerFits /\ DecisionFits
    OBVIOUS
  <2>1. NoText \in Texts /\ NoText.answer = 0
    BY DEF NoText, Texts
  <2>2. MarkerFits
    BY <2>1, HoldAssumption DEF Init, Idle, MarkerFits
  <2>3. DecisionFits
    BY DEF Init, Idle, DecisionFits, Deciding, Statuses
  <2>4. QED
    BY <2>2, <2>3
<1>2. HoldInv /\ MarkerFits /\ DecisionFits => TypeOK
  <2> SUFFICES ASSUME HoldInv, MarkerFits, DecisionFits  PROVE TypeOK
    OBVIOUS
  <2>1. /\ card \in Cards /\ events \in Histories /\ pulls \in [Pulls -> PullStates] /\ fresh \subseteq Pulls
        /\ issue \in Issues /\ answers \in Nat /\ pass \in Passes
        /\ events.consumed <= answers /\ pass.seen <= answers
    BY DEF HoldInv, Types, AnswersAreNew
  <2>2. card \in [status : Statuses, cause : Causes \union {"none"}]
    BY <2>1 DEF DecisionFits, Cards, Reasons
  <2>3. /\ events.consumed \in 0..answers /\ events.superseded \subseteq Pulls /\ pass.seen \in 0..answers
        /\ answers \in 0..MaxAnswers
    BY <2>1, HoldAssumption DEF Histories, Passes, MarkerFits
  <2>4. QED
    BY <2>1, <2>2, <2>3 DEF TypeOK, DecisionFits, Finishings, MarkerFits, Issues, PullStates
<1>3. QED
  BY <1>1, <1>2, HoldInitially, HoldStep, MarkerStep, DecisionStep, PTL DEF Spec

-----------------------------------------------------------------------------
(* The graph above a root                                                   *)

\* A row that is written has the type of a row.
LEMMA RowIsTyped ==
    ASSUME NEW status \in {"todo", "ready", "running", "blocked", "review", "done", "archived"},
           NEW owned \in BOOLEAN
    PROVE  /\ T!Row(status, owned) \in Rows
           /\ T!Row(status, owned).status = status /\ T!Row(status, owned).owned = owned
BY DEF T!Row, Rows

\* What a step of the pass that writes no card has to show.
LEMMA LookingKeeps ==
    ASSUME GraphInv, UNCHANGED <<row, links, pull>>,
           NEW pc, NEW rows, NEW ls, NEW proven, NEW head,
           sweep' = [pc |-> pc, rows |-> rows, links |-> ls, proven |-> proven, head |-> head],
           pc \in {"issue", "prove", "converge"} => pull.state = "merged" /\ head = pull.head
    PROVE  GraphInv'
BY DEF GraphInv, GraphTypes, OwnersRun, MergeIsRead

\* What a step that writes cards has to show.
LEMMA RowsKeep ==
    ASSUME GraphInv, UNCHANGED <<links, pull>>, sweep' \in {sweep, T!Idle},
           row' \in [T!Cards -> Rows],
           \A c \in T!Cards : row'[c] = row[c] \/ (row'[c].owned <=> row'[c].status = "running")
    PROVE  GraphInv'
<1>1. GraphTypes' /\ MergeIsRead'
  <2>1. CASE sweep' = sweep
    BY <2>1 DEF GraphInv, GraphTypes, MergeIsRead
  <2>2. CASE sweep' = T!Idle
    BY <2>2 DEF GraphInv, GraphTypes, MergeIsRead, T!Idle
  <2>3. QED
    BY <2>1, <2>2
<1>2. OwnersRun'
  BY DEF GraphInv, OwnersRun
<1>3. QED
  BY <1>1, <1>2 DEF GraphInv

\* The cards Converge and Apply and Restore write, and what they leave alone.
LEMMA WritesAreFenced ==
    ASSUME GraphInv, T!Restore \/ T!Converge \/ T!Apply
    PROVE  /\ GraphInv'
           /\ \A c \in T!Cards : row[c].owned => row'[c] = row[c]
<1>1. /\ row \in [T!Cards -> Rows] /\ "root" \in T!Cards
      /\ row["root"].owned <=> row["root"].status = "running"
      /\ UNCHANGED <<links, pull>> /\ sweep' = T!Idle
  BY DEF GraphInv, GraphTypes, OwnersRun, T!Cards, T!Restore, T!Converge, T!Apply, T!Ends
<1>2. ASSUME NEW status \in {"todo", "done", "review"}, row["root"].status \in {"review", "done"},
             row' = [row EXCEPT !["root"] = T!Row(status, FALSE)]
      PROVE  GraphInv' /\ \A c \in T!Cards : row[c].owned => row'[c] = row[c]
  <2>1. /\ T!Row(status, FALSE) \in Rows /\ T!Row(status, FALSE).status = status
        /\ T!Row(status, FALSE).owned = FALSE
    BY RowIsTyped
  <2>2. /\ row' \in [T!Cards -> Rows] /\ row'["root"] = T!Row(status, FALSE)
        /\ \A c \in T!Cards : c # "root" => row'[c] = row[c]
    BY <1>1, <1>2, <2>1
  <2>3. \A c \in T!Cards : row'[c] = row[c] \/ (row'[c].owned <=> row'[c].status = "running")
    BY <2>1, <2>2
  <2>4. QED
    BY <1>1, <1>2, <2>2, <2>3, RowsKeep
<1>3. CASE row' = row
  BY <1>1, <1>3, RowsKeep
<1>4. CASE T!Restore /\ row' # row
  BY <1>2, <1>4 DEF T!Restore
<1>5. CASE T!Apply /\ row' # row
  BY <1>2, <1>5 DEF T!Apply
<1>6. CASE T!Converge /\ row' # row
  <2>1. row' = T!Finished(row) /\ T!Swaps
    BY <1>6 DEF T!Converge
  <2> DEFINE closing == sweep.proven.stale \union sweep.proven.unstarted \union {"root"}
  <2>2. \A c \in T!Cards : \/ c \in closing /\ row'[c] \in {T!Row("done", FALSE), T!Row("archived", FALSE)}
                           \/ c \notin closing /\ row'[c] = row[c]
    BY <2>1 DEF T!Finished
  <2>3. \A c \in closing : ~row[c].owned
    BY <2>1 DEF T!Swaps
  <2>4. row' = [c \in T!Cards |-> row'[c]]
    BY <2>1 DEF T!Finished
  <2> HIDE DEF closing
  <2>5. \A r \in {T!Row("done", FALSE), T!Row("archived", FALSE)} :
           r \in Rows /\ ~r.owned /\ r.status # "running"
    BY RowIsTyped
  <2>6. row' \in [T!Cards -> Rows]
    BY <1>1, <2>2, <2>4, <2>5
  <2>7. \A c \in T!Cards : row'[c] = row[c] \/ (row'[c].owned <=> row'[c].status = "running")
    BY <2>2, <2>5
  <2>8. \A c \in T!Cards : row[c].owned => row'[c] = row[c]
    BY <2>2, <2>3
  <2>9. QED
    BY <1>1, <2>6, <2>7, <2>8, RowsKeep
<1>7. QED
  BY <1>3, <1>4, <1>5, <1>6

\* The steps of the pass that only read.
LEMMA LooksKeep ==
    ASSUME GraphInv,
           T!ReadBoard \/ T!ReadPull \/ T!ReadIssue \/ T!Prove \/ T!ReadCompletion \/ T!Fails
    PROVE  GraphInv' /\ row' = row
<1>1. /\ UNCHANGED <<row, links, pull>>
      /\ sweep = [pc |-> sweep.pc, rows |-> sweep.rows, links |-> sweep.links, proven |-> sweep.proven,
                  head |-> sweep.head]
      /\ sweep.pc \in {"issue", "prove", "converge"} => pull.state = "merged" /\ sweep.head = pull.head
  BY DEF T!ReadBoard, T!ReadPull, T!ReadIssue, T!Prove, T!ReadCompletion, T!Fails, T!board,
         GraphInv, GraphTypes, MergeIsRead
<1>2. CASE T!Ends
  BY <1>1, <1>2, LookingKeeps DEF T!Ends, T!Idle
<1>3. CASE T!ReadBoard
  <2>1. CASE \E proven : sweep' = [T!Idle EXCEPT !.pc = "pull", !.rows = row, !.links = links,
                                                 !.proven = proven]
    <3>1. PICK proven : sweep' = [pc |-> "pull", rows |-> row, links |-> links, proven |-> proven, head |-> 0]
      BY <2>1 DEF T!Idle
    <3>2. QED
      BY <1>1, <3>1, LookingKeeps
  <2>2. CASE sweep' = [T!Idle EXCEPT !.pc = "restore", !.rows = row]
    <3>1. sweep' = [pc |-> "restore", rows |-> row, links |-> {}, proven |-> T!Failed, head |-> 0]
      BY <2>2 DEF T!Idle
    <3>2. QED
      BY <1>1, <3>1, LookingKeeps
  <2>3. CASE sweep' = [T!Idle EXCEPT !.pc = "complete"]
    <3>1. sweep' = [pc |-> "complete", rows |-> <<>>, links |-> {}, proven |-> T!Failed, head |-> 0]
      BY <2>3 DEF T!Idle
    <3>2. QED
      BY <1>1, <3>1, LookingKeeps
  <2>4. QED
    BY <1>3, <2>1, <2>2, <2>3 DEF T!ReadBoard
<1>4. ASSUME NEW pc \in {"restore", "done", "review"}, sweep' = [sweep EXCEPT !.pc = pc]
      PROVE  GraphInv'
  <2>1. sweep' = [pc |-> pc, rows |-> sweep.rows, links |-> sweep.links, proven |-> sweep.proven,
                  head |-> sweep.head]
    BY <1>1, <1>4
  <2>2. QED
    BY <1>1, <2>1, LookingKeeps
<1>5. CASE T!ReadPull /\ pull.state = "merged"
  <2>1. sweep' = [sweep EXCEPT !.pc = "issue", !.head = pull.head]
    BY <1>5 DEF T!ReadPull
  <2>2. sweep' = [pc |-> "issue", rows |-> sweep.rows, links |-> sweep.links, proven |-> sweep.proven,
                  head |-> pull.head]
    BY <1>1, <2>1
  <2>3. QED
    BY <1>1, <1>5, <2>2, LookingKeeps
<1>6. ASSUME NEW pc \in {"prove", "converge"}, sweep' = [sweep EXCEPT !.pc = pc],
             sweep.pc \in {"issue", "prove"}
      PROVE  GraphInv'
  <2>1. sweep' = [pc |-> pc, rows |-> sweep.rows, links |-> sweep.links, proven |-> sweep.proven,
                  head |-> sweep.head]
    BY <1>1, <1>6
  <2>2. QED
    BY <1>1, <1>6, <2>1, LookingKeeps
<1>7. CASE T!ReadPull \/ T!ReadIssue
  BY <1>1, <1>2, <1>4, <1>5, <1>6, <1>7 DEF T!ReadPull, T!ReadIssue, T!Unproven, T!ToStep
<1>8. CASE T!Prove
  <2>1. sweep.pc \in {"issue", "prove"}
    BY <1>8 DEF T!Prove
  <2>2. QED
    BY <1>1, <1>2, <1>6, <1>8, <2>1 DEF T!Prove, T!ToStep
<1>9. CASE T!ReadCompletion
  BY <1>1, <1>4, <1>9 DEF T!ReadCompletion, T!ToStep
<1>10. CASE T!Fails
  BY <1>2, <1>10 DEF T!Fails
<1>11. QED
  BY <1>1, <1>3, <1>7, <1>8, <1>9, <1>10

\* The steps of the dispatcher, the workers, the operator and GitHub: they leave the pass
\* alone, the developer is not finished from a block, and a merged pull request stays as it is.
LEMMA WorldStepsKeep ==
    ASSUME GraphInv, T!World, T!TerminalAssumption
    PROVE  /\ GraphInv' /\ sweep' = sweep
           /\ ~(row["developer"].status = "blocked" /\ row'["developer"].status = "done")
<1>1. row \in [T!Cards -> Rows] /\ links \subseteq Links /\ "developer" \in T!Cards
      /\ pull \in [state : {"open", "merged", "closed"}, head : Heads]
  BY DEF GraphInv, GraphTypes, T!Cards
<1>2. ASSUME NEW c \in T!Cards, NEW from \in {"todo", "ready", "running"},
             NEW to \in {"ready", "running", "review", "done", "blocked"},
             NEW owned \in BOOLEAN, owned <=> to = "running", NEW governs, T!Moves(c, from, to, owned, governs)
      PROVE  /\ GraphInv' /\ sweep' = sweep
             /\ ~(row["developer"].status = "blocked" /\ row'["developer"].status = "done")
  <2>1. /\ T!Row(to, owned) \in Rows /\ T!Row(to, owned).status = to /\ T!Row(to, owned).owned = owned
    BY RowIsTyped
  <2>2. /\ row' \in [T!Cards -> Rows] /\ row'[c] = T!Row(to, owned)
        /\ \A b \in T!Cards : b # c => row'[b] = row[b]
        /\ UNCHANGED <<links, pull, sweep>> /\ row[c].status = from
    BY <1>1, <1>2, <2>1 DEF T!Moves
  <2>3. \A b \in T!Cards : row'[b] = row[b] \/ (row'[b].owned <=> row'[b].status = "running")
    BY <1>2, <2>1, <2>2
  <2>4. GraphInv'
    BY <2>2, <2>3, RowsKeep
  <2>5. ~(row["developer"].status = "blocked" /\ row'["developer"].status = "done")
    BY <1>1, <2>1, <2>2
  <2>6. QED
    BY <2>2, <2>4, <2>5
<1>3. CASE T!Promote \/ T!Claim \/ T!Complete
  BY <1>2, <1>3 DEF T!Promote, T!Claim, T!Complete
<1>4. CASE T!Block \/ T!GiveUp
  BY <1>2, <1>4 DEF T!Block, T!GiveUp, T!Cards
<1>5. CASE UNCHANGED <<row, links, pull, sweep>>
  BY <1>5 DEF GraphInv, GraphTypes, OwnersRun, MergeIsRead
<1>6. CASE T!Attend \/ T!CloseIssue
  BY <1>5, <1>6 DEF T!Attend, T!CloseIssue, T!board
<1>7. CASE T!NewRound
  <2>1. /\ T!Row("ready", FALSE) \in Rows /\ T!Row("ready", FALSE).status = "ready"
        /\ T!Row("ready", FALSE).owned = FALSE
    BY RowIsTyped
  <2>2. /\ row' \in [T!Cards -> Rows] /\ row'["developer"] = T!Row("ready", FALSE)
        /\ \A b \in T!Cards : b # "developer" => row'[b] = row[b]
        /\ UNCHANGED <<links, pull, sweep>>
    BY <1>1, <1>7, <2>1 DEF T!NewRound
  <2>3. \A b \in T!Cards : row'[b] = row[b] \/ (row'[b].owned <=> row'[b].status = "running")
    BY <2>1, <2>2
  <2>4. QED
    BY <2>1, <2>2, <2>3, RowsKeep
<1>8. CASE T!Link \/ T!Unlink
  <2>1. links' \subseteq Links /\ UNCHANGED <<row, pull, sweep>>
    BY <1>1, <1>8 DEF T!Link, T!Unlink, Links
  <2>2. QED
    BY <2>1 DEF GraphInv, GraphTypes, OwnersRun, MergeIsRead
<1>9. CASE T!Push \/ T!MergePull \/ T!ClosePull
  <2>1. /\ pull.state = "open" /\ UNCHANGED <<row, links, sweep>>
        /\ pull' \in [state : {"open", "merged", "closed"}, head : Heads]
    BY <1>1, <1>9 DEF T!Push, T!MergePull, T!ClosePull, T!PullGoes, T!board
  <2>2. QED
    BY <2>1 DEF GraphInv, GraphTypes, OwnersRun, MergeIsRead
<1>10. QED
  BY <1>3, <1>4, <1>6, <1>7, <1>8, <1>9 DEF T!World

\* Every step of the graph keeps the invariant.
LEMMA GraphStep ==
    ASSUME GraphInv, [T!Next]_T!vars, T!TerminalAssumption
    PROVE  GraphInv'
<1>1. CASE UNCHANGED T!vars
  BY <1>1 DEF T!vars, GraphInv, GraphTypes, OwnersRun, MergeIsRead
<1>2. QED
  BY <1>1, LooksKeep, WritesAreFenced, WorldStepsKeep DEF T!Next, T!Step

\* The chain begins unowned, with an open pull request.
LEMMA GraphInitially ==
    ASSUME T!Init, T!TerminalAssumption
    PROVE  GraphInv
<1>1. row \in [T!Cards -> Rows] /\ OwnersRun
  BY RowIsTyped DEF T!Init, OwnersRun, T!Row, Rows
<1>2. links \subseteq Links /\ pull \in [state : {"open", "merged", "closed"}, head : Heads]
  BY DEF T!Init, Links, T!TerminalAssumption
<1>3. QED
  BY <1>1, <1>2 DEF T!Init, GraphInv, GraphTypes, MergeIsRead, T!Idle

\* A step of the edge leaves the cards alone that a worker owns
\* (_attempt_terminal_merge_convergence, the second ownership check).
LEMMA OwnedStays ==
    ASSUME GraphInv, [T!Next]_T!vars, T!TerminalAssumption, T!Edge
    PROVE  \A c \in T!Cards : row[c].owned => row'[c] = row[c]
<1>1. CASE UNCHANGED T!vars
  BY <1>1 DEF T!vars
<1>2. CASE T!World
  BY <1>2, WorldStepsKeep DEF T!Edge
<1>3. QED
  BY <1>1, <1>2, LooksKeep, WritesAreFenced DEF T!Next, T!Step

\* A developer that is finished from a block has its governing round, no attention and the
\* merged head (_terminal_convergence_rework_provenance).
LEMMA HeldStays ==
    ASSUME GraphInv, [T!Next]_T!vars, T!TerminalAssumption,
           row["developer"].status = "blocked", row'["developer"].status = "done"
    PROVE  round.governs /\ ~round.attention /\ pull.state = "merged" /\ round.head = pull.head
<1>1. row' # row /\ "developer" \in T!Cards /\ row \in [T!Cards -> Rows]
  BY DEF GraphInv, GraphTypes, T!Cards
<1>2. CASE T!Restore \/ T!Apply
  BY <1>1, <1>2 DEF T!Restore, T!Apply
<1>3. CASE T!Converge
  <2>1. /\ row' = T!Finished(row) /\ T!Provenance(row, links, sweep.head) = sweep.proven
        /\ pull.state = "merged" /\ sweep.head = pull.head
    BY <1>1, <1>3 DEF T!Converge, T!Unmoved, GraphInv, MergeIsRead
  <2>2. "developer" \in sweep.proven.stale
    <3>1. T!Row("archived", FALSE).status = "archived"
      BY RowIsTyped
    <3>2. QED
      BY <1>1, <2>1, <3>1 DEF T!Finished
  <2>3. "developer" \in T!Provenance(row, links, sweep.head).stale
    BY <2>1, <2>2
  <2>4. T!StaleRound(sweep.head)
    BY <2>3 DEF T!Provenance, T!Failed
  <2>5. sweep.head # 0
    BY <2>1 DEF GraphInv, GraphTypes, T!TerminalAssumption
  <2>6. QED
    BY <2>1, <2>4, <2>5 DEF T!StaleRound, T!Governing, T!HumanHold
<1>4. QED
  BY <1>1, <1>2, <1>3, LooksKeep, WorldStepsKeep DEF T!Next, T!Step, T!vars

\* The step that finishes a root finds its other parents finished, or finishes them with it
\* (_dependency_guard_sql, apply_decision).
LEMMA RootWaits ==
    ASSUME GraphInv, [T!Next]_T!vars, T!TerminalAssumption, T!Edge,
           row["root"].status # "done", row'["root"].status = "done"
    PROVE  T!Pending("root", row', links) = {}
<1>1. row' # row /\ "root" \in T!Cards /\ row \in [T!Cards -> Rows] /\ links \subseteq Links
  BY DEF GraphInv, GraphTypes, T!Cards
<1>2. CASE T!Restore
  <2>1. row' = [row EXCEPT !["root"] = T!Row("todo", FALSE)]
    BY <1>1, <1>2 DEF T!Restore
  <2>2. QED
    BY <1>1, <2>1, RowIsTyped
<1>3. CASE T!Apply
  <2>1. T!Pending("root", row, links) = {} /\ \A c \in T!Cards : c # "root" => row'[c] = row[c]
    BY <1>1, <1>3 DEF T!Apply, T!Admits, T!Guard
  <2>2. "root" \notin T!Parents("root", links)
    BY <1>1 DEF T!Parents, Links
  <2>3. T!Parents("root", links) \subseteq T!Cards
    BY DEF T!Parents
  <2>4. QED
    BY <2>1, <2>2, <2>3 DEF T!Pending
<1>4. CASE T!Converge
  BY <1>1, <1>4 DEF T!Converge, T!Guard
<1>5. QED
  BY <1>1, <1>2, <1>3, <1>4, LooksKeep, WorldStepsKeep DEF T!Next, T!Step, T!vars, T!Edge

\* The edge never touches a card a worker owns, finishes a blocked card only while its round
\* governs and nothing holds it, and finishes a root only with the last of its parents, in
\* whatever order the board, GitHub and the pass move (_attempt_terminal_merge_convergence).
THEOREM EdgeRespectsGraph == T!Spec => GraphIsRespected
<1> SUFFICES ASSUME T!TerminalAssumption  PROVE T!Spec => GraphIsRespected
  BY GraphAssumption
<1>1. T!Init => GraphInv
  BY GraphInitially
<1>2. GraphInv /\ [T!Next]_T!vars => GraphInv'
  BY GraphStep
<1>3. GraphInv /\ [T!Next]_T!vars => [T!Edge => \A c \in T!Cards : row[c].owned => row'[c] = row[c]]_T!vars
  BY OwnedStays
<1>4. GraphInv /\ [T!Next]_T!vars =>
        [row["developer"].status = "blocked" /\ row'["developer"].status = "done" =>
           /\ round.governs /\ ~round.attention
           /\ pull.state = "merged" /\ round.head = pull.head]_T!vars
  BY HeldStays
<1>5. GraphInv /\ [T!Next]_T!vars =>
        [T!Edge /\ row["root"].status # "done" /\ row'["root"].status = "done" =>
           T!Pending("root", row', links) = {}]_T!vars
  BY RootWaits
<1>6. QED
  BY <1>1, <1>2, <1>3, <1>4, <1>5, PTL
     DEF T!Spec, GraphIsRespected, T!OwnedIsUntouched, T!HeldStaysHeld, T!RootIsLast

-----------------------------------------------------------------------------
(* What the events of the graph remember                                    *)

RoundRows == [n : 1..MaxRounds, head : Heads, governs : BOOLEAN, attention : BOOLEAN]

\* A parent that is linked is recorded, the newest round has a number and a head, and a pass has
\* proven something of the cards only.
EventsFit ==
    /\ links \subseteq recorded /\ round \in RoundRows
    /\ sweep.proven.stale \subseteq T!Cards /\ sweep.proven.unstarted \subseteq T!Cards

\* What a pass proves, it proves of cards above the root.
LEMMA ProvenCards ==
    ASSUME GraphInv, NEW head
    PROVE  /\ T!Provenance(row, links, head).stale \subseteq T!Cards
           /\ T!Provenance(row, links, head).unstarted \subseteq T!Cards
<1>1. links \subseteq Links /\ "root" \in T!Cards /\ \A l \in Links : l[1] \in T!Cards
  BY DEF GraphInv, GraphTypes, Links, T!Cards
<1>2. ASSUME NEW cs, cs \subseteq T!Cards  PROVE T!Up(cs, links) \subseteq T!Cards
  BY <1>1, <1>2 DEF T!Up
<1>3. T!Chain(links) \subseteq T!Cards
  BY <1>1, <1>2 DEF T!Chain
<1>4. T!Failed.stale = {} /\ T!Failed.unstarted = {}
  BY DEF T!Failed
<1>5. QED
  BY <1>3, <1>4 DEF T!Provenance

\* Every step keeps what is remembered.
LEMMA EventsStep ==
    ASSUME GraphInv, EventsFit, [T!Next]_T!vars, T!TerminalAssumption
    PROVE  EventsFit'
<1>1. /\ sweep = [pc |-> sweep.pc, rows |-> sweep.rows, links |-> sweep.links, proven |-> sweep.proven,
                  head |-> sweep.head]
      /\ T!Failed.stale = {} /\ T!Failed.unstarted = {} /\ T!Idle.proven = T!Failed
      /\ round \in RoundRows
  BY DEF GraphInv, GraphTypes, EventsFit, T!Failed, T!Idle
<1>2. CASE UNCHANGED T!vars
  BY <1>2 DEF T!vars, EventsFit
<1>3. CASE T!World
  <2>1. sweep' = sweep
    BY <1>3, WorldStepsKeep
  <2>2. links' \subseteq recorded'
    BY <1>3 DEF EventsFit, T!World, T!Promote, T!Claim, T!Complete, T!Block, T!GiveUp, T!Moves, T!Attend,
                T!NewRound, T!Link, T!Unlink, T!Push, T!MergePull, T!ClosePull, T!PullGoes, T!CloseIssue,
                T!board
  <2>3. round' \in RoundRows
    <3>1. CASE T!Promote \/ T!Claim \/ T!Complete \/ T!Block \/ T!GiveUp
      <4>1. round' = round \/ round' = [round EXCEPT !.governs = FALSE]
        BY <3>1 DEF T!Promote, T!Claim, T!Complete, T!Block, T!GiveUp, T!Moves
      <4>2. QED
        BY <1>1, <4>1 DEF RoundRows
    <3>2. CASE T!Attend
      BY <1>1, <3>2 DEF T!Attend, RoundRows
    <3>3. CASE T!NewRound
      <4>1. round.n + 1 \in 1..MaxRounds /\ pull.head \in Heads
        BY <1>1, <3>3 DEF T!NewRound, RoundRows, T!TerminalAssumption, GraphInv, GraphTypes
      <4>2. QED
        BY <3>3, <4>1 DEF T!NewRound, RoundRows
    <3>4. CASE UNCHANGED round
      BY <1>1, <3>4
    <3>5. QED
      BY <1>3, <3>1, <3>2, <3>3, <3>4 DEF T!World, T!Link, T!Unlink, T!Push, T!MergePull, T!ClosePull,
                                          T!PullGoes, T!CloseIssue, T!board
  <2>4. QED
    BY <2>1, <2>2, <2>3 DEF EventsFit
<1>4. CASE T!Step \/ T!Fails
  <2>1. UNCHANGED <<links, recorded, round>>
    BY <1>4 DEF T!Step, T!Fails, T!ReadBoard, T!Restore, T!ReadPull, T!ReadIssue, T!Prove, T!Converge,
                T!ReadCompletion, T!Apply, T!board
  <2>2. \/ sweep'.proven \in {sweep.proven, T!Failed}
        \/ sweep'.proven = T!Provenance(row, links, 0)
    <3>1. CASE T!ReadBoard
      BY <1>1, <3>1 DEF T!ReadBoard, T!Idle
    <3>2. CASE T!Ends
      BY <1>1, <3>2 DEF T!Ends
    <3>3. CASE \E pc : sweep' = [sweep EXCEPT !.pc = pc]
      BY <1>1, <3>3
    <3>4. CASE T!ReadPull /\ sweep' = [sweep EXCEPT !.pc = "issue", !.head = pull.head]
      BY <1>1, <3>4
    <3>5. QED
      BY <1>4, <3>1, <3>2, <3>3, <3>4 DEF T!Step, T!Fails, T!Restore, T!ReadPull, T!ReadIssue, T!Prove,
                                          T!Converge, T!ReadCompletion, T!Apply, T!Unproven, T!ToStep
  <2>3. QED
    BY <1>1, <2>1, <2>2, ProvenCards DEF EventsFit
<1>5. QED
  BY <1>2, <1>3, <1>4 DEF T!Next

\* Only a running card is owned, a linked parent is on record, and the newest round of the
\* developer has a head that was pushed (sync_board, unlink_tasks, task_events).
THEOREM GraphsKeepShape == T!Spec => []T!TypeOK
<1> SUFFICES ASSUME T!TerminalAssumption  PROVE T!Spec => []T!TypeOK
  BY GraphAssumption
<1>1. T!Init => GraphInv /\ EventsFit
  <2> SUFFICES ASSUME T!Init  PROVE GraphInv /\ EventsFit
    OBVIOUS
  <2>1. round \in RoundRows
    BY DEF T!Init, RoundRows, T!TerminalAssumption
  <2>2. T!Idle.proven.stale = {} /\ T!Idle.proven.unstarted = {}
    BY DEF T!Idle, T!Failed
  <2>3. EventsFit
    BY <2>1, <2>2 DEF T!Init, EventsFit
  <2>4. QED
    BY <2>3, GraphInitially
<1>2. GraphInv /\ [T!Next]_T!vars => GraphInv'
  BY GraphStep
<1>3. GraphInv /\ EventsFit /\ [T!Next]_T!vars => EventsFit'
  BY EventsStep
<1>4. GraphInv /\ EventsFit => T!TypeOK
  <2> SUFFICES ASSUME GraphInv, EventsFit  PROVE T!TypeOK
    OBVIOUS
  <2>1. \A c \in T!Cards :
          /\ row[c].status \in {"todo", "ready", "running", "blocked", "review", "done", "archived"}
          /\ row[c].owned <=> row[c].status = "running"
    BY DEF GraphInv, GraphTypes, OwnersRun, Rows
  <2>2. round.n \in 0..MaxRounds /\ round.head \in Heads
    BY DEF EventsFit, RoundRows, T!TerminalAssumption
  <2>3. pull.head \in Heads /\ pull.state \in {"open", "merged", "closed"}
    BY DEF GraphInv, GraphTypes
  <2>4. QED
    BY <2>1, <2>2, <2>3 DEF EventsFit, T!TypeOK
<1>5. QED
  BY <1>1, <1>2, <1>3, <1>4, PTL DEF T!Spec
=============================================================================
