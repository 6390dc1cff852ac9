------------------------------ MODULE EdgeHold ------------------------------
(***************************************************************************)
(* One GitHub-backed card outside the rework lifecycle: the paths of       *)
(* sync_board (kanban-github-sync.py) that follow completion, the hold of  *)
(* a blocked card and its answer on the Issue, and the explicit            *)
(* supersession of a closed pull request.  A pass reads the card, the pull *)
(* requests, the signal comments, the Issue, its comments, and writes in   *)
(* between; each read and each write is an action of its own, so that the  *)
(* maintainer, the worker or a failed call can come between any two.       *)
(*                                                                         *)
(* The code compares timestamps.  An answer is here its number: marker     *)
(* remembers how many answers there were when it was last edited, and a    *)
(* signal is fresh as long as no event of the card is younger.             *)
(***************************************************************************)
EXTENDS Naturals, FiniteSets

CONSTANTS
    Pulls,      \* numbers of the pull requests that may be linked to the Issue
    SameBranch, \* whether they share a head branch
    Causes,     \* reasons a worker may give for a block
    MaxAnswers, \* bound of the model: trusted comments on the Issue
    MaxFaults,  \* bound of the model: failed calls, dead passes and workers, cards unblocked by hand
    Happens     \* which of these happen: "prune", "reopen", "signal"

ASSUME HoldAssumption ==
    /\ Pulls \subseteq Nat /\ IsFiniteSet(Pulls)
    /\ SameBranch \in BOOLEAN
    /\ MaxAnswers \in Nat /\ MaxFaults \in Nat
    /\ Happens \subseteq {"prune", "reopen", "signal"}

VARIABLES
    card,    \* the row of tasks: its status and the reason of its newest blocked event
    events,  \* what task_events remember: answers consumed, resumes, done and superseded
    pulls,   \* state of each pull request
    pruned,  \* those whose closing relationship GitHub does not return any more
    fresh,   \* those with a trusted AGENT_PR_SUPERSEDE comment younger than every event
    issue,   \* its state, whether it carries agent-blocked, and history: was it ever completed
    answers, \* how many trusted comments it has
    marker,  \* the blocker comment of the card: what it says, and the answers before its last edit
    faults,  \* how often a call failed, a pass or a worker died or an operator unblocked the card
    pass     \* the pass of the edge

vars == <<card, events, pulls, pruned, fresh, issue, answers, marker, faults, pass>>
github == <<pulls, pruned, issue, answers, marker>>

NoText == [kind |-> "none", cause |-> "none", answer |-> 0]
HoldText(cause) == [kind |-> "hold", cause |-> cause, answer |-> 0]
ConsumedText(answer) == [kind |-> "consumed", cause |-> "none", answer |-> answer]

Idle == [pc |-> "idle", status |-> "none", linked |-> {}, closed |-> {}, merged |-> {},
         desired |-> "none", reason |-> "none", ready |-> FALSE, hold |-> FALSE, seen |-> 0,
         text |-> NoText]

Statuses == {"ready", "running", "blocked", "review", "done"}

\* ready is open with agent-ready, completed is closed as completed by a trusted actor.
IssueStates == {"ready", "open", "closed", "completed"}
Closed == issue.state \in {"closed", "completed"}

Init ==
    /\ card = [status |-> "ready", cause |-> "none"]
    /\ events = [consumed |-> 0, resumes |-> 0, done |-> {}, superseded |-> {}]
    /\ pulls = [p \in Pulls |-> "none"] /\ pruned = {} /\ fresh = {}
    /\ issue = [state |-> "ready", hold |-> FALSE, agreed |-> FALSE]
    /\ answers = 0
    /\ marker = [text |-> NoText, after |-> 0]
    /\ faults = 0
    /\ pass = Idle

-----------------------------------------------------------------------------
(* The worker, the core dispatcher and the operator                         *)

\* A step of the card's life: every one leaves an event younger than the signals.
Live(from, to, cause) ==
    /\ card.status = from
    /\ card' = [status |-> to, cause |-> cause]
    /\ fresh' = {}
    /\ UNCHANGED <<events, github, pass>>

Claim == Live("ready", "running", card.cause)
Complete == Live("running", "done", card.cause)
Block == \E cause \in Causes : Live("running", "blocked", cause)

Faulty == faults < MaxFaults /\ faults' = faults + 1

\* The core gives up on a crashed worker; _task_block_reason goes on reading the older reason.
GiveUp == Faulty /\ Live("running", "blocked", card.cause)

\* kanban unblock: an operator puts the card back without an answer.
Unblock == Faulty /\ Live("blocked", "ready", card.cause)

-----------------------------------------------------------------------------
(* GitHub and the maintainer                                                *)

Human(var) ==
    /\ UNCHANGED <<card, events, pass>>
    /\ var

PullGoes(p, from, to) ==
    /\ pulls[p] = from
    /\ pulls' = [pulls EXCEPT ![p] = to]
    /\ UNCHANGED <<pruned, fresh, issue, answers, marker>>

\* GitHub refuses a second open pull request of one branch.
OpenPull ==
    \E p \in Pulls :
       /\ \A q \in Pulls : q < p => pulls[q] # "none" /\ (SameBranch => pulls[q] # "open")
       /\ Human(PullGoes(p, "none", "open"))
ClosePull == \E p \in Pulls : Human(PullGoes(p, "open", "closed"))
MergePull == \E p \in Pulls : Human(PullGoes(p, "open", "merged"))

Prune ==
    /\ "prune" \in Happens
    /\ \E p \in Pulls \ pruned :
          /\ pulls[p] = "merged"
          /\ pruned' = pruned \union {p}
    /\ UNCHANGED <<card, events, pulls, fresh, issue, answers, marker, pass>>

Signal ==
    /\ "signal" \in Happens
    /\ \E p \in Pulls :
          /\ pulls[p] = "closed"
          /\ fresh' = fresh \union {p}
    /\ UNCHANGED <<card, events, github, pass>>

Answer ==
    /\ answers < MaxAnswers
    /\ answers' = answers + 1
    /\ UNCHANGED <<card, events, pulls, pruned, fresh, issue, marker, pass>>

IssueGoes(new) ==
    /\ issue' = new
    /\ UNCHANGED <<card, events, pulls, pruned, fresh, answers, marker, pass>>

LiftHold == issue.hold /\ IssueGoes([issue EXCEPT !.hold = FALSE])
MoveIssue ==
    \E from, to \in IssueStates :
       /\ from # to /\ issue.state = from
       /\ from = "ready" \/ "reopen" \in Happens
       /\ IssueGoes([issue EXCEPT !.state = to, !.agreed = @ \/ to = "completed"])

World ==
    /\ UNCHANGED faults
    /\ \/ Claim \/ Complete \/ Block
       \/ OpenPull \/ ClosePull \/ MergePull \/ Prune \/ Signal
       \/ Answer \/ LiftHold \/ MoveIssue

-----------------------------------------------------------------------------
(* What a pass concludes from the pull requests it read                     *)

\* _explicit_superseded_pr_numbers are left out.
Effective == pass.linked \ events.superseded
Opened == pass.linked \ (pass.closed \union pass.merged)

\* Wrong on purpose: a closed pull request is as good as a merged one.
WrongConclusion(ps) ==
    IF ps = {} THEN [desired |-> "review", reason |-> "no_linked_pr"]
    ELSE IF ps \intersect Opened = {} THEN [desired |-> "done", reason |-> "all_linked_prs_merged"]
    ELSE [desired |-> "review", reason |-> "linked_pr_open"]

\* evaluate_completion of the given pull requests, without the state of the Issue.
Conclusion(ps) ==
    IF ps = {} THEN [desired |-> "review", reason |-> "no_linked_pr"]
    ELSE IF ps \subseteq pass.merged THEN [desired |-> "done", reason |-> "all_linked_prs_merged"]
    ELSE IF ps \intersect Opened # {} THEN [desired |-> "review", reason |-> "linked_pr_open"]
    ELSE [desired |-> "review", reason |-> "linked_pr_closed_not_merged"]

\* _superseded_closed_pr_numbers: closed, and a younger one of the same branch was merged.
Replaced == {p \in pass.closed : SameBranch /\ \E q \in pass.merged : q > p}

\* verify_completion asks for the Issue only when every closed pull request has its replacement.
Lineage ==
    /\ Conclusion(pass.linked).reason = "linked_pr_closed_not_merged"
    /\ Replaced = pass.closed /\ Closed

\* install_closed_completed_terminal_fallback, the wrapper of verify_completion: without a pull
\* request the word of a trusted actor counts.
Completed == pass.linked = {} /\ issue.state = "completed"

\* _has_prior_authoritative_done: a card that was finished by a merge is not parked because
\* GitHub returns no link any more.
Preserved ==
    /\ pass.status = "done" /\ pass.linked = {}
    /\ "all_linked_prs_merged" \in events.done

\* The decision is formed again, by evaluate_completion alone, whenever something was superseded
\* explicitly.
Decision ==
    IF events.superseded # {} THEN Conclusion(Effective)
    ELSE IF Lineage THEN [desired |-> "done", reason |-> "superseded_pr_merged"]
    ELSE IF Completed THEN [desired |-> "done", reason |-> "trusted_issue_completed"]
    ELSE IF Preserved THEN [desired |-> "done", reason |-> "authoritative_done_preserved"]
    ELSE Conclusion(pass.linked)

Ends == pass' = Idle

-----------------------------------------------------------------------------
(* What a pass reads                                                        *)

ReadCard ==
    /\ pass.pc = "idle"
    /\ card.status \in {"blocked", "review", "done"}
    /\ pass' = [Idle EXCEPT !.pc = "pulls", !.status = card.status]
    /\ UNCHANGED <<card, events, github, fresh>>

\* A merged pull request without its closing relationship does not close the Issue for the edge.
Linked == {p \in Pulls : pulls[p] # "none"} \ pruned

ReadPulls ==
    /\ pass.pc = "pulls"
    /\ pass' = [pass EXCEPT !.pc = "conclude", !.linked = Linked,
                              !.closed = {p \in Linked : pulls[p] = "closed"},
                              !.merged = {p \in Linked : pulls[p] = "merged"}]
    /\ UNCHANGED <<card, events, github, fresh>>

\* The decision, with the Issue it may need.  The signals are looked for when the row was read
\* as review or blocked and a linked pull request is closed without a merge.
Conclude ==
    /\ pass.pc = "conclude"
    /\ pass' = [pass EXCEPT
                  !.pc = IF pass.status # "done" /\ pass.closed # {} THEN "signal" ELSE "decide",
                  !.merged = {}, !.desired = Decision.desired, !.reason = Decision.reason]
    /\ UNCHANGED <<card, events, github, fresh>>

\* Wrong on purpose: the one closed pull request is ambiguous by itself.
WrongAmbiguous == Cardinality(pass.linked) >= 1

Ambiguous == Cardinality(pass.linked) > 1

\* _find_pr_supersede_signal: trusted, and no event of the card is younger.
Signalled == fresh \intersect pass.closed

\* A signal on one of several pull requests is ambiguous and ends the pass; without one, or for
\* a pull request that is superseded already, the ordinary paths go on.
ReadSignal ==
    /\ pass.pc = "signal"
    /\ IF Signalled = {} THEN pass' = [pass EXCEPT !.pc = "decide"]
         ELSE IF Ambiguous THEN Ends
         ELSE pass' = [pass EXCEPT !.pc = IF Signalled \subseteq events.superseded
                                            THEN "decide" ELSE "agree"]
    /\ UNCHANGED <<card, events, github, fresh>>

ReadAgreement ==
    /\ pass.pc = "agree"
    /\ IF issue.state = "ready" THEN pass' = [Idle EXCEPT !.pc = "supersede", !.closed = pass.closed] ELSE Ends
    /\ UNCHANGED <<card, events, github, fresh>>

\* _consume_explicit_pr_supersede, apply_supersede: the card is a new piece of work.
Supersede ==
    /\ pass.pc = "supersede"
    /\ IF card.status \in {"review", "blocked"}
         THEN /\ card' = [card EXCEPT !.status = "ready"]
              /\ events' = [events EXCEPT !.superseded = @ \union pass.closed]
              /\ fresh' = {}
         ELSE UNCHANGED <<card, events, fresh>>
    /\ Ends
    /\ UNCHANGED github

-----------------------------------------------------------------------------
(* What a pass does with it                                                 *)

Decide ==
    /\ pass.pc = "decide"
    /\ LET applies == \/ pass.status # "blocked" \/ pass.desired = "done"
                      \/ pass.reason = "linked_pr_open"
       IN pass' = IF applies
                    THEN [pass EXCEPT !.pc = "apply", !.linked = {}, !.closed = {}]
                    ELSE [Idle EXCEPT !.pc = "issue", !.linked = Effective]
    /\ UNCHANGED <<card, events, github, fresh>>

\* _PRESERVED_STATES, with allow_blocked_source for a card that was read as blocked.
Movable ==
    \/ card.status \in {"review", "done"}
    \/ card.status = "blocked" /\ pass.status = "blocked"

\* apply_decision: nothing is recorded when the card is already where it should be.
Apply ==
    /\ pass.pc = "apply"
    /\ IF Movable /\ card.status # pass.desired
         THEN /\ card' = [card EXCEPT !.status = pass.desired]
              /\ events' = [events EXCEPT !.done = IF pass.desired = "done"
                                                     THEN @ \union {pass.reason} ELSE @]
              /\ fresh' = {}
         ELSE UNCHANGED <<card, events, fresh>>
    /\ Ends
    /\ UNCHANGED github

ReadIssue ==
    /\ pass.pc = "issue"
    /\ IF Closed THEN Ends
         ELSE pass' = [pass EXCEPT !.pc = "comments", !.hold = issue.hold,
                                   !.ready = issue.state = "ready"]
    /\ UNCHANGED <<card, events, github, fresh>>

\* _trusted_response_after the last edit of the marker
Unanswered == answers = marker.after \/ marker.text.kind = "none"

\* _last_resume_response_at: the newest answer is the one that resumed the card before.
LastConsumed == answers = events.consumed

\* evaluate_blocked_resume
Outcome ==
    IF \/ pass.linked # {} \/ marker.text.kind = "none" \/ ~pass.ready
       \/ pass.hold \/ Unanswered
      THEN "project"
      ELSE IF LastConsumed THEN "consumed" ELSE "resume"

\* The comments of the Issue: the marker, and the newest trusted comment younger than its edit.
ReadComments ==
    /\ pass.pc = "comments"
    /\ pass' = [pass EXCEPT
                  !.pc = IF Outcome = "resume" THEN "resume" ELSE "upsert",
                  !.linked = {}, !.ready = FALSE, !.seen = IF Unanswered THEN 0 ELSE answers,
                  !.text = IF Outcome = "consumed" THEN ConsumedText(answers)
                                                   ELSE HoldText(card.cause)]
    /\ UNCHANGED <<card, events, github, fresh>>

\* Wrong on purpose: the answer that was used is not recorded with the transition.
WrongConsume == [events EXCEPT !.resumes = @ + 1]

Consume == [events EXCEPT !.consumed = pass.seen, !.resumes = @ + 1]

\* apply_blocked_resume: the status and the event in one transaction.
Resume ==
    /\ pass.pc = "resume"
    /\ IF card.status = "blocked"
         THEN card' = [card EXCEPT !.status = "ready"] /\ events' = Consume /\ fresh' = {}
         ELSE UNCHANGED <<card, events, fresh>>
    /\ Ends
    /\ UNCHANGED github

\* Wrong on purpose: the label goes with an edit of the marker only.
WrongShowsHold == ~pass.hold /\ pass.seen = 0 /\ marker.text # pass.text

\* "Hold label maintenance": the label is shown as long as no answer was read.
ShowsHold == ~pass.hold /\ pass.seen = 0

\* The marker is left alone when it already says so.
Edits == marker.text # pass.text

\* _upsert_blocker_comment: reads the comments again and edits or creates the marker.
Upsert ==
    /\ pass.pc = "upsert"
    /\ marker' = IF Edits THEN [text |-> pass.text, after |-> answers] ELSE marker
    /\ IF pass.text.kind = "consumed" THEN Ends
         ELSE pass' = [Idle EXCEPT !.pc = IF ShowsHold THEN "label" ELSE "record",
                                   !.text = IF Edits THEN pass.text ELSE NoText]
    /\ UNCHANGED <<card, events, pulls, pruned, fresh, issue, answers>>

AddLabel ==
    /\ pass.pc = "label"
    /\ issue' = [issue EXCEPT !.hold = TRUE]
    /\ pass' = [pass EXCEPT !.pc = "record"]
    /\ UNCHANGED <<card, events, pulls, pruned, fresh, answers, marker>>

\* Only a changed marker is recorded.
Edited == pass.text # NoText

\* The github_blocked_projection event.
Record ==
    /\ pass.pc = "record"
    /\ fresh' = IF Edited THEN {} ELSE fresh
    /\ Ends
    /\ UNCHANGED <<card, events, github>>

\* A call to GitHub fails: the card is left for the next pass.
CallFails ==
    /\ Faulty
    /\ pass.pc \in {"pulls", "conclude", "signal", "agree", "issue", "comments", "upsert", "label"}
    /\ Ends
    /\ UNCHANGED <<card, events, github, fresh>>

\* The process ends between two steps.
Dies ==
    /\ Faulty
    /\ pass.pc \in {"supersede", "apply", "resume", "record"}
    /\ Ends
    /\ UNCHANGED <<card, events, github, fresh>>

Step ==
    /\ UNCHANGED faults
    /\ \/ ReadCard \/ ReadPulls \/ Conclude \/ ReadSignal \/ ReadAgreement \/ Supersede
       \/ Decide \/ Apply \/ ReadIssue \/ ReadComments \/ Resume \/ Upsert \/ AddLabel \/ Record

Next == World \/ GiveUp \/ Unblock \/ Step \/ CallFails \/ Dies

\* The scheduled passes go on, and only so many of them fail.
Fairness == WF_vars(Step)

Spec == Init /\ [][Next]_vars /\ Fairness

-----------------------------------------------------------------------------
(* What it is for                                                           *)

Texts == {NoText} \union {HoldText(c) : c \in Causes \union {"none"}}
                 \union {ConsumedText(n) : n \in 1..MaxAnswers}

Merges == {"all_linked_prs_merged", "superseded_pr_merged"}

\* Types, and what a pass may still write: it consumes only answers that exist, and the marker
\* names only answers older than its edit.
TypeOK ==
    /\ card \in [status : Statuses, cause : Causes \union {"none"}]
    /\ events.consumed \in 0..answers /\ events.superseded \subseteq Pulls
    /\ events.done \subseteq Merges \union {"trusted_issue_completed"}
    /\ pulls \in [Pulls -> {"none", "open", "closed", "merged"}]
    /\ pruned \subseteq Pulls /\ fresh \subseteq Pulls
    /\ issue \in [state : IssueStates, hold : BOOLEAN, agreed : BOOLEAN]
    /\ answers \in 0..MaxAnswers /\ faults \in 0..MaxFaults
    /\ marker.text \in Texts /\ marker.after \in 0..answers
    /\ marker.text.answer <= marker.after
    /\ pass.text \in Texts /\ pass.seen \in 0..answers

\* An answer of the maintainer resumes a card once, however often the worker blocks, crashes
\* or the pass dies afterwards (evaluate_blocked_resume, apply_blocked_resume).
OneResumePerAnswer == events.resumes <= events.consumed

\* A card the edge finished for a merge has a merged pull request that was not abandoned; one it
\* finished without a pull request has the Issue completed by a trusted actor (evaluate_completion,
\* install_closed_completed_terminal_fallback, apply_decision).
DoneIsEarned ==
    /\ events.done \intersect Merges # {} =>
         \E p \in Pulls \ events.superseded : pulls[p] = "merged"
    /\ "trusted_issue_completed" \in events.done => issue.agreed

\* A blocked card without a pull request whose answer or whose signal waits.
NoPull == Linked \ events.superseded = {}

AnswerWaits ==
    /\ card.status = "blocked" /\ NoPull
    /\ issue.state = "ready" /\ ~issue.hold
    /\ marker.text.kind # "none" /\ answers > marker.after /\ answers # events.consumed

SignalWaits ==
    /\ card.status \in {"review", "blocked"}
    /\ issue.state = "ready"
    /\ \E p \in fresh \ events.superseded : Linked = {p} /\ pulls[p] = "closed"

\* Neither an answer younger than the marker, with the label removed, nor a signal younger than
\* every event waits for ever (_reconcile_blocked, _consume_explicit_pr_supersede).
MaintainerIsHeard == []<>~AnswerWaits /\ []<>~SignalWaits

\* A blocked card without a pull request does not stay without its hold: the marker with its
\* current reason and the label, or an answer (_reconcile_blocked, "durable GitHub evidence").
HoldIsMissing ==
    /\ card.status = "blocked" /\ NoPull /\ ~Closed
    /\ ~ /\ marker.text = HoldText(card.cause)
         /\ issue.hold \/ answers > marker.after
HoldIsShown == []<>~HoldIsMissing

\* "Authoritative done never regresses to review on weak subsequent lookups": a card the edge
\* finished because of a merge is not parked for want of a link (sync_board).
DoneStaysDone ==
    [][~ /\ events.done \intersect Merges # {} /\ pass.reason = "no_linked_pr"
         /\ card.status = "done" /\ card'.status = "review"]_vars

=============================================================================
