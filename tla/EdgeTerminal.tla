---------------------------- MODULE EdgeTerminal ----------------------------
(***************************************************************************)
(* The dependency gate of an intake root and its terminal convergence      *)
(* (sync_board, _restore_pending_dependency and                            *)
(* _attempt_terminal_merge_convergence of kanban-github-sync.py).  The     *)
(* root waits for a reviewer, the reviewer for a developer, the developer  *)
(* for a specification that is done.  When the pull request was merged and *)
(* the Issue closed outside, a stale developer and an unstarted reviewer   *)
(* are closed with the root in one transaction.  The pass reads the board, *)
(* the pull request, the Issue, the board's events, and then locks the     *)
(* board: workers, the dispatcher, the operator and GitHub move between    *)
(* any two of these.                                                       *)
(***************************************************************************)
EXTENDS Naturals, FiniteSets

CONSTANTS
    Heads,     \* heads of the pull request, in the order they are pushed
    MaxRounds, \* bound of the model: rework rounds of the developer
    MaxFaults, \* bound of the model: calls that fail and passes that die
    Happens    \* which of these happen: "link", "unlink"

TerminalAssumption ==
    /\ Heads \subseteq Nat \ {0} /\ 1 \in Heads /\ IsFiniteSet(Heads)
    /\ MaxRounds \in Nat \ {0} /\ MaxFaults \in Nat
    /\ Happens \subseteq {"link", "unlink"}

Cards == {"root", "reviewer", "developer", "spec", "late"}
Terminal == {"done", "archived"}

VARIABLES
    row,      \* status of each card, and whether a worker owns it
    links,    \* task_links: <<parent, child>>
    recorded, \* the parents the created and linked events remember
    round,    \* the newest rework event of the developer: its number and head, whether it
              \* still governs, and whether a rework attention is younger
    pull,     \* the linked pull request: state and head
    issue,    \* whether the Issue is closed
    faults,   \* how often a call failed or a pass died
    pass      \* the pass of the edge

vars == <<row, links, recorded, round, pull, issue, faults, pass>>
board == <<row, links, recorded, round>>

Row(status, owned) == [status |-> status, owned |-> owned]
Failed == [stale |-> {}, unstarted |-> {}, round |-> 0, ok |-> FALSE]
Idle == [pc |-> "idle", rows |-> <<>>, links |-> {}, proven |-> Failed, head |-> 0]

Init ==
    /\ row = [c \in Cards |-> CASE c = "spec" -> Row("done", FALSE)
                                [] c = "developer" -> Row("ready", FALSE)
                                [] OTHER -> Row("todo", FALSE)]
    /\ links = {<<"spec", "developer">>, <<"developer", "reviewer">>, <<"reviewer", "root">>}
    /\ recorded = links
    /\ round = [n |-> 1, head |-> 1, governs |-> TRUE, attention |-> FALSE]
    /\ pull = [state |-> "open", head |-> 1]
    /\ issue = "open"
    /\ faults = 0
    /\ pass = Idle

-----------------------------------------------------------------------------
(* The board                                                                *)

Parents(c, ls) == {p \in Cards : <<p, c>> \in ls}

\* _internal_dependency_gate
Pending(c, rows, ls) == {p \in Parents(c, ls) : rows[p].status \notin Terminal}

Up(cs, ls) == cs \union {l[1] : l \in {k \in ls : k[2] \in cs}}

\* _terminal_chain_ancestors: the root and everything above it, at most four cards.
Chain(ls) == Up(Up(Up(Up({"root"}, ls), ls), ls), ls)

Owned(rows, cs) == \E c \in cs : rows[c].owned \/ rows[c].status = "running"

\* Who was created as kanban-developer and as kanban-reviewer.
Developers == {"developer"}
Reviewers == {"reviewer", "late"}

Recorded(c, ls) == Parents(c, recorded) = Parents(c, ls) /\ Parents(c, ls) # {}

\* No later transition of the card has superseded its newest round.
Governing == round.n > 0 /\ round.governs

\* A hold younger than the round: a block would govern, an attention does not.
HumanHold == round.attention

\* _terminal_convergence_rework_provenance
StaleRound(head) == Governing /\ ~HumanHold /\ (head # 0 => round.head = head)

\* _terminal_convergence_node_provenance: what every card above the root is.
Provenance(rows, ls, head) ==
    LET above == Chain(ls) \ {"root"}
        open == {c \in above : rows[c].status \notin Terminal}
        stale == {c \in open : /\ rows[c].status = "blocked" /\ c \in Developers
                               /\ Recorded(c, ls) /\ StaleRound(head)}
        unstarted == {c \in open : /\ rows[c].status \in {"todo", "review", "ready", "scheduled"}
                                   /\ c \in Reviewers /\ Recorded(c, ls)
                                   /\ Parents(c, ls) \intersect stale # {}
                                   /\ Pending(c, rows, ls) \subseteq stale}
    IN IF open = stale \union unstarted
         THEN [stale |-> stale, unstarted |-> unstarted, round |-> round.n, ok |-> TRUE]
         ELSE Failed

-----------------------------------------------------------------------------
(* The core dispatcher, the workers and the operator                        *)

\* A transition of one card; "quiet" ones leave no event that governs.
Moves(c, from, to, owned, governs) ==
    /\ row[c].status = from
    /\ row' = [row EXCEPT ![c] = Row(to, owned)]
    /\ round' = IF governs /\ c = "developer" THEN [round EXCEPT !.governs = FALSE] ELSE round
    /\ UNCHANGED <<links, recorded, pull, issue, pass>>

Promote == \E c \in Cards : Pending(c, row, links) = {} /\ Moves(c, "todo", "ready", FALSE, TRUE)
Claim == \E c \in Cards : Pending(c, row, links) = {} /\ Moves(c, "ready", "running", TRUE, FALSE)
Complete ==
    \E c \in Cards : Moves(c, "running", IF c = "root" THEN "review" ELSE "done", FALSE, TRUE)
Block == \E c \in {"developer", "reviewer"} : Moves(c, "running", "blocked", FALSE, TRUE)
GiveUp == Moves("developer", "running", "blocked", FALSE, FALSE)

\* A rework attention of the developer's round.
Attend ==
    /\ row["developer"].status = "blocked" /\ ~round.attention
    /\ round' = [round EXCEPT !.attention = TRUE]
    /\ UNCHANGED <<row, links, recorded, pull, issue, pass>>

\* Another rework round, opened by the edge between two of its passes.
NewRound ==
    /\ pass.pc = "idle" /\ pull.state = "open"
    /\ row["developer"].status \in {"blocked", "done"} /\ round.n < MaxRounds
    /\ row' = [row EXCEPT !["developer"] = Row("ready", FALSE)]
    /\ round' = [n |-> round.n + 1, head |-> pull.head, governs |-> TRUE, attention |-> FALSE]
    /\ UNCHANGED <<links, recorded, pull, issue, pass>>

\* Another parent of the root: unrelated work, or the reviewer of a new round.
Link ==
    /\ "link" \in Happens
    /\ <<"late", "root">> \notin links
    /\ \E ls \in {{<<"late", "root">>}, {<<"developer", "late">>, <<"late", "root">>}} :
          /\ links' = links \union ls
          /\ recorded' = recorded \union ls
    /\ UNCHANGED <<row, round, pull, issue, pass>>

\* unlink_tasks leaves the events that recorded the parent.
Unlink ==
    /\ "unlink" \in Happens
    /\ links' = links \ {<<"developer", "reviewer">>}
    /\ links' # links
    /\ UNCHANGED <<row, recorded, round, pull, issue, pass>>

-----------------------------------------------------------------------------
(* GitHub                                                                   *)

PullGoes(new) ==
    /\ pull.state = "open"
    /\ pull' = new
    /\ UNCHANGED <<board, issue, pass>>

Push == \E h \in Heads : h > pull.head /\ PullGoes([pull EXCEPT !.head = h])
MergePull == PullGoes([pull EXCEPT !.state = "merged"])
ClosePull == PullGoes([pull EXCEPT !.state = "closed"])

CloseIssue ==
    /\ issue = "open"
    /\ issue' = "closed"
    /\ UNCHANGED <<board, pull, pass>>

World ==
    /\ UNCHANGED faults
    /\ \/ Promote \/ Claim \/ Complete \/ Block \/ GiveUp \/ Attend
       \/ NewRound \/ Link \/ Unlink
       \/ Push \/ MergePull \/ ClosePull \/ CloseIssue

-----------------------------------------------------------------------------
(* The pass                                                                 *)

Ends == pass' = Idle
ToStep(pc) == pass' = [pass EXCEPT !.pc = pc]

\* _attempt_terminal_merge_convergence, which roots it is for.
Converges(rows, ls) ==
    Pending("root", rows, ls) # {} /\ rows["root"].status \in {"todo", "review"}

\* _edge_single_flight
SingleFlight == pass.pc = "idle"

\* sync_board reads the gate; an owned card above a parked root sends it to the repair, a graph
\* that cannot be explained only leaves a diagnostic.
ReadBoard ==
    /\ SingleFlight
    /\ row["root"].status \in {"todo", "review", "done"}
    /\ LET proven == Provenance(row, links, 0)
       IN \/ /\ Converges(row, links) /\ ~Owned(row, Chain(links)) /\ proven.ok
             /\ pass' = [Idle EXCEPT !.pc = "pull", !.rows = row, !.links = links,
                                     !.proven = proven]
          \/ /\ Pending("root", row, links) # {}
             /\ \/ row["root"].status = "done"
                \/ row["root"].status = "review" /\ Owned(row, Chain(links))
             /\ pass' = [Idle EXCEPT !.pc = "restore", !.rows = row]
          \/ /\ Pending("root", row, links) = {} /\ row["root"].status # "todo"
             /\ pass' = [Idle EXCEPT !.pc = "complete"]
    /\ UNCHANGED <<board, pull, issue>>

\* _restore_pending_dependency: the row may have moved since, the gate is not read again.
Restore ==
    /\ pass.pc = "restore"
    /\ row' = IF row["root"] = pass.rows["root"] /\ row["root"].status \in {"review", "done"}
                THEN [row EXCEPT !["root"] = Row("todo", FALSE)] ELSE row
    /\ Ends
    /\ UNCHANGED <<links, recorded, round, pull, issue>>

\* Without a merged pull request and a closed Issue the classic lane follows.
Unproven == IF pass.rows["root"].status = "review" THEN ToStep("restore") ELSE Ends

\* verify_completion
ReadPull ==
    /\ pass.pc = "pull"
    /\ IF pull.state = "merged"
         THEN pass' = [pass EXCEPT !.pc = "issue", !.head = pull.head]
         ELSE Unproven
    /\ UNCHANGED <<board, pull, issue>>

\* _issue_is_closed
ReadIssue ==
    /\ pass.pc = "issue"
    /\ IF issue = "closed" THEN ToStep("prove") ELSE Unproven
    /\ UNCHANGED <<board, pull, issue>>

\* The same rows again, with the events of now and the head that was merged.
Prove ==
    /\ pass.pc = "prove"
    /\ IF Provenance(pass.rows, pass.links, pass.head) = pass.proven
         THEN ToStep("converge") ELSE Ends
    /\ UNCHANGED <<board, pull, issue>>

Finished(rows) ==
    [c \in Cards |-> IF c \in pass.proven.stale \union {"root"} THEN Row("done", FALSE)
                     ELSE IF c \in pass.proven.unstarted THEN Row("archived", FALSE)
                     ELSE rows[c]]

\* Wrong on purpose: the cards and the links are compared, the events are not read again.
WrongUnmoved ==
    /\ Chain(links) = Chain(pass.links)
    /\ \A c \in Chain(links) : row[c] = pass.rows[c] /\ Parents(c, links) = Parents(c, pass.links)
    /\ ~Owned(row, Chain(links))

\* Under BEGIN IMMEDIATE the closure is read again: cards, links, owners and provenance.
Unmoved ==
    /\ Chain(links) = Chain(pass.links)
    /\ \A c \in Chain(links) : row[c] = pass.rows[c] /\ Parents(c, links) = Parents(c, pass.links)
    /\ ~Owned(row, Chain(links))
    /\ Provenance(row, links, pass.head) = pass.proven

\* Every UPDATE names the status that was read and no owner.
Swaps ==
    \A c \in pass.proven.stale \union pass.proven.unstarted \union {"root"} :
       row[c].status = pass.rows[c].status /\ ~row[c].owned

\* _dependency_guard_sql: the parents of the root, in the statement that writes it.
Guard(rows) == Pending("root", rows, links) = {}

\* Wrong on purpose: the root is written before the parents its guard asks for.
WrongOrder ==
    /\ pass.pc = "converge"
    /\ row' = IF Unmoved /\ Swaps /\ Guard(row) THEN Finished(row) ELSE row
    /\ Ends
    /\ UNCHANGED <<links, recorded, round, pull, issue>>

Converge ==
    /\ pass.pc = "converge"
    /\ row' = IF Unmoved /\ Swaps /\ Guard(Finished(row)) THEN Finished(row) ELSE row
    /\ Ends
    /\ UNCHANGED <<links, recorded, round, pull, issue>>

\* The gate is open: the completion of the root follows the pull request.
ReadCompletion ==
    /\ pass.pc = "complete"
    /\ ToStep(IF pull.state = "merged" THEN "done" ELSE "review")
    /\ UNCHANGED <<board, pull, issue>>

\* apply_decision evaluates the gate again in its UPDATE.
Admits == Guard(row)

Apply ==
    /\ pass.pc \in {"done", "review"}
    /\ row' = IF row["root"].status \in {"review", "done"} /\ Admits
                THEN [row EXCEPT !["root"] = Row(pass.pc, FALSE)] ELSE row
    /\ Ends
    /\ UNCHANGED <<links, recorded, round, pull, issue>>

Step ==
    /\ UNCHANGED faults
    /\ \/ ReadBoard \/ Restore \/ ReadPull \/ ReadIssue \/ Prove \/ Converge
       \/ ReadCompletion \/ Apply

\* A call fails or the process dies; the transaction in hand is rolled back.
Fails ==
    /\ pass.pc # "idle" /\ faults < MaxFaults
    /\ faults' = faults + 1
    /\ Ends
    /\ UNCHANGED <<board, pull, issue>>

Next == World \/ Step \/ Fails

\* The scheduled passes go on, and only so many of them fail.
Fairness == WF_vars(Step)

Spec == Init /\ [][Next]_vars /\ Fairness

-----------------------------------------------------------------------------
(* What it is for                                                           *)

\* Types, and that only a running card is owned.
TypeOK ==
    /\ \A c \in Cards :
          /\ row[c].status \in {"todo", "ready", "running", "blocked", "review", "done", "archived"}
          /\ row[c].owned <=> row[c].status = "running"
    /\ links \subseteq recorded
    /\ round.n \in 0..MaxRounds /\ round.head \in Heads
    /\ pull.head \in Heads /\ pull.state \in {"open", "merged", "closed"}
    /\ pass.proven.stale \subseteq Cards /\ pass.proven.unstarted \subseteq Cards

Edge == pass' # pass

\* The edge never touches a card a worker owns, whatever it read before
\* (_attempt_terminal_merge_convergence, the second ownership check).
OwnedIsUntouched ==
    [][Edge => \A c \in Cards : row[c].owned => row'[c] = row[c]]_vars

\* A blocked card becomes DONE only while its rework round governs, carries the merged head, and
\* no attention holds it; a later block or attention stays
\* (_terminal_convergence_current_round_human_hold).
HeldStaysHeld ==
    [][row["developer"].status = "blocked" /\ row'["developer"].status = "done" =>
         /\ round.governs /\ ~round.attention
         /\ pull.state = "merged" /\ round.head = pull.head]_vars

\* The edge finishes a root only together with the last of its parents, also when one was
\* linked or woke up while it asked GitHub (_dependency_guard_sql).
RootIsLast ==
    [][Edge /\ row["root"].status # "done" /\ row'["root"].status = "done" =>
         Pending("root", row', links) = {}]_vars

\* A stale graph whose pull request is merged and whose Issue is closed does not stay open
\* (Issue #73).
Stale ==
    /\ Converges(row, links) /\ ~Owned(row, Chain(links))
    /\ pull.state = "merged" /\ issue = "closed"
    /\ Provenance(row, links, pull.head).ok
StaleGraphConverges == []<>~Stale

\* "Any ambiguous shape ... falls through to the classic lane": a parked root whose parents are
\* not finished goes back to todo (sync_board).
ParkedIsRepaired == []<>~(row["root"].status = "review" /\ Pending("root", row, links) # {})

=============================================================================
