------------------------------ MODULE IntakeRun ------------------------------
(***************************************************************************)
(* One run of the intake worker, from the claim of a wake scope to its     *)
(* transition: checkouts, registry, board bootstrap, closed-Issue cleanup, *)
(* candidates, cards, board passes.  Every repository has one Issue.  What *)
(* a checkout attempt and a board pass do inside is left to Checkout and   *)
(* EdgeRework; the router's store is its promise, a queue of scopes.       *)
(* GitHub, the operator and a manual run act between any two steps.        *)
(***************************************************************************)
EXTENDS Naturals

CONSTANTS Repos,
          Procs,      \* intake processes
          MaxEvents,  \* bound on acts of people and on webhooks they cause
          MaxFaults   \* bound on failing calls, kills and expired leases

ASSUME IntakeRunAssumption ==
  Repos # {} /\ Procs # {} /\ MaxEvents \in Nat /\ MaxFaults \in Nat

VARIABLES issue,    \* the Issue of each repository as GitHub has it
          card,     \* the Issues that have a card
          checkout, \* the canonical checkout of each repository
          board,    \* the canonical board of each repository
          queued,   \* wake scopes to be claimed
          orphans,  \* scopes whose claimant is gone, until the lease expires
          run,      \* the progress of each process
          events, faults

vars == <<issue, card, checkout, board, queued, orphans, run, events, faults>>
People == <<issue, checkout, board>>

Event(S) == [mode |-> "event", repos |-> S]
Full == [mode |-> "full", repos |-> {}]
Scopes == {Event(S) : S \in (SUBSET Repos) \ {{}}} \union {Full}
Kinds == Scopes \union {[mode |-> "manual", repos |-> {r}] : r \in Repos}
         \union {[mode |-> "none", repos |-> {}]}

\* perm, fail: repositories skipped for a permanent, a retryable reason;
\* late: repositories whose Issue became eligible after the claim.
Idle == [pc |-> "idle", scope |-> [mode |-> "none", repos |-> {}], held |-> FALSE,
         todo |-> {}, ok |-> {}, made |-> {}, ready |-> {}, sel |-> {},
         closing |-> {}, cands |-> {}, perm |-> {}, fail |-> {}, late |-> {}]

Init ==
  /\ issue = [r \in Repos |-> "none"]
  /\ card = {}
  /\ checkout \in [Repos -> {"missing", "ok"}]
  /\ board \in [Repos -> {"missing", "ok"}]
  /\ queued = {} /\ orphans = {}
  /\ run = [p \in Procs |-> Idle]
  /\ events = 0 /\ faults = 0

Phases == {"idle", "sweep", "checkouts", "registry", "vet", "boards", "select",
           "cleanup", "list", "slugs", "snapshot", "import", "sync", "finish",
           "ack", "skip", "requeue"}

TypeOK ==
  /\ issue \in [Repos -> {"none", "ready", "merged", "closed"}]
  /\ card \subseteq Repos
  /\ checkout \in [Repos -> {"missing", "ok", "dirty"}]
  /\ board \in [Repos -> {"missing", "ok", "foreign"}]
  /\ queued \subseteq Scopes /\ orphans \subseteq Scopes
  /\ \A p \in Procs :
       /\ run[p].pc \in Phases /\ run[p].scope \in Kinds
       /\ run[p].held => run[p].scope \in Scopes
       /\ run[p].cands \subseteq run[p].sel
       /\ run[p].pc \in {"ack", "skip", "requeue"} => run[p].scope \in Scopes
       /\ run[p].pc = "ack" => run[p].fail = {}
  /\ events \in 0..MaxEvents /\ faults \in 0..MaxFaults

-----------------------------------------------------------------------------
At(p, pc) == run[p].pc = pc
Set(p, r) == run' = [run EXCEPT ![p] = r]
Mode(p) == run[p].scope.mode
Scoped(p) == Mode(p) \in {"event", "full"}
\* Every repository but a manual one fails on its own in the later phases.
Isolated(p) == Mode(p) # "manual"
Fault == faults < MaxFaults /\ faults' = faults + 1
Store == <<queued, orphans>>

\* An exception ends the run; a claimed scope is finalized first.
Raise(p, pc) ==
  Set(p, IF Scoped(p)
         THEN [Idle EXCEPT !.pc = pc, !.scope = run[p].scope, !.held = run[p].held,
                           !.perm = run[p].perm, !.ready = run[p].ready,
                           !.late = run[p].late]
         ELSE Idle)
Skip(p, r, pc) ==
  CASE pc = "skip" -> [run[p] EXCEPT !.perm = @ \union {r}, !.todo = @ \ {r}]
    [] pc = "requeue" -> [run[p] EXCEPT !.fail = @ \union {r}, !.todo = @ \ {r}]

-----------------------------------------------------------------------------
(* _claim_wake_scope; an unreachable router means a full pass without a    *)
(* scope, and the operator may name one repository.                        *)
Claim(p, s) ==
  /\ At(p, "idle") /\ s \in queued
  /\ queued' = queued \ {s}
  /\ Set(p, [Idle EXCEPT !.scope = s, !.held = TRUE, !.todo = s.repos,
                         !.pc = IF s = Full THEN "sweep" ELSE "checkouts"])
  /\ UNCHANGED <<People, card, orphans, events, faults>>

Unclaimed(p) ==
  /\ At(p, "idle") /\ Fault
  /\ \/ Set(p, [Idle EXCEPT !.pc = "registry"])
     \/ \E r \in Repos :
          Set(p, [Idle EXCEPT !.scope = [mode |-> "manual", repos |-> {r}],
                              !.todo = {r}, !.pc = "checkouts"])
  /\ UNCHANGED <<People, card, Store, events>>

(* Wrong on purpose: a sweep leaves missing checkouts to later wakes.      *)
WrongSweep(p) ==
  /\ At(p, "sweep")
  /\ Set(p, [run[p] EXCEPT !.pc = "checkouts", !.todo = {}])
  /\ UNCHANGED <<People, card, Store, events, faults>>

(* A sweep provisions the checkouts the registry reports missing.          *)
Sweep(p) ==
  /\ At(p, "sweep")
  /\ Set(p, [run[p] EXCEPT !.pc = "checkouts",
                           !.todo = {r \in Repos : checkout[r] = "missing"}])
  /\ UNCHANGED <<People, card, Store, events, faults>>

\* The registry's view: a checkout with the right origin, a resolved board.
Verified(r) == checkout[r] # "missing"
ReadyNow == {r \in Repos : Verified(r) /\ board[r] = "ok"}
Bootstrap == {r \in Repos : Verified(r) /\ board[r] = "missing"}

\* A checkout attempt of one repository that fails is recorded as a skip.
Unusable(p, r) ==
  \/ checkout[r] = "dirty" /\ Set(p, Skip(p, r, "skip")) /\ UNCHANGED faults
  \/ Fault /\ Set(p, Skip(p, r, "requeue"))

(* A checkout the registry holds for ready is only brought up to date; a   *)
(* manual run makes no difference between the two.                         *)
Heal(p) ==
  /\ At(p, "checkouts") /\ Scoped(p)
  /\ \E r \in run[p].todo \intersect ReadyNow :
       \/ /\ checkout[r] = "ok"
          /\ Set(p, [run[p] EXCEPT !.ok = @ \union {r}, !.todo = @ \ {r}])
          /\ UNCHANGED faults
       \/ Unusable(p, r)
  /\ UNCHANGED <<People, card, Store, events>>

Ensure(p) ==
  /\ At(p, "checkouts")
  /\ \E r \in run[p].todo :
       /\ Scoped(p) => r \notin ReadyNow
       /\ \/ /\ checkout[r] # "dirty"
             /\ checkout' = [checkout EXCEPT ![r] = "ok"]
             /\ Set(p, [run[p] EXCEPT !.ok = @ \union {r}, !.todo = @ \ {r}])
             /\ UNCHANGED faults
          \/ Unusable(p, r) /\ UNCHANGED checkout
  /\ UNCHANGED <<issue, card, board, Store, events>>

Provisioned(p) ==
  /\ At(p, "checkouts") /\ run[p].todo = {}
  /\ \/ run[p].fail # {} /\ Raise(p, "requeue")
     \/ Mode(p) = "manual" /\ run[p].perm # {} /\ run[p].fail = {} /\ Set(p, Idle)
     \/ /\ run[p].fail = {} /\ (Mode(p) = "manual" => run[p].perm = {})
        /\ Set(p, [run[p] EXCEPT !.pc = "registry"])
  /\ UNCHANGED <<People, card, Store, events, faults>>

(* The registry snapshot, and the boards it declares as missing: of a      *)
(* sweep all of them, else those of the checkouts just validated.          *)
Registry(p) ==
  /\ At(p, "registry")
  /\ LET scope == IF Mode(p) \in {"full", "none"} THEN Repos ELSE run[p].ok IN
     Set(p, [run[p] EXCEPT !.pc = "vet", !.todo = Bootstrap \intersect scope,
                           !.made = {}, !.ready = ReadyNow])
  /\ UNCHANGED <<People, card, Store, events, faults>>

(* Every candidate's checkout is validated before any board is made; an    *)
(* error of one repository ends the run.                                   *)
Vet(p) ==
  /\ At(p, "vet")
  /\ \E r \in run[p].todo :
       \/ /\ checkout[r] = "ok"
          /\ Set(p, [run[p] EXCEPT !.made = @ \union {r}, !.todo = @ \ {r}])
       \/ /\ checkout[r] = "dirty"
          /\ Raise(p, "skip")
  /\ UNCHANGED <<People, card, Store, events, faults>>

Vetted(p) ==
  /\ At(p, "vet") /\ run[p].todo = {}
  /\ Set(p, [run[p] EXCEPT !.pc = "boards", !.todo = run[p].made, !.made = {}])
  /\ UNCHANGED <<People, card, Store, events, faults>>

(* Under the mutation lease: a board that appeared meanwhile is only       *)
(* checked for its owners, and does not count as provisioned.              *)
CreateBoard(p) ==
  /\ At(p, "boards")
  /\ \E r \in run[p].todo :
       \/ /\ board[r] = "missing"
          /\ board' = [board EXCEPT ![r] = "ok"]
          /\ Set(p, [run[p] EXCEPT !.made = @ \union {r}, !.todo = @ \ {r}])
       \/ /\ board[r] = "ok"
          /\ Set(p, [run[p] EXCEPT !.todo = @ \ {r}])
          /\ UNCHANGED board
       \/ board[r] = "foreign" /\ Raise(p, "skip") /\ UNCHANGED board
  /\ UNCHANGED <<issue, checkout, card, Store, events, faults>>

(* The registry is read again only after a board was made.                 *)
BoardsDone(p) ==
  /\ At(p, "boards") /\ run[p].todo = {}
  /\ Set(p, [run[p] EXCEPT !.pc = "select", !.ok = {}, !.made = {},
                           !.ready = IF run[p].made = {} THEN @ ELSE ReadyNow])
  /\ UNCHANGED <<People, card, Store, events, faults>>

-----------------------------------------------------------------------------
\* Of the wanted repositories, those the registry snapshot does not call ready.
Unready(p, wanted) == wanted \ run[p].ready

(* A sweep takes what is ready; a wake must account for every repository   *)
(* it names: ready, permanently unready (an occupied board), or to retry.  *)
Select(p) ==
  /\ At(p, "select")
  /\ LET wanted == run[p].scope.repos \ run[p].perm
         unready == Unready(p, wanted)
         conflict == {r \in unready : board[r] = "foreign"} IN
     \/ /\ Mode(p) \in {"full", "none"}
        /\ Set(p, [run[p] EXCEPT !.pc = "cleanup", !.sel = run[p].ready,
                                 !.todo = run[p].ready])
     \/ /\ Mode(p) \in {"event", "manual"}
        /\ unready \subseteq (IF Isolated(p) THEN conflict ELSE {})
        /\ Set(p, [run[p] EXCEPT !.pc = "cleanup", !.sel = wanted \ unready,
                                 !.todo = wanted \ unready, !.ready = {},
                                 !.perm = @ \union conflict])
     \/ /\ Mode(p) \in {"event", "manual"}
        /\ ~(unready \subseteq (IF Isolated(p) THEN conflict ELSE {}))
        /\ Raise(p, "requeue")
  /\ UNCHANGED <<People, card, Store, events, faults>>

(* _run_closed_issue_cleanup lists the closed Issues of a repository and   *)
(* then replaces the labels of each.                                       *)
Cleanup(p) ==
  /\ At(p, "cleanup")
  /\ \/ \E r \in run[p].todo :
          /\ run[p].closing = {}
          /\ Set(p, [run[p] EXCEPT !.todo = @ \ {r},
                                   !.closing = IF issue[r] = "closed" THEN {r} ELSE {}])
          /\ UNCHANGED issue
     \/ \E r \in run[p].closing :
          /\ issue' = [issue EXCEPT ![r] = "none"]
          /\ Set(p, [run[p] EXCEPT !.closing = {}])
     \/ /\ run[p].todo = {} /\ run[p].closing = {}
        /\ Set(p, [run[p] EXCEPT !.pc = "list", !.todo = run[p].sel])
        /\ UNCHANGED issue
  /\ UNCHANGED <<checkout, board, card, Store, events, faults>>

(* _issue_candidates: open, agent-ready and not blocked.                   *)
List(p) ==
  /\ At(p, "list")
  /\ \/ \E r \in run[p].todo :
          Set(p, [run[p] EXCEPT !.todo = @ \ {r},
                   !.cands = IF issue[r] \in {"ready", "merged"} THEN @ \union {r} ELSE @])
     \/ run[p].todo = {} /\ Set(p, [run[p] EXCEPT !.pc = "slugs"])
  /\ UNCHANGED <<People, card, Store, events, faults>>

(* Boards that are gone fail their repositories.                           *)
Slugs(p) ==
  /\ At(p, "slugs")
  /\ LET gone == {r \in run[p].sel : board[r] = "missing"} IN
     IF gone # {} /\ ~Isolated(p)
     THEN Raise(p, "requeue")
     ELSE Set(p, [run[p] EXCEPT !.pc = "snapshot", !.fail = @ \union gone,
                                !.sel = @ \ gone, !.cands = @ \ gone,
                                !.todo = run[p].cands \ gone])
  /\ UNCHANGED <<People, card, Store, events, faults>>

(* _repo_snapshot of the repositories that have a candidate.               *)
Snapshot(p) ==
  /\ At(p, "snapshot")
  /\ \/ \E r \in run[p].todo :
          \/ /\ checkout[r] = "ok"
             /\ Set(p, [run[p] EXCEPT !.todo = @ \ {r}])
          \/ /\ checkout[r] = "dirty"
             /\ IF Isolated(p)
                THEN Set(p, [Skip(p, r, "skip") EXCEPT !.sel = @ \ {r}, !.cands = @ \ {r}])
                ELSE Raise(p, "skip")
     \/ /\ run[p].todo = {}
        /\ Set(p, [run[p] EXCEPT !.pc = "import", !.todo = run[p].cands, !.cands = {}])
  /\ UNCHANGED <<People, card, Store, events, faults>>

(* process_candidate: an Issue that a merged pull request closes loses its *)
(* labels, another gets its card, whatever became of it since the listing. *)
Import(p) ==
  /\ At(p, "import")
  /\ \/ \E r \in run[p].todo :
          /\ Set(p, [run[p] EXCEPT !.todo = @ \ {r}])
          /\ IF issue[r] = "merged"
             THEN issue' = [issue EXCEPT ![r] = "none"] /\ UNCHANGED card
             ELSE card' = card \union {r} /\ UNCHANGED issue
     \/ /\ run[p].todo = {}
        /\ Set(p, [run[p] EXCEPT !.pc = "sync", !.todo = run[p].sel, !.sel = {}])
        /\ UNCHANGED <<issue, card>>
  /\ UNCHANGED <<checkout, board, Store, events, faults>>

(* The edge's pass over each board, which may fail for one of them.        *)
Sync(p) ==
  /\ At(p, "sync")
  /\ Set(p, [run[p] EXCEPT !.pc = "finish", !.todo = {}])
  /\ UNCHANGED <<People, card, Store, events, faults>>

(* Wrong on purpose: the failures of single repositories are forgotten.    *)
WrongFinish(p) ==
  /\ At(p, "finish")
  /\ Raise(p, "ack")
  /\ UNCHANGED <<People, card, Store, events, faults>>

Finish(p) ==
  /\ At(p, "finish")
  /\ Raise(p, IF run[p].fail # {} THEN "requeue" ELSE "ack")
  /\ UNCHANGED <<People, card, Store, events, faults>>

(* The registry is read before the checkouts, after them and after boards  *)
(* were made, and is all or nothing.                                       *)
RegistryFails(p) ==
  /\ run[p].pc \in {"sweep", "checkouts", "registry", "boards"} /\ Fault
  /\ At(p, "checkouts") => Scoped(p)
  /\ Raise(p, "requeue")
  /\ UNCHANGED <<People, card, Store, events>>

(* A failing call: of one repository it is recorded where the run isolates *)
(* repositories; anywhere else it ends the run.                            *)
CallFails(p) ==
  /\ Fault
  /\ \/ run[p].pc \in {"vet", "boards", "cleanup", "list", "slugs"} /\ Raise(p, "requeue")
     \/ /\ run[p].pc \in {"snapshot", "import", "sync"}
        /\ \E r \in run[p].todo :
             IF ~Isolated(p) THEN Raise(p, "requeue")
             ELSE Set(p, [Skip(p, r, "requeue") EXCEPT
                            !.cands = @ \ {r},
                            !.sel = IF At(p, "snapshot") THEN @ \ {r} ELSE @])
  /\ UNCHANGED <<People, card, Store, events>>

-----------------------------------------------------------------------------
(* The router heeds a transition only while the claim is the run's.        *)
Ack(p) ==
  /\ run[p].pc \in {"ack", "skip"}
  /\ Set(p, Idle)
  /\ UNCHANGED <<People, card, Store, events, faults>>

Requeue(p) ==
  /\ At(p, "requeue")
  /\ queued' = IF run[p].held THEN queued \union {run[p].scope} ELSE queued
  /\ Set(p, Idle)
  /\ UNCHANGED <<People, card, orphans, events, faults>>

(* A failed acknowledgement of a run that worked is followed by a requeue, *)
(* which the router refuses when only the answer was lost; any other       *)
(* failure leaves the claim to its lease.                                  *)
TransitionFails(p) ==
  /\ Fault
  /\ \/ /\ At(p, "ack")
        /\ \E lost \in BOOLEAN :
             Set(p, [run[p] EXCEPT !.pc = "requeue", !.held = @ /\ ~lost])
        /\ UNCHANGED orphans
     \/ /\ run[p].pc \in {"skip", "requeue"}
        /\ orphans' = IF run[p].held THEN orphans \union {run[p].scope} ELSE orphans
        /\ Set(p, Idle)
  /\ UNCHANGED <<People, card, queued, events>>

Crash(p) ==
  /\ ~At(p, "idle") /\ Fault
  /\ orphans' = IF run[p].held THEN orphans \union {run[p].scope} ELSE orphans
  /\ Set(p, Idle)
  /\ UNCHANGED <<People, card, queued, events>>

(* The claim of a slow run expires under it; that of a dead one in time.   *)
Expire ==
  \/ /\ Fault
     /\ \E p \in Procs :
          /\ run[p].held /\ Set(p, [run[p] EXCEPT !.held = FALSE])
          /\ queued' = queued \union {run[p].scope}
     /\ UNCHANGED <<People, card, orphans, events>>
  \/ /\ orphans # {}
     /\ queued' = queued \union orphans /\ orphans' = {}
     /\ UNCHANGED <<People, card, run, events, faults>>

-----------------------------------------------------------------------------
Happens == events < MaxEvents /\ events' = events + 1
\* Eligible from now on; a run that is under way need not have seen it.
Appears(r) ==
  run' = [p \in Procs |-> IF At(p, "idle") THEN run[p]
                          ELSE [run[p] EXCEPT !.late = @ \union {r}]]

(* agent-ready is set, or a labelled Issue reopened; the webhook may have  *)
(* been missed.                                                            *)
Request(r) ==
  /\ Happens /\ r \notin card /\ issue[r] \in {"none", "closed"}
  /\ issue' = [issue EXCEPT ![r] = "ready"]
  /\ \E S \in {T \in SUBSET Repos : r \in T} \union {{}} :
       queued' = IF S = {} THEN queued ELSE queued \union {Event(S)}
  /\ Appears(r)
  /\ UNCHANGED <<checkout, board, card, orphans, faults>>

Interfere(r) ==
  /\ Happens
  /\ \/ /\ issue[r] = "ready"
        /\ \E s \in {"none", "merged", "closed"} : issue' = [issue EXCEPT ![r] = s]
        /\ UNCHANGED <<checkout, board>>
     \/ /\ checkout[r] # "missing"
        /\ checkout' = [checkout EXCEPT ![r] = IF @ = "ok" THEN "dirty" ELSE "ok"]
        /\ UNCHANGED <<issue, board>>
     \/ /\ r \notin card
        /\ \E b \in {"missing", "ok", "foreign"} : board' = [board EXCEPT ![r] = b]
        /\ UNCHANGED <<issue, checkout>>
  /\ UNCHANGED <<card, Store, run, faults>>

(* The router's safety net asks for a sweep whenever none is due.          *)
AskSweep ==
  /\ Full \notin queued /\ queued' = queued \union {Full}
  /\ UNCHANGED <<People, card, orphans, run, events, faults>>

Steps(p) ==
  \/ Sweep(p) \/ Heal(p) \/ Ensure(p) \/ Provisioned(p) \/ Registry(p) \/ Vet(p) \/ Vetted(p)
  \/ CreateBoard(p) \/ BoardsDone(p) \/ Select(p) \/ Cleanup(p) \/ List(p) \/ Slugs(p)
  \/ Snapshot(p) \/ Import(p) \/ Sync(p) \/ Finish(p) \/ Ack(p) \/ Requeue(p)

Next ==
  \/ \E p \in Procs :
       \/ \E s \in queued : Claim(p, s)
       \/ Unclaimed(p) \/ Steps(p) \/ RegistryFails(p) \/ CallFails(p)
       \/ TransitionFails(p) \/ Crash(p)
  \/ Expire \/ AskSweep
  \/ \E r \in Repos : Request(r) \/ Interfere(r)

(* The router keeps launching runs while scopes are queued and hands out   *)
(* sweeps among them; a run that is started is carried out.                *)
Fairness ==
  /\ SF_vars(\E p \in Procs : Claim(p, Full))
  /\ WF_vars(\E p \in Procs : Steps(p))
  /\ WF_vars(AskSweep) /\ WF_vars(Expire)

Spec == Init /\ [][Next]_vars /\ Fairness

\* No scope of any kind waits forever.
FairSpec == Spec /\ \A s \in Scopes : SF_vars(\E p \in Procs : Claim(p, s))

-----------------------------------------------------------------------------
Covers(s, r) == s = Full \/ r \in s.repos
Retired(p) ==
  /\ run[p].held /\ ~run'[p].held
  /\ run[p].scope \notin queued' \union orphans'

(* A run that came to its end acknowledges its scope only if every         *)
(* repository the scope names was dealt with: an Issue that was eligible   *)
(* when the scope was claimed and still is has its card, unless its own    *)
(* repository was skipped for a permanent reason or, in a sweep, was not   *)
(* ready in the registry (_run_once: any other skip requeues the scope).   *)
AckedWhenServed ==
  [][\A p \in Procs : Retired(p) /\ At(p, "ack") =>
       \A r \in Repos \ run[p].late :
         Covers(run[p].scope, r) /\ issue[r] = "ready" =>
           r \in card \union run[p].perm \union
                 (IF run[p].scope = Full THEN Repos \ run[p].ready ELSE {})]_vars

Sound(r) == checkout[r] # "dirty" /\ board[r] # "foreign"

(* An eligible Issue gets its card although its webhook was missed, its    *)
(* repository has neither checkout nor board yet, and runs fail and die:   *)
(* sweeps recur until one succeeds, once no repository has a fault that    *)
(* only a person can mend.                                                 *)
EligibleImported ==
  \A r \in Repos :
    <>[](issue[r] = "ready" /\ \A x \in Repos : Sound(x)) => <>(r \in card)

(* docs/REPOSITORY_REGISTRY.md:90 says that a sweep isolates the failures  *)
(* of repositories, so that one can be skipped without suppressing the     *)
(* intake for others that are ready.                                       *)
SweepIsolates ==
  \A r \in Repos :
    <>[](issue[r] = "ready" /\ checkout[r] = "ok" /\ board[r] = "ok") => <>(r \in card)
=============================================================================
