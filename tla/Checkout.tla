------------------------------- MODULE Checkout -------------------------------
(***************************************************************************)
(* The canonical checkout of one repository, as the intake provisions and  *)
(* refreshes it: clone into a sibling and rename without replacing, or     *)
(* advance an existing checkout by a bounded fast-forward.  Every process  *)
(* runs one Git command per step under the repository's lock; the default  *)
(* branch on GitHub, the workers' fetches (their worktrees share the refs  *)
(* of the checkout) and the operator's own work do not take that lock.     *)
(*                                                                         *)
(* The default branch is never rewritten: a commit is its base on that     *)
(* branch, and whether a local commit lies on top of the base.             *)
(***************************************************************************)
EXTENDS Naturals

CONSTANTS Procs,       \* intake processes: wakes and manual onboarding
          Nobody,      \* the lock is free
          MaxTip,      \* bound on pushes to the default branch
          MaxTouches   \* bound on acts of the operator, crashes and failures

CheckoutAssumption ==
  Nobody \notin Procs /\ MaxTip \in Nat /\ MaxTouches \in Nat

VARIABLES tip,      \* the newest commit of the default branch on GitHub
          managed,  \* opted in, not archived, contracts visible
          disk,     \* what lies at the canonical path
          co,       \* the checkout, when one lies there
          lock,     \* the holder of the repository's onboarding lock
          proc,     \* the progress of each process
          touches   \* acts of the operator, crashes and failures so far

vars == <<tip, managed, disk, co, lock, proc, touches>>

Commit == [base : 0..MaxTip, own : BOOLEAN]
Pushed(n) == [base |-> n, own |-> FALSE]
Ancestor(a, b) == IF a.own THEN a = b ELSE a.base <= b.base

\* Reasons that acknowledge a scope; every other failure requeues it.
Permanent == {"repository_not_opted_in", "default_branch_invalid",
              "contract_visibility_invalid", "checkout_path_conflict",
              "checkout_origin_mismatch", "checkout_materialization_unsafe",
              "checkout_default_branch_invalid", "checkout_dirty",
              "checkout_default_branch_mismatch", "checkout_diverged"}
Retryable == {"repository_unavailable", "repository_lock_busy", "clone_failed",
              "checkout_fetch_failed", "checkout_unshallow_failed",
              "checkout_fast_forward_failed", "onboarding_failed"}
Good == {"registered", "reused", "healed"}

Idle == [pc |-> "idle", op |-> "ensure", target |-> 0, seen |-> Pushed(0),
         detached |-> FALSE, res |-> "none"]

Fresh(n) == [head |-> "branch", at |-> Pushed(n), local |-> Pushed(n),
             remote |-> n, dirty |-> FALSE, shallow |-> FALSE, config |-> "ok"]
Head == IF co.head = "branch" THEN co.local ELSE co.at

Init ==
  /\ tip = 0 /\ managed = TRUE
  /\ disk \in {"absent", "checkout"}
  /\ co \in {Fresh(0), [Fresh(0) EXCEPT !.shallow = TRUE]}
  /\ disk = "absent" => co = Fresh(0)
  /\ lock = Nobody
  /\ proc = [p \in Procs |-> Idle]
  /\ touches = 0

TypeOK ==
  /\ tip \in 0..MaxTip /\ managed \in BOOLEAN
  /\ disk \in {"absent", "plain", "checkout"}
  /\ co \in [head : {"branch", "detached", "other"}, at : Commit, local : Commit,
             remote : 0..tip, dirty : BOOLEAN, shallow : BOOLEAN,
             config : {"ok", "origin", "unsafe"}]
  /\ lock \in Procs \union {Nobody}
  /\ proc \in [Procs -> [pc : {"idle", "metadata", "look", "clone", "register",
                               "inspect", "clean", "refs", "probe", "switch",
                               "switched", "deepen", "fetch", "ancestry", "merge",
                               "validate", "settle"},
                         op : {"ensure", "snapshot"}, target : 0..tip, seen : Commit,
                         detached : BOOLEAN,
                         res : {"none", "died", "skip", "retry"} \union Good]]
  /\ \A p \in Procs : proc[p].pc # "idle" <=> lock = p
  /\ touches \in 0..MaxTouches

-----------------------------------------------------------------------------
At(p, pc) == proc[p].pc = pc
GoTo(p, pc) == proc' = [proc EXCEPT ![p].pc = pc]
\* What the run makes of a result: a repository served, skipped or to be retried.
Outcome(res) ==
  CASE res \in Permanent -> "skip" [] res \in Retryable -> "retry" [] OTHER -> res

\* Leaving the locked section with a result.
Give(p, res) ==
  /\ proc' = [proc EXCEPT ![p] = [Idle EXCEPT !.res = Outcome(res),
                               !.target = IF res \in Good THEN proc[p].target ELSE 0]]
  /\ lock' = Nobody
World == <<tip, managed, touches>>
Touch == touches < MaxTouches /\ touches' = touches + 1

(* _repository_onboarding_lock waits ten seconds.  A snapshot is taken of  *)
(* a repository whose registry entry names a checkout, which it looks at   *)
(* before it asks GitHub.                                                  *)
Acquire(p, op) ==
  /\ At(p, "idle") /\ lock = Nobody
  /\ IF op = "snapshot" /\ (disk # "checkout" \/ co.config = "origin")
     THEN /\ proc' = [proc EXCEPT ![p].res = Outcome("onboarding_failed")]
          /\ UNCHANGED lock
     ELSE /\ proc' = [proc EXCEPT ![p] = [Idle EXCEPT !.pc = "metadata", !.op = op]]
          /\ lock' = p
  /\ UNCHANGED <<World, disk, co>>

Busy(p) ==
  /\ At(p, "idle") /\ lock # Nobody
  /\ proc' = [proc EXCEPT ![p].res = Outcome("repository_lock_busy")]
  /\ UNCHANGED <<World, disk, co, lock>>

(* The metadata gate reads the repository, its topics, its contracts and   *)
(* the branch; the two reads at the end report a transport failure under   *)
(* the code of their validation.                                           *)
Metadata(p) ==
  /\ At(p, "metadata") /\ managed
  /\ proc' = [proc EXCEPT ![p].target = tip,
                          ![p].pc = IF proc[p].op = "ensure" THEN "look" ELSE "inspect"]
  /\ UNCHANGED <<World, disk, co, lock>>

MetadataFails(p) ==
  /\ At(p, "metadata")
  /\ \/ ~managed /\ Give(p, "repository_not_opted_in") /\ UNCHANGED touches
     \/ /\ Touch
        /\ \E code \in {"repository_unavailable", "contract_visibility_invalid",
                       "default_branch_invalid"} : Give(p, code)
  /\ UNCHANGED <<tip, managed, disk, co>>

Look(p) ==
  /\ At(p, "look")
  /\ GoTo(p, IF disk = "absent" THEN "clone" ELSE "inspect")
  /\ UNCHANGED <<World, disk, co, lock>>

(* The clone takes the branch as it is by then, and is validated against   *)
(* the metadata before it is registered.                                   *)
Clone(p) ==
  /\ At(p, "clone")
  /\ \/ /\ proc[p].target = tip
        /\ GoTo(p, "register") /\ UNCHANGED lock
     \/ proc[p].target # tip /\ Give(p, "checkout_default_branch_mismatch")
  /\ UNCHANGED <<World, disk, co>>

(* renameat2 with RENAME_NOREPLACE; whatever wins is validated.            *)
Register(p) ==
  /\ At(p, "register")
  /\ proc' = [proc EXCEPT ![p].pc = "validate", ![p].res = "registered"]
  /\ IF disk = "absent"
     THEN disk' = "checkout" /\ co' = Fresh(proc[p].target)
     ELSE UNCHANGED <<disk, co>>
  /\ UNCHANGED <<World, lock>>

-----------------------------------------------------------------------------
(* The self-heal of an existing checkout, in the order of its commands.    *)
InspectFault ==
  CASE disk # "checkout"      -> "checkout_path_conflict"
    [] co.config = "unsafe"   -> "checkout_materialization_unsafe"
    [] co.config = "origin"   -> "checkout_origin_mismatch"
    [] co.head = "other"      -> "checkout_default_branch_invalid"
    [] OTHER                  -> "none"

Inspect(p) ==
  /\ At(p, "inspect")
  /\ IF InspectFault # "none"
     THEN Give(p, InspectFault)
     ELSE /\ proc' = [proc EXCEPT ![p].pc = "clean",
                                  ![p].detached = (co.head = "detached")]
          /\ UNCHANGED lock
  /\ UNCHANGED <<World, disk, co>>

Clean(p) ==
  /\ At(p, "clean")
  /\ IF co.dirty THEN Give(p, "checkout_dirty") ELSE GoTo(p, "refs") /\ UNCHANGED lock
  /\ UNCHANGED <<World, disk, co>>

(* Wrong on purpose: a current tracking ref is taken for a current branch.  *)
WrongReadRefs(p) ==
  /\ At(p, "refs")
  /\ proc' = [proc EXCEPT ![p].pc = IF co.remote = proc[p].target THEN "validate" ELSE "probe",
                          ![p].res = "reused", ![p].seen = Head]
  /\ UNCHANGED <<World, disk, co, lock>>

ReadRefs(p) ==
  /\ At(p, "refs")
  /\ LET detached == proc[p].detached
         target == Pushed(proc[p].target) IN
     \/ /\ detached /\ ~Ancestor(Head, co.local)
        /\ Give(p, "checkout_default_branch_invalid")
     \/ /\ ~detached /\ co.remote = proc[p].target /\ Head = target
        /\ proc' = [proc EXCEPT ![p].pc = "validate", ![p].res = "reused"]
        /\ UNCHANGED lock
     \/ /\ IF detached THEN Ancestor(Head, co.local)
                       ELSE co.remote # proc[p].target \/ Head # target
        /\ proc' = [proc EXCEPT ![p].pc = "probe",
                                ![p].seen = IF detached THEN co.local ELSE Head]
        /\ UNCHANGED lock
  /\ UNCHANGED <<World, disk, co>>

(* The ancestry is proved in a temporary repository, which the checkout    *)
(* only lends its objects.                                                 *)
Probe(p) ==
  /\ At(p, "probe")
  /\ \/ /\ ~Ancestor(proc[p].seen, Pushed(proc[p].target))
        /\ Give(p, "checkout_diverged")
     \/ /\ Ancestor(proc[p].seen, Pushed(proc[p].target))
        /\ proc' = IF proc[p].detached
                   THEN [proc EXCEPT ![p].pc = "switch"]
                   ELSE [proc EXCEPT ![p].pc = "deepen", ![p].seen = Pushed(0)]
        /\ UNCHANGED lock
  /\ UNCHANGED <<World, disk, co>>

(* An ordinary switch, which refuses to overwrite local changes.           *)
Switch(p) ==
  /\ At(p, "switch")
  /\ \/ /\ co' = [co EXCEPT !.head = "branch"]
        /\ IF co.local = proc[p].seen
           THEN /\ proc' = [proc EXCEPT ![p].pc = "switched", ![p].seen = Pushed(0)]
                /\ UNCHANGED lock
           ELSE Give(p, "checkout_default_branch_invalid")
     \/ co.dirty /\ Give(p, "checkout_default_branch_invalid") /\ UNCHANGED co
  /\ UNCHANGED <<World, disk>>

Switched(p) ==
  /\ At(p, "switched")
  /\ IF co.dirty THEN Give(p, "checkout_dirty")
     ELSE /\ proc' = [proc EXCEPT ![p].pc = "deepen", ![p].detached = FALSE]
          /\ UNCHANGED lock
  /\ UNCHANGED <<World, disk, co>>

Deepen(p) ==
  /\ At(p, "deepen")
  /\ co' = [co EXCEPT !.shallow = FALSE]
  /\ GoTo(p, "fetch")
  /\ UNCHANGED <<World, disk, lock>>

(* The refspec is not forced: a tracking ref that a worker has moved past  *)
(* the target refuses the update.                                          *)
Fetch(p) ==
  /\ At(p, "fetch")
  /\ \/ /\ co.remote <= proc[p].target
        /\ co' = [co EXCEPT !.remote = proc[p].target]
        /\ GoTo(p, "ancestry") /\ UNCHANGED lock
     \/ /\ co.remote > proc[p].target
        /\ Give(p, "checkout_fetch_failed") /\ UNCHANGED co
  /\ UNCHANGED <<World, disk>>

Ancestry(p) ==
  /\ At(p, "ancestry")
  /\ IF Ancestor(Head, Pushed(co.remote))
     THEN GoTo(p, "merge") /\ UNCHANGED lock
     ELSE Give(p, "checkout_diverged")
  /\ UNCHANGED <<World, disk, co>>

Advance(c) == IF co.head = "branch" THEN [co EXCEPT !.local = c] ELSE [co EXCEPT !.at = c]

(* Wrong on purpose: the branch is set to the fetched commit.              *)
WrongMerge(p) ==
  /\ At(p, "merge")
  /\ co' = Advance(Pushed(co.remote))
  /\ proc' = [proc EXCEPT ![p].pc = "validate", ![p].res = "healed"]
  /\ UNCHANGED <<World, disk, lock>>

(* merge --ff-only: done, nothing to do, or refused.                       *)
Merge(p) ==
  /\ At(p, "merge")
  /\ \/ /\ Ancestor(Head, Pushed(co.remote)) \/ Ancestor(Pushed(co.remote), Head)
        /\ co' = IF Ancestor(Head, Pushed(co.remote))
                 THEN Advance(Pushed(co.remote)) ELSE co
        /\ proc' = [proc EXCEPT ![p].pc = "validate", ![p].res = "healed"]
        /\ UNCHANGED lock
     \/ /\ co.dirty \/ ~Ancestor(Head, Pushed(co.remote))
        /\ ~Ancestor(Pushed(co.remote), Head)
        /\ Give(p, "checkout_fast_forward_failed") /\ UNCHANGED co
  /\ UNCHANGED <<World, disk>>

(* What a step that talks to GitHub does when that fails.                  *)
TransportCode == [clone |-> "clone_failed", probe |-> "checkout_fetch_failed",
                  deepen |-> "checkout_unshallow_failed",
                  fetch |-> "checkout_fetch_failed",
                  merge |-> "checkout_fast_forward_failed"]

Transport(p) ==
  /\ proc[p].pc \in DOMAIN TransportCode
  /\ At(p, "deepen") => co.shallow
  /\ At(p, "fetch") => co.remote # proc[p].target
  /\ Touch /\ Give(p, TransportCode[proc[p].pc])
  /\ UNCHANGED <<tip, managed, disk, co>>

-----------------------------------------------------------------------------
ValidateFault(p) ==
  CASE disk # "checkout"                     -> "checkout_path_conflict"
    [] co.config = "origin"                  -> "checkout_origin_mismatch"
    [] co.head # "branch"                    -> "checkout_default_branch_invalid"
    [] co.remote # proc[p].target            -> "checkout_default_branch_mismatch"
    [] co.local # Pushed(proc[p].target)     -> "checkout_default_branch_mismatch"
    [] OTHER                                 -> "none"

(* Wrong on purpose: the commit of the branch is not compared.             *)
WrongValidate(p) ==
  /\ At(p, "validate")
  /\ IF ValidateFault(p) \notin {"none", "checkout_default_branch_mismatch"}
     THEN Give(p, ValidateFault(p)) ELSE GoTo(p, "settle") /\ UNCHANGED lock
  /\ UNCHANGED <<World, disk, co>>

Validate(p) ==
  /\ At(p, "validate")
  /\ IF ValidateFault(p) # "none"
     THEN Give(p, ValidateFault(p)) ELSE GoTo(p, "settle") /\ UNCHANGED lock
  /\ UNCHANGED <<World, disk, co>>

(* The last look at the files, and for a snapshot at the tracking ref.     *)
Settle(p) ==
  /\ At(p, "settle")
  /\ Give(p, CASE co.dirty -> "checkout_dirty"
               [] ~co.dirty /\ proc[p].op = "snapshot" /\ co.remote # proc[p].target
                    -> "onboarding_failed"
               [] OTHER -> proc[p].res)
  /\ UNCHANGED <<World, disk, co>>

(* A killed process frees the flock; its temporary sibling stays behind.   *)
Crash(p) ==
  /\ ~At(p, "idle") /\ Touch
  /\ Give(p, "died")
  /\ UNCHANGED <<tip, managed, disk, co>>

-----------------------------------------------------------------------------
Push ==
  /\ tip < MaxTip /\ tip' = tip + 1
  /\ UNCHANGED <<managed, disk, co, lock, proc, touches>>

WorkerFetch ==
  /\ disk = "checkout" /\ co.remote # tip
  /\ co' = [co EXCEPT !.remote = tip]
  /\ UNCHANGED <<World, disk, lock, proc>>

Operator ==
  /\ Touch
  /\ \/ managed' = ~managed /\ UNCHANGED <<disk, co>>
     \/ /\ \/ disk = "absent" /\ disk' = "plain"
           \/ disk = "plain" /\ disk' = "absent"
        /\ UNCHANGED <<managed, co>>
     \/ /\ disk = "checkout"
        /\ \/ co' = [co EXCEPT !.dirty = ~@]
           \/ \E c \in {"ok", "origin", "unsafe"} : co' = [co EXCEPT !.config = c]
           \/ co' = [co EXCEPT !.head = "branch"]
           \/ \E h \in {"detached", "other"}, n \in 0..co.local.base :
                co' = [co EXCEPT !.head = h, !.at = Pushed(n)]
           \/ co' = Advance([Head EXCEPT !.own = TRUE])
           \/ ~Head.own /\ co' = Advance(Pushed(tip))
        /\ UNCHANGED <<managed, disk>>
  /\ UNCHANGED <<tip, lock, proc>>

\* The successful course of one step.
Advances(p) ==
  \/ Metadata(p) \/ Look(p) \/ Clone(p) \/ Register(p) \/ Inspect(p) \/ Clean(p)
  \/ ReadRefs(p) \/ Probe(p) \/ Switch(p) \/ Switched(p) \/ Deepen(p) \/ Fetch(p)
  \/ Ancestry(p) \/ Merge(p) \/ Validate(p) \/ Settle(p)

Next ==
  \/ \E p \in Procs :
       \/ \E op \in {"ensure", "snapshot"} : Acquire(p, op)
       \/ Busy(p) \/ Advances(p) \/ MetadataFails(p) \/ Transport(p) \/ Crash(p)
  \/ Push \/ WorkerFetch \/ Operator

(* Wakes recur and run their steps; GitHub fails finitely often.           *)
Fairness ==
  /\ SF_vars(\E p \in Procs : Acquire(p, "ensure"))
  /\ WF_vars(\E p \in Procs : Advances(p))

Spec == Init /\ [][Next]_vars /\ Fairness

-----------------------------------------------------------------------------
(* What the operator keeps in the checkout is safe from every race with    *)
(* the intake: a step that is not the operator's never takes the default   *)
(* branch away from a commit, never discards uncommitted work and never    *)
(* replaces what lies at the path (_clone_onboarding_checkout,             *)
(* _self_heal_stale_checkout).                                             *)
OperatorWorkKept ==
  [][proc' # proc =>
       /\ disk # "absent" => disk' = disk
       /\ disk = "checkout" => /\ Ancestor(co.local, co'.local)
                               /\ co.dirty => co'.dirty]_vars

(* A repository is reported as registered, reused or healed only when the  *)
(* branch of its checkout has the commit the metadata named, although the  *)
(* tracking ref and the files may move while the checks run.               *)
GoodHasTarget ==
  \A p \in Procs :
    At(p, "idle") /\ proc[p].res \in Good =>
      disk = "checkout" /\ Ancestor(Pushed(proc[p].target), co.local)

\* Nothing but time or GitHub stands between the checkout and its branch.
Healable ==
  /\ managed /\ disk # "plain"
  /\ disk = "checkout" =>
       /\ co.config = "ok" /\ ~co.dirty /\ co.head # "other"
       /\ Ancestor(co.local, Pushed(tip))
       /\ co.head = "detached" => Ancestor(co.at, co.local)

(* Once the operator leaves a sound checkout alone, the wakes that recur   *)
(* bring it to the newest commit: stale, shallow and detached checkouts,   *)
(* refs moved by workers and failed attempts are all recovered from.       *)
SoundCheckoutCatchesUp ==
  <>[]Healable => <>[](disk = "checkout" /\ co.head = "branch" /\ co.local = Pushed(tip))

(* docs/GITHUB_EVENT_CONCURRENCY.md:109 says that retryable API and clone  *)
(* failures are requeued and that permanent validation skips alone are     *)
(* acknowledged: a permanent code is given only when another attempt would *)
(* not have helped.                                                        *)
PermanentNeedsOperator ==
  [][\A p \in Procs :
       ~At(p, "idle") /\ proc'[p].pc = "idle" /\ proc'[p].res = "skip" =>
         ~Healable]_vars
=============================================================================
