------------------------ MODULE IntakeWorkerProofs ------------------------
(***************************************************************************)
(* Proofs about the intake worker: a canonical checkout under any number   *)
(* of processes, pushes and acts of the operator (Checkout), and a run     *)
(* from its claim to its acknowledgement, for any repositories, processes, *)
(* events and faults (IntakeRun).  MCIntakeWorker, which this module       *)
(* extends, has the names of both.                                         *)
(***************************************************************************)
EXTENDS MCIntakeWorker, TLAPS

-----------------------------------------------------------------------------
(* The inductive invariant of a checkout                                    *)

Commits == [base : 0..tip, own : BOOLEAN]
Checkouts == [head : {"branch", "detached", "other"}, at : Commits, local : Commits,
              remote : 0..tip, dirty : BOOLEAN, shallow : BOOLEAN,
              config : {"ok", "origin", "unsafe"}]
Results == {"none", "died", "skip", "retry", "registered", "reused", "healed"}
CheckoutPhases == {"idle", "metadata", "look", "clone", "register", "inspect", "clean", "refs",
                   "probe", "switch", "switched", "deepen", "fetch", "ancestry", "merge",
                   "validate", "settle"}
Attempts == [pc : CheckoutPhases, op : {"ensure", "snapshot"}, target : 0..tip, seen : Commits,
             detached : BOOLEAN, res : Results]

CheckoutTypes ==
    /\ tip \in 0..MaxTip
    /\ disk \in {"absent", "plain", "checkout"}
    /\ co \in Checkouts
    /\ proc \in [Onboarders -> Attempts]

\* What an attempt past its validation, or one that ended well, says of the branch.
Reached(a) == disk = "checkout" /\ a.target <= co.local.base
SettlesReached == \A p \in Onboarders : proc[p].pc = "settle" => Reached(proc[p])
GoodsReached == \A p \in Onboarders : proc[p].pc = "idle" /\ proc[p].res \in C!Good => Reached(proc[p])

CheckoutInv == CheckoutTypes /\ SettlesReached /\ GoodsReached

\* What a step does with the branch: only the operator makes it another's base, nobody moves it back.
BranchKept == disk = "checkout" => disk' = "checkout" /\ co.local.base <= co'.local.base

\* One process changes its attempt to a typed one, which is not better than what the branch has.
Tries(p, a) ==
    /\ a \in Attempts'
    /\ a.pc = "settle" \/ (a.pc = "idle" /\ a.res \in C!Good) => Reached(a)'
    /\ proc' = [proc EXCEPT ![p] = a]

-----------------------------------------------------------------------------
(* Steps of a checkout                                                      *)

\* A process that changes its attempt keeps the invariant while the checkout stays typed and the branch is kept.
LEMMA TriesKeep ==
    ASSUME CheckoutInv, NEW p \in Onboarders, NEW a, Tries(p, a), tip' = tip,
           disk' \in {"absent", "plain", "checkout"}, co' \in Checkouts, BranchKept
    PROVE  CheckoutInv'
<1>0. MaxTip \in Nat /\ tip \in 0..MaxTip /\ co.local \in Commits /\ co'.local \in Commits
  BY OnboardersAssumption DEF CheckoutInv, CheckoutTypes, Checkouts, C!CheckoutAssumption
<1>1. Checkouts' = Checkouts /\ Attempts' = Attempts
  BY DEF Checkouts, Attempts, Tries, Commits
<1>2. CheckoutTypes'
  BY <1>1 DEF CheckoutInv, CheckoutTypes, Tries
<1>3. \A q \in Onboarders \ {p} : proc'[q] = proc[q] /\ proc[q].target \in 0..tip
  BY DEF CheckoutInv, CheckoutTypes, Tries, Attempts
<1>4. proc'[p] = a
  BY DEF CheckoutInv, CheckoutTypes, Tries
<1>5. \A q \in Onboarders \ {p} : Reached(proc[q]) => Reached(proc[q])'
  <2> SUFFICES ASSUME NEW q \in Onboarders \ {p}, Reached(proc[q])
               PROVE  Reached(proc[q])'
    OBVIOUS
  <2>1. proc[q].target \in Nat /\ co.local.base \in Nat /\ co'.local.base \in Nat
    BY <1>0, <1>3 DEF Commits
  <2>2. QED
    BY <2>1, <1>3 DEF Reached, BranchKept
<1>6. QED
  BY <1>2, <1>3, <1>4, <1>5 DEF CheckoutInv, SettlesReached, GoodsReached, Tries, Reached

\* TriesKeep, for a step that gives up with a reason.
LEMMA GivesUpKeeps ==
    ASSUME CheckoutInv, NEW p \in Onboarders,
           NEW res \in C!Permanent \union C!Retryable \union {"died", "skip", "retry", "none"},
           C!Give(p, res), tip' = tip,
           disk' \in {"absent", "plain", "checkout"}, co' \in Checkouts, BranchKept
    PROVE  CheckoutInv'
<1>1. res \notin C!Good /\ C!Outcome(res) \in {"skip", "retry", "died", "none"}
  BY DEF C!Permanent, C!Retryable, C!Good, C!Outcome
<1>2. PICK o \in {"skip", "retry", "died", "none"} : o = C!Outcome(res)
  BY <1>1
<1>3. PICK a : a = [C!Idle EXCEPT !.res = o, !.target = 0]
  OBVIOUS
<1>4. proc' = [proc EXCEPT ![p] = a]
  BY <1>1, <1>2, <1>3 DEF C!Give
<1>5. a \in Attempts /\ a.pc = "idle" /\ a.res = o
  <2>1. MaxTip \in Nat /\ tip \in 0..MaxTip
    BY OnboardersAssumption DEF CheckoutInv, CheckoutTypes, C!CheckoutAssumption
  <2>2. C!Pushed(0) \in Commits /\ 0 \in 0..tip
    BY <2>1 DEF C!Pushed, Commits
  <2>3. QED
    BY <1>3, <2>2 DEF Attempts, C!Idle, CheckoutPhases, Results
<1>r. Attempts' = Attempts
  BY DEF Attempts, Commits
<1>6. Tries(p, a)
  BY <1>4, <1>5, <1>r DEF Tries, C!Good
<1>7. QED
  BY <1>6, TriesKeep

\* TriesKeep, for a step to another phase.
LEMMA GoesToKeeps ==
    ASSUME CheckoutInv, NEW p \in Onboarders, NEW pc \in CheckoutPhases \ {"idle"},
           pc = "settle" => Reached(proc[p])',
           C!GoTo(p, pc), tip' = tip,
           disk' \in {"absent", "plain", "checkout"}, co' \in Checkouts, BranchKept
    PROVE  CheckoutInv'
<1>1. proc[p] \in Attempts
  BY DEF CheckoutInv, CheckoutTypes
<1>2. PICK a : a = [proc[p] EXCEPT !.pc = pc]
  OBVIOUS
<1>3. proc' = [proc EXCEPT ![p] = a] /\ a \in Attempts /\ a.pc = pc /\ a.target = proc[p].target
  BY <1>1, <1>2 DEF C!GoTo, Attempts
<1>r. Attempts' = Attempts
  BY DEF Attempts, Commits
<1>4. proc'[p] = a
  BY <1>3 DEF CheckoutInv, CheckoutTypes
<1>5. Tries(p, a)
  BY <1>3, <1>4, <1>r DEF Tries, Reached
<1>6. QED
  BY <1>5, TriesKeep

\* What a step that leaves the checkout alone need not say of it.
LEMMA CheckoutAlone ==
    ASSUME CheckoutInv, UNCHANGED <<tip, disk, co>>
    PROVE  tip' = tip /\ disk' \in {"absent", "plain", "checkout"} /\ co' \in Checkouts /\ BranchKept
<1>1. co \in Checkouts /\ MaxTip \in Nat
  BY OnboardersAssumption DEF CheckoutInv, CheckoutTypes, C!CheckoutAssumption
<1>2. co.local.base \in Nat
  BY <1>1 DEF Checkouts, Commits
<1>3. QED
  BY <1>1, <1>2 DEF CheckoutInv, CheckoutTypes, BranchKept

\* Commits that name what was pushed, and the ancestry of commits in numbers.
LEMMA AncestryFacts ==
    ASSUME CheckoutInv
    PROVE  /\ \A n \in 0..tip : C!Pushed(n) \in Commits
           /\ C!Head \in Commits
           /\ \A a, b \in Commits : C!Ancestor(a, b) => a.base <= b.base
           /\ \A a \in Commits : C!Ancestor(a, a)
<1>1. MaxTip \in Nat /\ tip \in 0..MaxTip /\ co \in Checkouts
  BY OnboardersAssumption DEF CheckoutInv, CheckoutTypes, C!CheckoutAssumption
<1>2. QED
  BY <1>1 DEF Commits, Checkouts, C!Pushed, C!Head, C!Ancestor

\* Steps that read the checkout and do not change it, each with the result it may give up with.
LEMMA ReadingSteps ==
    ASSUME CheckoutInv, NEW p \in Onboarders,
           \/ \E op \in {"ensure", "snapshot"} : C!Acquire(p, op)
           \/ C!Busy(p) \/ C!Metadata(p) \/ C!MetadataFails(p) \/ C!Look(p) \/ C!Clone(p)
           \/ C!Inspect(p) \/ C!Clean(p) \/ C!ReadRefs(p) \/ C!Probe(p) \/ C!Switched(p)
           \/ C!Ancestry(p) \/ C!Validate(p) \/ C!Settle(p) \/ C!Transport(p) \/ C!Crash(p)
    PROVE  CheckoutInv'
<1>0. UNCHANGED <<tip, disk, co>>
  BY DEF C!Acquire, C!Busy, C!Metadata, C!MetadataFails, C!Look, C!Clone, C!Inspect, C!Clean, C!ReadRefs,
         C!Probe, C!Switched, C!Ancestry, C!Validate, C!Settle, C!Transport, C!Crash, C!World
<1>t. /\ tip' = tip /\ disk' \in {"absent", "plain", "checkout"} /\ co' \in Checkouts /\ BranchKept
      /\ proc[p] \in Attempts /\ tip \in Nat
  BY <1>0, CheckoutAlone, OnboardersAssumption DEF CheckoutInv, CheckoutTypes, C!CheckoutAssumption
<1>r. Attempts' = Attempts /\ C!Pushed(0) \in Commits /\ 0 \in 0..tip /\ tip \in 0..tip
  BY <1>0, <1>t, AncestryFacts DEF Attempts, Commits
<1>g. ASSUME NEW code, C!Give(p, code),
             code \in C!Permanent \union C!Retryable \union {"died", "skip", "retry", "none"}
      PROVE  CheckoutInv'
  BY <1>g, <1>t, GivesUpKeeps
<1>a. ASSUME NEW a \in Attempts, a.pc \notin {"idle", "settle"}, proc' = [proc EXCEPT ![p] = a]
      PROVE  CheckoutInv'
  <2>1. Tries(p, a)
    BY <1>a, <1>r DEF Tries
  <2>2. QED
    BY <2>1, <1>t, TriesKeep
<1>w. ASSUME NEW pc \in CheckoutPhases \ {"idle", "settle"}, C!GoTo(p, pc)
      PROVE  CheckoutInv'
  BY <1>w, <1>t, GoesToKeeps
<1>b. ASSUME NEW code \in {"onboarding_failed", "repository_lock_busy"},
             proc' = [proc EXCEPT ![p].res = C!Outcome(code)]
      PROVE  CheckoutInv'
  <2>1. C!Outcome(code) = "retry"
    BY <1>b DEF C!Outcome, C!Permanent, C!Retryable
  <2>2. PICK a : a = [proc[p] EXCEPT !.res = "retry"]
    OBVIOUS
  <2>3. proc' = [proc EXCEPT ![p] = a] /\ a \in Attempts /\ a.res = "retry" /\ a.pc = proc[p].pc
        /\ a.target = proc[p].target
    BY <1>b, <1>t, <2>1, <2>2 DEF Attempts, Results
  <2>4. a.pc = "settle" => Reached(a)'
    BY <1>0, <2>3 DEF CheckoutInv, SettlesReached, Reached
  <2>5. Tries(p, a)
    BY <1>r, <2>3, <2>4 DEF Tries, C!Good
  <2>6. QED
    BY <2>5, <1>t, TriesKeep
<1>1. ASSUME NEW op \in {"ensure", "snapshot"}, C!Acquire(p, op)
      PROVE  CheckoutInv'
  <2>1. CASE proc' = [proc EXCEPT ![p].res = C!Outcome("onboarding_failed")]
    BY <2>1, <1>b
  <2>2. CASE proc' = [proc EXCEPT ![p] = [C!Idle EXCEPT !.pc = "metadata", !.op = op]]
    <3>1. PICK a : a = [C!Idle EXCEPT !.pc = "metadata", !.op = op]
      OBVIOUS
    <3>2. a \in Attempts /\ a.pc = "metadata"
      BY <3>1, <1>t, <1>r DEF Attempts, C!Idle, CheckoutPhases, Results
    <3>3. QED
      BY <2>2, <3>1, <3>2, <1>a
  <2>3. QED
    BY <1>1, <2>1, <2>2 DEF C!Acquire
<1>2. CASE C!Busy(p)
  BY <1>2, <1>b DEF C!Busy
<1>3. CASE C!Metadata(p)
  <2>1. PICK pc \in {"look", "inspect"} :
          proc' = [proc EXCEPT ![p].target = tip, ![p].pc = pc]
    BY <1>3 DEF C!Metadata
  <2>2. PICK a : a = [proc[p] EXCEPT !.target = tip, !.pc = pc]
    OBVIOUS
  <2>3. a \in Attempts /\ a.pc = pc
    BY <2>2, <1>t, <1>r DEF Attempts, CheckoutPhases
  <2>5. proc' = [proc EXCEPT ![p] = a]
    BY <2>1, <2>2 DEF CheckoutInv, CheckoutTypes
  <2>4. QED
    BY <2>3, <2>5, <1>a
<1>4. CASE C!MetadataFails(p)
  BY <1>4, <1>g DEF C!MetadataFails, C!Permanent, C!Retryable
<1>5. CASE C!Look(p)
  <2>1. PICK pc \in {"clone", "inspect"} : C!GoTo(p, pc)
    BY <1>5 DEF C!Look
  <2>2. QED
    BY <2>1, <1>w DEF CheckoutPhases
<1>6. CASE C!Clone(p)
  BY <1>6, <1>g, <1>w DEF C!Clone, C!Permanent, CheckoutPhases
<1>7. CASE C!Inspect(p)
  <2>1. CASE C!InspectFault # "none" /\ C!Give(p, C!InspectFault)
    <3>1. C!InspectFault \in C!Permanent
      BY <2>1 DEF C!InspectFault, C!Permanent
    <3>2. QED
      BY <2>1, <3>1, <1>g
  <2>2. CASE proc' = [proc EXCEPT ![p].pc = "clean", ![p].detached = (co.head = "detached")]
    <3>1. PICK d \in BOOLEAN : d = (co.head = "detached")
      OBVIOUS
    <3>2. PICK a : a = [proc[p] EXCEPT !.pc = "clean", !.detached = d]
      OBVIOUS
    <3>3. a \in Attempts /\ a.pc = "clean"
      BY <3>2, <1>t DEF Attempts, CheckoutPhases
    <3>4. proc' = [proc EXCEPT ![p] = a]
      BY <2>2, <3>1, <3>2 DEF CheckoutInv, CheckoutTypes
    <3>5. QED
      BY <3>3, <3>4, <1>a
  <2>3. QED
    BY <1>7, <2>1, <2>2 DEF C!Inspect
<1>8. CASE C!Clean(p)
  BY <1>8, <1>g, <1>w DEF C!Clean, C!Permanent, CheckoutPhases
<1>9. CASE C!ReadRefs(p)
  <2>1. CASE C!Give(p, "checkout_default_branch_invalid")
    BY <2>1, <1>g DEF C!Permanent
  <2>2. CASE proc' = [proc EXCEPT ![p].pc = "validate", ![p].res = "reused"]
    <3>1. PICK a : a = [proc[p] EXCEPT !.pc = "validate", !.res = "reused"]
      OBVIOUS
    <3>2. a \in Attempts /\ a.pc = "validate" /\ proc' = [proc EXCEPT ![p] = a]
      BY <3>1, <2>2, <1>t DEF Attempts, CheckoutPhases, Results, CheckoutInv, CheckoutTypes
    <3>3. QED
      BY <3>2, <1>a
  <2>3. ASSUME NEW s \in Commits, proc' = [proc EXCEPT ![p].pc = "probe", ![p].seen = s]
        PROVE  CheckoutInv'
    <3>1. PICK a : a = [proc[p] EXCEPT !.pc = "probe", !.seen = s]
      OBVIOUS
    <3>2. a \in Attempts /\ a.pc = "probe" /\ proc' = [proc EXCEPT ![p] = a]
      BY <3>1, <2>3, <1>t DEF Attempts, CheckoutPhases, CheckoutInv, CheckoutTypes
    <3>3. QED
      BY <3>2, <1>a
  <2>4. PICK s : s = IF proc[p].detached THEN co.local ELSE C!Head
    OBVIOUS
  <2>5. s \in Commits
    BY <2>4, AncestryFacts DEF CheckoutInv, CheckoutTypes, Checkouts
  <2>6. QED
    BY <1>9, <2>1, <2>2, <2>3, <2>4, <2>5 DEF C!ReadRefs
<1>10. CASE C!Probe(p)
  <2>1. CASE C!Give(p, "checkout_diverged")
    BY <2>1, <1>g DEF C!Permanent
  <2>2. CASE proc' = [proc EXCEPT ![p].pc = "switch"]
    BY <2>2, <1>w DEF C!GoTo, CheckoutPhases
  <2>3. CASE proc' = [proc EXCEPT ![p].pc = "deepen", ![p].seen = C!Pushed(0)]
    <3>1. PICK a : a = [proc[p] EXCEPT !.pc = "deepen", !.seen = C!Pushed(0)]
      OBVIOUS
    <3>2. a \in Attempts /\ a.pc = "deepen" /\ proc' = [proc EXCEPT ![p] = a]
      BY <3>1, <2>3, <1>t, <1>r DEF Attempts, CheckoutPhases, CheckoutInv, CheckoutTypes
    <3>3. QED
      BY <3>2, <1>a
  <2>4. QED
    BY <1>10, <2>1, <2>2, <2>3 DEF C!Probe
<1>11. CASE C!Switched(p)
  <2>1. CASE C!Give(p, "checkout_dirty")
    BY <2>1, <1>g DEF C!Permanent
  <2>2. CASE proc' = [proc EXCEPT ![p].pc = "deepen", ![p].detached = FALSE]
    <3>1. PICK a : a = [proc[p] EXCEPT !.pc = "deepen", !.detached = FALSE]
      OBVIOUS
    <3>2. a \in Attempts /\ a.pc = "deepen" /\ proc' = [proc EXCEPT ![p] = a]
      BY <3>1, <2>2, <1>t DEF Attempts, CheckoutPhases, CheckoutInv, CheckoutTypes
    <3>3. QED
      BY <3>2, <1>a
  <2>3. QED
    BY <1>11, <2>1, <2>2 DEF C!Switched
<1>12. CASE C!Ancestry(p)
  BY <1>12, <1>g, <1>w DEF C!Ancestry, C!Permanent, CheckoutPhases
<1>13. CASE C!Validate(p)
  <2>1. CASE C!ValidateFault(p) # "none" /\ C!Give(p, C!ValidateFault(p))
    <3>1. C!ValidateFault(p) \in C!Permanent
      BY <2>1 DEF C!ValidateFault, C!Permanent
    <3>2. QED
      BY <2>1, <3>1, <1>g
  <2>2. CASE C!ValidateFault(p) = "none" /\ C!GoTo(p, "settle")
    <3>1. disk = "checkout" /\ co.local = C!Pushed(proc[p].target)
      BY <2>2 DEF C!ValidateFault
    <3>2. co.local.base = proc[p].target /\ proc[p].target \in Nat
      BY <3>1, <1>t DEF C!Pushed, Attempts
    <3>3. disk' = "checkout" /\ proc'[p].target = proc[p].target /\ co' = co
      BY <2>2, <1>0, <1>t, <3>1 DEF C!GoTo, CheckoutInv, CheckoutTypes, Attempts
    <3>4. Reached(proc[p])'
      BY <3>2, <3>3 DEF Reached
    <3>5. QED
      BY <2>2, <3>4, <1>t, GoesToKeeps DEF CheckoutPhases
  <2>3. QED
    BY <1>13, <2>1, <2>2 DEF C!Validate
<1>14. CASE C!Settle(p)
  <2>0. proc[p].pc = "settle" /\ Reached(proc[p])
    BY <1>14 DEF C!Settle, C!At, CheckoutInv, SettlesReached
  <2>1. PICK code \in {"checkout_dirty", "onboarding_failed", proc[p].res} : C!Give(p, code)
    BY <1>14 DEF C!Settle
  <2>2. CASE code \notin C!Good
    <3>1. code \in C!Permanent \union C!Retryable \union {"died", "skip", "retry", "none"}
      BY <2>1, <2>2, <1>t DEF C!Permanent, C!Retryable, C!Good, Attempts, Results
    <3>2. QED
      BY <2>1, <3>1, <1>g
  <2>3. CASE code \in C!Good
    <3>1. C!Outcome(code) = code
      BY <2>3 DEF C!Outcome, C!Good, C!Permanent, C!Retryable
    <3>2. PICK a : a = [C!Idle EXCEPT !.res = code, !.target = proc[p].target]
      OBVIOUS
    <3>3. proc' = [proc EXCEPT ![p] = a]
      BY <2>1, <2>3, <3>1, <3>2 DEF C!Give
    <3>4. a \in Attempts /\ a.target = proc[p].target /\ a.pc = "idle"
      BY <2>3, <3>2, <1>t, <1>r DEF Attempts, C!Idle, C!Good, CheckoutPhases, Results
    <3>5. Reached(a)'
      BY <2>0, <3>4, <1>0 DEF Reached
    <3>6. Tries(p, a)
      BY <3>3, <3>4, <3>5, <1>r DEF Tries
    <3>7. QED
      BY <3>6, <1>t, TriesKeep
  <2>4. QED
    BY <2>2, <2>3
<1>15. CASE C!Transport(p)
  <2>1. C!Give(p, C!TransportCode[proc[p].pc]) /\ proc[p].pc \in {"clone", "probe", "deepen", "fetch", "merge"}
    BY <1>15 DEF C!Transport, C!TransportCode
  <2>2. C!TransportCode[proc[p].pc] \in C!Retryable
    BY <2>1 DEF C!TransportCode, C!Retryable
  <2>3. QED
    BY <2>1, <2>2, <1>g
<1>16. CASE C!Crash(p)
  BY <1>16, <1>g DEF C!Crash
<1>17. QED
  BY <1>1, <1>2, <1>3, <1>4, <1>5, <1>6, <1>7, <1>8, <1>9, <1>10, <1>11, <1>12, <1>13, <1>14, <1>15, <1>16

\* Steps that change the checkout.
LEMMA ChangingSteps ==
    ASSUME CheckoutInv, NEW p \in Onboarders,
           C!Register(p) \/ C!Switch(p) \/ C!Deepen(p) \/ C!Fetch(p) \/ C!Merge(p)
    PROVE  CheckoutInv'
<1>0. tip' = tip
  BY DEF C!Register, C!Switch, C!Deepen, C!Fetch, C!Merge, C!World
<1>t. /\ proc[p] \in Attempts /\ tip \in Nat /\ MaxTip \in Nat /\ tip <= MaxTip
      /\ co \in Checkouts /\ co.local \in Commits /\ co.at \in Commits
      /\ disk \in {"absent", "plain", "checkout"}
  BY OnboardersAssumption DEF CheckoutInv, CheckoutTypes, C!CheckoutAssumption, Checkouts
<1>r. Attempts' = Attempts /\ Checkouts' = Checkouts /\ 0 \in 0..tip
      /\ \A n \in 0..tip : C!Pushed(n) \in Commits /\ C!Pushed(n).base = n
  BY <1>0, <1>t, AncestryFacts DEF Attempts, Commits, Checkouts, C!Pushed
<1>v. \A n \in Commits : n.base \in Nat
  BY <1>t DEF Commits
<1>a. ASSUME NEW a \in Attempts, a.pc \notin {"idle", "settle"}, proc' = [proc EXCEPT ![p] = a],
             disk' \in {"absent", "plain", "checkout"}, co' \in Checkouts, BranchKept
      PROVE  CheckoutInv'
  <2>1. Tries(p, a)
    BY <1>a, <1>r DEF Tries
  <2>2. QED
    BY <2>1, <1>a, <1>0, <1>r, TriesKeep
<1>1. CASE C!Register(p)
  <2>1. PICK a : a = [proc[p] EXCEPT !.pc = "validate", !.res = "registered"]
    OBVIOUS
  <2>2. a \in Attempts /\ a.pc = "validate"
    BY <2>1, <1>t DEF Attempts, CheckoutPhases, Results
  <2>3. proc' = [proc EXCEPT ![p] = a]
    BY <2>1, <1>1 DEF C!Register, CheckoutInv, CheckoutTypes
  <2>4. C!Fresh(proc[p].target) \in Checkouts
    <3>1. PICK n \in 0..tip : n = proc[p].target
      BY <1>t DEF Attempts
    <3>2. C!Fresh(n) \in Checkouts
      BY <1>r DEF C!Fresh, Checkouts
    <3>3. QED
      BY <3>1, <3>2
  <2>5. disk' \in {"absent", "plain", "checkout"} /\ co' \in Checkouts
    BY <1>1, <1>t, <2>4 DEF C!Register
  <2>6. disk = "checkout" => disk' = disk /\ co' = co
    BY <1>1 DEF C!Register
  <2>7. BranchKept
    BY <2>6, <1>t, <1>v DEF BranchKept
  <2>8. QED
    BY <2>2, <2>3, <2>5, <2>7, <1>a
<1>2. CASE C!Switch(p) /\ co' = [co EXCEPT !.head = "branch"]
  <2>1. /\ disk' = disk /\ co' \in Checkouts /\ co'.local = co.local
    BY <1>2, <1>t DEF C!Switch, Checkouts
  <2>2. BranchKept
    BY <2>1, <1>t, <1>v DEF BranchKept
  <2>3. CASE C!Give(p, "checkout_default_branch_invalid")
    BY <2>1, <2>2, <2>3, <1>0, <1>r, <1>t, GivesUpKeeps DEF C!Permanent
  <2>4. CASE proc' = [proc EXCEPT ![p].pc = "switched", ![p].seen = C!Pushed(0)]
    <3>1. PICK a : a = [proc[p] EXCEPT !.pc = "switched", !.seen = C!Pushed(0)]
      OBVIOUS
    <3>2. a \in Attempts /\ a.pc = "switched"
      BY <3>1, <1>t, <1>r DEF Attempts, CheckoutPhases
    <3>3. proc' = [proc EXCEPT ![p] = a]
      BY <3>1, <2>4 DEF CheckoutInv, CheckoutTypes
    <3>4. QED
      BY <2>1, <2>2, <3>2, <3>3, <1>a, <1>t
  <2>5. QED
    BY <1>2, <2>1, <2>2, <2>3, <2>4, <1>0, <1>r, <1>t, GivesUpKeeps DEF C!Switch, C!Permanent
<1>3. CASE C!Switch(p) /\ C!Give(p, "checkout_default_branch_invalid") /\ UNCHANGED co
  <2>1. disk' = disk /\ co' = co
    BY <1>3 DEF C!Switch
  <2>2. QED
    BY <1>3, <2>1, <1>0, CheckoutAlone, GivesUpKeeps DEF C!Permanent
<1>4. CASE C!Deepen(p)
  <2>1. /\ disk' = disk /\ co' \in Checkouts /\ co'.local = co.local /\ C!GoTo(p, "fetch")
    BY <1>4, <1>t, <1>r DEF C!Deepen, Checkouts
  <2>2. BranchKept
    BY <2>1, <1>t, <1>v DEF BranchKept
  <2>3. QED
    BY <2>1, <2>2, <1>0, <1>r, <1>t, GoesToKeeps DEF CheckoutPhases
<1>5. CASE C!Fetch(p)
  <2>1. CASE co' = [co EXCEPT !.remote = proc[p].target] /\ C!GoTo(p, "ancestry")
    <3>0. proc[p].target \in 0..tip
      BY <1>t DEF Attempts
    <3>1. /\ disk' = disk /\ co' \in Checkouts /\ co'.local = co.local
      BY <1>5, <2>1, <3>0, <1>t, <1>r DEF C!Fetch, Checkouts
    <3>2. BranchKept
      BY <3>1, <1>t, <1>v DEF BranchKept
    <3>3. QED
      BY <2>1, <3>1, <3>2, <1>0, <1>r, <1>t, GoesToKeeps DEF CheckoutPhases
  <2>2. CASE C!Give(p, "checkout_fetch_failed") /\ UNCHANGED co
    <3>1. disk' = disk /\ co' = co
      BY <1>5, <2>2 DEF C!Fetch
    <3>2. QED
      BY <2>2, <3>1, <1>0, CheckoutAlone, GivesUpKeeps DEF C!Permanent, C!Retryable
  <2>3. QED
    BY <1>5, <2>1, <2>2 DEF C!Fetch
<1>6. CASE C!Merge(p)
  <2>0. disk' = disk
    BY <1>6 DEF C!Merge
  <2>1. CASE proc' = [proc EXCEPT ![p].pc = "validate", ![p].res = "healed"]
             /\ co' = IF C!Ancestor(C!Head, C!Pushed(co.remote)) THEN C!Advance(C!Pushed(co.remote)) ELSE co
    <3>1. PICK a : a = [proc[p] EXCEPT !.pc = "validate", !.res = "healed"]
      OBVIOUS
    <3>2. a \in Attempts /\ a.pc = "validate"
      BY <3>1, <1>t DEF Attempts, CheckoutPhases, Results
    <3>3. proc' = [proc EXCEPT ![p] = a]
      BY <3>1, <2>1 DEF CheckoutInv, CheckoutTypes
    <3>4. PICK c \in Commits : c = C!Pushed(co.remote)
      BY <1>t, <1>r DEF Checkouts
    <3>5. C!Advance(c) \in Checkouts /\ C!Advance(c).local \in {c, co.local}
          /\ (C!Advance(c).local = c \/ C!Advance(c).local = co.local)
      BY <1>t DEF C!Advance, Checkouts
    <3>6. C!Advance(c).local = co.local \/ C!Head = co.local
      BY <1>t DEF C!Advance, C!Head, Checkouts
    <3>7. co' \in Checkouts /\ co.local.base <= co'.local.base
      <4>1. CASE co' = co
        BY <4>1, <1>t, <1>r, <1>v
      <4>2. CASE C!Ancestor(C!Head, c) /\ co' = C!Advance(c)
        <5>1. C!Head.base <= c.base
          BY <4>2, AncestryFacts
        <5>2. CASE co'.local = co.local
          BY <4>2, <5>2, <3>5, <1>t, <1>r, <1>v
        <5>3. CASE co'.local = c /\ C!Head = co.local
          BY <4>2, <5>1, <5>3, <3>5, <1>r
        <5>4. QED
          BY <4>2, <5>2, <5>3, <3>5, <3>6
      <4>3. QED
        BY <2>1, <3>4, <4>1, <4>2
    <3>8. BranchKept
      BY <2>0, <3>7 DEF BranchKept
    <3>9. co' \in Checkouts
      BY <3>7
    <3>10. QED
      BY <3>2, <3>3, <2>0, <3>8, <3>9, <1>a, <1>t
  <2>2. CASE C!Give(p, "checkout_fast_forward_failed") /\ UNCHANGED co
    <3>1. C!Give(p, "checkout_fast_forward_failed") /\ co' = co
      BY <2>2
    <3>2. QED
      BY <3>1, <2>0, <1>0, CheckoutAlone, GivesUpKeeps DEF C!Permanent, C!Retryable
  <2>3. QED
    BY <1>6, <2>1, <2>2 DEF C!Merge
<1>7. QED
  BY <1>1, <1>2, <1>3, <1>4, <1>5, <1>6 DEF C!Switch

\* GitHub, the workers and the operator.
LEMMA SurroundingSteps ==
    ASSUME CheckoutInv, C!Push \/ C!WorkerFetch \/ C!Operator
    PROVE  CheckoutInv'
<1>t. /\ tip \in Nat /\ MaxTip \in Nat /\ tip <= MaxTip
      /\ co \in Checkouts /\ co.local \in Commits /\ co.at \in Commits /\ co.local.base \in Nat
      /\ C!Head \in Commits
      /\ disk \in {"absent", "plain", "checkout"}
      /\ proc \in [Onboarders -> Attempts]
  BY AncestryFacts, OnboardersAssumption
     DEF CheckoutInv, CheckoutTypes, C!CheckoutAssumption, Checkouts, Commits
<1>a. ASSUME proc' = proc, tip' \in tip..MaxTip, disk' \in {"absent", "plain", "checkout"}, co' \in Checkouts',
             disk = "checkout" => disk' = "checkout",
             co.local.base <= co'.local.base
      PROVE  CheckoutInv'
  <2>1. proc' \in [Onboarders -> Attempts']
    <3>1. \A a \in Attempts : a \in Attempts'
      BY <1>t, <1>a DEF Attempts, Commits
    <3>2. QED
      BY <3>1, <1>t, <1>a
  <2>2. co'.local.base \in Nat
    BY <1>a, <1>t DEF Checkouts, Commits
  <2>3. \A p \in Onboarders : proc[p].target \in Nat
    BY <1>t DEF Attempts
  <2>5. tip' \in 0..MaxTip
    BY <1>a, <1>t
  <2>6. CheckoutTypes'
    BY <1>a, <2>1, <2>5 DEF CheckoutTypes
  <2>7. SettlesReached' /\ GoodsReached'
    BY <1>a, <1>t, <2>2, <2>3 DEF CheckoutInv, SettlesReached, GoodsReached, Reached
  <2>8. QED
    BY <2>6, <2>7 DEF CheckoutInv
<1>1. CASE C!Push
  <2>1. tip' \in tip..MaxTip /\ proc' = proc /\ disk' = disk /\ co' = co
    BY <1>1, <1>t DEF C!Push
  <2>2. co' \in Checkouts'
    BY <2>1, <1>t DEF Checkouts, Commits
  <2>3. QED
    BY <2>1, <2>2, <1>t, <1>a
<1>2. CASE C!WorkerFetch
  <2>1. tip' = tip /\ proc' = proc /\ disk' = disk /\ co' = [co EXCEPT !.remote = tip]
    BY <1>2 DEF C!WorkerFetch, C!World
  <2>2. co' \in Checkouts' /\ co'.local = co.local
    BY <2>1, <1>t DEF Checkouts, Commits
  <2>3. QED
    BY <2>1, <2>2, <1>t, <1>a
<1>3. CASE C!Operator
  <2>0. tip' = tip /\ proc' = proc /\ tip \in tip..MaxTip /\ Checkouts' = Checkouts
    <3>1. tip' = tip /\ proc' = proc
      BY <1>3 DEF C!Operator
    <3>2. QED
      BY <3>1, <1>t DEF Checkouts, Commits
  <2>1. CASE disk' = disk /\ co' = co
    BY <2>0, <2>1, <1>t, <1>a
  <2>2. CASE disk # "checkout" /\ disk' \in {"absent", "plain"} /\ co' = co
    BY <2>0, <2>2, <1>t, <1>a
  <2>3. ASSUME disk' = disk, co' \in Checkouts, co'.local = co.local
        PROVE  CheckoutInv'
    BY <2>0, <2>3, <1>t, <1>a
  <2>4. CASE disk' = disk /\ co' = [co EXCEPT !.dirty = ~@]
    <3>1. co' \in Checkouts /\ co'.local = co.local
      BY <2>4, <1>t DEF Checkouts
    <3>2. QED
      BY <2>3, <2>4, <3>1
  <2>5. CASE disk' = disk /\ \E c \in {"ok", "origin", "unsafe"} : co' = [co EXCEPT !.config = c]
    <3>1. co' \in Checkouts /\ co'.local = co.local
      BY <2>5, <1>t DEF Checkouts
    <3>2. QED
      BY <2>3, <2>5, <3>1
  <2>6. CASE disk' = disk /\ co' = [co EXCEPT !.head = "branch"]
    <3>1. co' \in Checkouts /\ co'.local = co.local
      BY <2>6, <1>t DEF Checkouts
    <3>2. QED
      BY <2>3, <2>6, <3>1
  <2>7. CASE disk' = disk /\ \E h \in {"detached", "other"}, n \in 0..co.local.base :
                  co' = [co EXCEPT !.head = h, !.at = C!Pushed(n)]
    <3>1. PICK h \in {"detached", "other"}, n \in 0..co.local.base :
                  co' = [co EXCEPT !.head = h, !.at = C!Pushed(n)]
      BY <2>7
    <3>2. C!Pushed(n) \in Commits
      BY <1>t DEF Commits, C!Pushed
    <3>3. co' \in Checkouts /\ co'.local = co.local
      BY <3>1, <3>2, <1>t DEF Checkouts
    <3>4. QED
      BY <2>3, <2>7, <3>3
  <2>a. ASSUME NEW c \in Commits, c.base >= C!Head.base, disk' = disk, co' = C!Advance(c)
        PROVE  CheckoutInv'
    <3>1. co' \in Checkouts
      BY <2>a, <1>t DEF C!Advance, Checkouts
    <3>2. CASE co.head = "branch"
      <4>1. C!Head = co.local /\ co'.local = c
        BY <2>a, <3>2, <1>t DEF C!Head, C!Advance, Checkouts
      <4>2. c.base \in Nat
        BY <2>a, <1>t DEF Commits
      <4>3. co.local.base <= co'.local.base
        BY <2>a, <4>1, <4>2, <1>t
      <4>4. QED
        BY <2>a, <2>0, <3>1, <4>3, <1>t, <1>a
    <3>3. CASE co.head # "branch"
      <4>1. co'.local = co.local
        BY <2>a, <3>3, <1>t DEF C!Advance, Checkouts
      <4>2. QED
        BY <2>a, <3>1, <4>1, <2>3
    <3>4. QED
      BY <3>2, <3>3
  <2>8. CASE disk' = disk /\ co' = C!Advance([C!Head EXCEPT !.own = TRUE])
    <3>0. PICK h \in Commits : h = C!Head
      BY <1>t
    <3>1. PICK c : c = [h EXCEPT !.own = TRUE]
      OBVIOUS
    <3>2. c \in Commits /\ c.base = h.base
      BY <3>1 DEF Commits
    <3>5. c.base \in Nat
      BY <3>2, <1>t DEF Commits
    <3>3. c.base >= C!Head.base
      BY <3>0, <3>2, <3>5
    <3>4. QED
      BY <2>8, <3>0, <3>1, <3>2, <3>3, <2>a
  <2>9. CASE disk' = disk /\ ~C!Head.own /\ co' = C!Advance(C!Pushed(tip))
    <3>0. C!Pushed(tip) \in Commits /\ C!Pushed(tip).base = tip
      BY <1>t DEF Commits, C!Pushed
    <3>1. PICK c \in Commits : c = C!Pushed(tip) /\ c.base = tip
      BY <3>0
    <3>2. C!Head.base \in 0..tip
      BY <1>t DEF Commits
    <3>3. QED
      BY <2>9, <3>1, <3>2, <1>t, <2>a
  <2>10. QED
    BY <1>3, <2>1, <2>2, <2>4, <2>5, <2>6, <2>7, <2>8, <2>9 DEF C!Operator
<1>4. QED
  BY <1>1, <1>2, <1>3

\* The invariant holds of a repository with a sound checkout, or with none.
LEMMA CheckoutInitially == C!Init => CheckoutInv
<1> SUFFICES ASSUME C!Init  PROVE CheckoutInv
  OBVIOUS
<1>1. tip = 0 /\ MaxTip \in Nat /\ 0 \in 0..MaxTip /\ 0 \in 0..tip
  BY OnboardersAssumption DEF C!Init, C!CheckoutAssumption
<1>2. C!Pushed(0) \in Commits
  BY <1>1 DEF C!Pushed, Commits
<1>3. C!Fresh(0) \in Checkouts
  BY <1>1, <1>2 DEF C!Fresh, Checkouts
<1>4. [C!Fresh(0) EXCEPT !.shallow = TRUE] \in Checkouts
  BY <1>3 DEF Checkouts
<1>5. C!Idle \in Attempts /\ C!Idle.pc = "idle" /\ C!Idle.res = "none"
  BY <1>1, <1>2 DEF C!Idle, Attempts, CheckoutPhases, Results
<1>6. CheckoutTypes
  BY <1>1, <1>3, <1>4, <1>5 DEF C!Init, CheckoutTypes
<1>7. QED
  BY <1>5, <1>6 DEF C!Init, CheckoutInv, SettlesReached, GoodsReached, C!Good

\* The invariant is inductive.
LEMMA CheckoutStep ==
    ASSUME CheckoutInv, [C!Next]_C!vars
    PROVE  CheckoutInv'
<1>1. CASE UNCHANGED C!vars
  <2>1. UNCHANGED <<tip, disk, co, proc>>
    BY <1>1 DEF C!vars
  <2>2. Checkouts' = Checkouts /\ Attempts' = Attempts
    BY <2>1 DEF Checkouts, Attempts, Commits
  <2>3. CheckoutTypes'
    BY <2>1, <2>2 DEF CheckoutInv, CheckoutTypes
  <2>4. QED
    BY <2>1, <2>3 DEF CheckoutInv, SettlesReached, GoodsReached, Reached
<1>2. QED
  BY <1>1, ReadingSteps, ChangingSteps, SurroundingSteps DEF C!Next, C!Advances

\* GoodHasTarget, for any number of processes and pushes: what ends well has the branch at the
\* commit it was to have, since nothing in the system moves the branch back.
THEOREM CheckoutsReachTarget == C!Spec => []GoodHasTarget
<1>1. CheckoutInv => GoodHasTarget
  <2> SUFFICES ASSUME CheckoutInv, NEW p \in Onboarders, proc[p].pc = "idle", proc[p].res \in C!Good
               PROVE  disk = "checkout" /\ C!Ancestor(C!Pushed(proc[p].target), co.local)
    BY DEF GoodHasTarget, C!GoodHasTarget, C!At
  <2>1. Reached(proc[p])
    BY DEF CheckoutInv, GoodsReached
  <2>2. QED
    BY <2>1 DEF Reached, C!Ancestor, C!Pushed
<1>2. QED
  BY <1>1, CheckoutInitially, CheckoutStep, PTL DEF C!Spec

-----------------------------------------------------------------------------
(* What the operator has in the checkout                                    *)

\* A step of a process leaves what lies at the path and what is uncommitted, and only merges forward.
LEMMA StepsKeepWork ==
    ASSUME CheckoutInv, [C!Next]_C!vars, proc' # proc
    PROVE  /\ disk # "absent" => disk' = disk
           /\ disk = "checkout" => /\ C!Ancestor(co.local, co'.local)
                                   /\ co.dirty => co'.dirty
<1>t. co \in Checkouts /\ co.local \in Commits
  BY DEF CheckoutInv, CheckoutTypes, Checkouts
<1>s. C!Ancestor(co.local, co.local)
  BY <1>t, AncestryFacts
<1>0. PICK p \in Onboarders :
        \/ \E op \in {"ensure", "snapshot"} : C!Acquire(p, op)
        \/ C!Busy(p) \/ C!Advances(p) \/ C!MetadataFails(p) \/ C!Transport(p) \/ C!Crash(p)
  BY DEF C!Next, C!Push, C!WorkerFetch, C!Operator, C!vars
<1>1. CASE disk' = disk /\ co' = co
  BY <1>1, <1>s
<1>2. CASE C!Register(p)
  BY <1>2, <1>s DEF C!Register
<1>3. CASE C!Switch(p)
  <2>1. disk' = disk /\ (co' = co \/ co' = [co EXCEPT !.head = "branch"])
    BY <1>3 DEF C!Switch
  <2>2. co'.local = co.local /\ co'.dirty = co.dirty
    BY <2>1, <1>t DEF Checkouts
  <2>3. QED
    BY <2>1, <2>2, <1>s
<1>4. CASE C!Deepen(p)
  <2>1. disk' = disk /\ co' = [co EXCEPT !.shallow = FALSE]
    BY <1>4 DEF C!Deepen
  <2>2. co'.local = co.local /\ co'.dirty = co.dirty
    BY <2>1, <1>t DEF Checkouts
  <2>3. QED
    BY <2>1, <2>2, <1>s
<1>5. CASE C!Fetch(p)
  <2>1. disk' = disk /\ (co' = co \/ co' = [co EXCEPT !.remote = proc[p].target])
    BY <1>5 DEF C!Fetch
  <2>2. co'.local = co.local /\ co'.dirty = co.dirty
    BY <2>1, <1>t DEF Checkouts
  <2>3. QED
    BY <2>1, <2>2, <1>s
<1>6. CASE C!Merge(p)
  <2>0. disk' = disk
    BY <1>6 DEF C!Merge
  <2>1. PICK c : c = C!Pushed(co.remote)
    OBVIOUS
  <2>2. co' = co \/ (C!Ancestor(C!Head, c) /\ co' = C!Advance(c))
    BY <1>6, <2>1 DEF C!Merge
  <2>3. CASE C!Ancestor(C!Head, c) /\ co' = C!Advance(c)
    <3>1. CASE co.head = "branch"
      <4>1. C!Head = co.local /\ co' = [co EXCEPT !.local = c]
        BY <2>3, <3>1 DEF C!Head, C!Advance
      <4>2. co'.local = c /\ co'.dirty = co.dirty
        BY <4>1, <1>t DEF Checkouts
      <4>3. QED
        BY <2>0, <2>3, <4>1, <4>2
    <3>2. CASE co.head # "branch"
      <4>1. co' = [co EXCEPT !.at = c]
        BY <2>3, <3>2 DEF C!Advance
      <4>2. co'.local = co.local /\ co'.dirty = co.dirty
        BY <4>1, <1>t DEF Checkouts
      <4>3. QED
        BY <2>0, <4>2, <1>s
    <3>3. QED
      BY <3>1, <3>2
  <2>4. QED
    BY <2>0, <2>2, <2>3, <1>s
<1>7. QED
  BY <1>0, <1>1, <1>2, <1>3, <1>4, <1>5, <1>6
     DEF C!Advances, C!Acquire, C!Busy, C!Metadata, C!MetadataFails, C!Look, C!Clone, C!Inspect, C!Clean,
         C!ReadRefs, C!Probe, C!Switched, C!Ancestry, C!Validate, C!Settle, C!Transport, C!Crash, C!World

\* OperatorWorkKept, for any number of processes, pushes and acts of the operator.
THEOREM CheckoutsKeepWork == C!Spec => OperatorWorkKept
<1>1. CheckoutInv /\ [C!Next]_C!vars
        => [proc' # proc =>
              /\ disk # "absent" => disk' = disk
              /\ disk = "checkout" => /\ C!Ancestor(co.local, co'.local)
                                      /\ co.dirty => co'.dirty]_C!vars
  BY StepsKeepWork
<1>2. QED
  BY <1>1, CheckoutInitially, CheckoutStep, PTL DEF C!Spec, OperatorWorkKept, C!OperatorWorkKept

-----------------------------------------------------------------------------
(* The lock of a checkout                                                   *)

\* The holder of the lock is the one process that is under way.
LockInv ==
    /\ lock \in Onboarders \union {Nobody}
    /\ \A p \in Onboarders : proc[p].pc # "idle" <=> lock = p
    /\ managed \in BOOLEAN /\ touches \in 0..MaxTouches

\* What a process does with the lock: nothing, or it takes the free lock, or gives it back.
UsesLock(p) ==
    /\ \A q \in Onboarders \ {p} : proc'[q] = proc[q]
    /\ \/ lock' = lock /\ (proc'[p].pc = "idle" <=> proc[p].pc = "idle")
       \/ lock = Nobody /\ lock' = p /\ proc'[p].pc # "idle"
       \/ lock' = Nobody /\ proc[p].pc # "idle" /\ proc'[p].pc = "idle"

\* Giving up or ending gives the lock back.
LEMMA GiveUsesLock ==
    ASSUME CheckoutInv, NEW p \in Onboarders, NEW res, C!Give(p, res), proc[p].pc # "idle"
    PROVE  UsesLock(p)
<1>1. proc \in [Onboarders -> Attempts]
  BY DEF CheckoutInv, CheckoutTypes
<1>2. PICK a : a = [C!Idle EXCEPT !.res = C!Outcome(res), !.target = IF res \in C!Good THEN proc[p].target ELSE 0]
  OBVIOUS
<1>3. a.pc = "idle" /\ proc' = [proc EXCEPT ![p] = a] /\ lock' = Nobody
  BY <1>2 DEF C!Idle, C!Give
<1>4. QED
  BY <1>1, <1>3 DEF UsesLock

\* Going on to another phase keeps the lock.
LEMMA GoToUsesLock ==
    ASSUME CheckoutInv, NEW p \in Onboarders, NEW pc, pc # "idle", C!GoTo(p, pc),
           proc[p].pc # "idle", lock' = lock
    PROVE  UsesLock(p)
<1>1. proc \in [Onboarders -> Attempts]
  BY DEF CheckoutInv, CheckoutTypes
<1>2. proc'[p].pc = pc /\ \A q \in Onboarders \ {p} : proc'[q] = proc[q]
  BY <1>1 DEF C!GoTo, Attempts
<1>3. QED
  BY <1>2 DEF UsesLock

\* Each step of a process uses the lock as it should.
LEMMA StepsUseLock ==
    ASSUME CheckoutInv, NEW p \in Onboarders, LockInv,
           \/ \E op \in {"ensure", "snapshot"} : C!Acquire(p, op)
           \/ C!Busy(p) \/ C!Advances(p) \/ C!MetadataFails(p) \/ C!Transport(p) \/ C!Crash(p)
    PROVE  UsesLock(p) /\ managed' = managed /\ touches' \in {touches, touches + 1} /\ touches' <= MaxTouches
<1>0. proc \in [Onboarders -> Attempts] /\ touches \in 0..MaxTouches
              /\ MaxTouches \in Nat
  BY OnboardersAssumption DEF CheckoutInv, CheckoutTypes, LockInv, C!CheckoutAssumption
<1>1. CASE \E op \in {"ensure", "snapshot"} : C!Acquire(p, op)
  <2>1. PICK op \in {"ensure", "snapshot"} : C!Acquire(p, op)
    BY <1>1
  <2>2. CASE proc' = [proc EXCEPT ![p].res = C!Outcome("onboarding_failed")] /\ lock' = lock
    BY <1>0, <2>1, <2>2 DEF C!Acquire, UsesLock, C!World, Attempts
  <2>3. CASE proc' = [proc EXCEPT ![p] = [C!Idle EXCEPT !.pc = "metadata", !.op = op]] /\ lock' = p
    <3>1. PICK a : a = [C!Idle EXCEPT !.pc = "metadata", !.op = op]
      OBVIOUS
    <3>2. a.pc = "metadata"
      BY <3>1 DEF C!Idle
    <3>3. QED
      BY <1>0, <2>1, <2>3, <3>1, <3>2 DEF C!Acquire, UsesLock, C!World
  <2>4. QED
    BY <2>1, <2>2, <2>3 DEF C!Acquire
<1>2. CASE C!Busy(p)
  <2>1. PICK o : o = C!Outcome("repository_lock_busy")
    OBVIOUS
  <2>2. proc' = [proc EXCEPT ![p].res = o] /\ UNCHANGED <<lock, managed, touches>>
    BY <1>2, <2>1 DEF C!Busy, C!World
  <2>3. QED
    BY <1>0, <2>2 DEF UsesLock, Attempts
<1>3. CASE C!MetadataFails(p) \/ C!Transport(p) \/ C!Crash(p)
  <2>1. proc[p].pc # "idle" /\ managed' = managed
    BY <1>3 DEF C!MetadataFails, C!Transport, C!TransportCode, C!Crash, C!At
  <2>2. \E res : C!Give(p, res)
    BY <1>3 DEF C!MetadataFails, C!Transport, C!Crash
  <2>3. touches' \in {touches, touches + 1} /\ touches' <= MaxTouches
    BY <1>0, <1>3 DEF C!MetadataFails, C!Transport, C!Crash, C!Touch
  <2>4. QED
    BY <2>1, <2>2, <2>3, GiveUsesLock
<1>6. CASE C!Advances(p)
  <2>1. managed' = managed /\ touches' = touches /\ proc[p].pc # "idle"
    BY <1>6 DEF C!Advances, C!Metadata, C!Look, C!Clone, C!Register, C!Inspect, C!Clean, C!ReadRefs, C!Probe,
       C!Switch, C!Switched, C!Deepen, C!Fetch, C!Ancestry, C!Merge, C!Validate, C!Settle, C!World, C!At
  <2>2. CASE \E res : C!Give(p, res)
    BY <2>1, <2>2, GiveUsesLock, <1>0
  <2>3. CASE lock' = lock /\ \E pc : pc # "idle" /\ C!GoTo(p, pc)
    BY <2>1, <2>3, GoToUsesLock, <1>0
  <2>4. CASE C!Metadata(p) \/ C!Register(p)
    BY <1>0, <2>1, <2>4 DEF C!Metadata, C!Register, UsesLock, Attempts
  <2>5. CASE C!Look(p) \/ C!Clone(p) \/ C!Clean(p) \/ C!Deepen(p) \/ C!Fetch(p) \/ C!Ancestry(p) \/ C!Validate(p)
             \/ C!Settle(p)
    BY <2>2, <2>3, <2>5 DEF C!Look, C!Clone, C!Clean, C!Deepen, C!Fetch, C!Ancestry, C!Validate, C!Settle
  <2>6. CASE C!Inspect(p)
    BY <1>0, <2>1, <2>2, <2>6 DEF C!Inspect, UsesLock, Attempts
  <2>7. CASE C!ReadRefs(p)
    BY <1>0, <2>1, <2>2, <2>7 DEF C!ReadRefs, UsesLock, Attempts
  <2>8. CASE C!Probe(p)
    BY <1>0, <2>1, <2>2, <2>8 DEF C!Probe, UsesLock, Attempts
  <2>9. CASE C!Switch(p)
    BY <1>0, <2>1, <2>2, <2>9 DEF C!Switch, UsesLock, Attempts
  <2>10. CASE C!Switched(p)
    BY <1>0, <2>1, <2>2, <2>10 DEF C!Switched, UsesLock, Attempts
  <2>11. CASE C!Merge(p)
    BY <1>0, <2>1, <2>2, <2>11 DEF C!Merge, UsesLock, Attempts
  <2>12. QED
    BY <1>6, <2>4, <2>5, <2>6, <2>7, <2>8, <2>9, <2>10, <2>11 DEF C!Advances
<1>7. QED
  BY <1>1, <1>2, <1>3, <1>6

\* The lock stays with the one process that is under way.
LEMMA LockStep ==
    ASSUME CheckoutInv, LockInv, [C!Next]_C!vars
    PROVE  LockInv'
<1>0. Nobody \notin Onboarders /\ MaxTouches \in Nat /\ touches \in 0..MaxTouches
  BY OnboardersAssumption DEF C!CheckoutAssumption, LockInv
<1>1. CASE \E p \in Onboarders :
             \/ \E op \in {"ensure", "snapshot"} : C!Acquire(p, op)
             \/ C!Busy(p) \/ C!Advances(p) \/ C!MetadataFails(p) \/ C!Transport(p) \/ C!Crash(p)
  <2>1. PICK p \in Onboarders :
             UsesLock(p) /\ managed' = managed /\ touches' \in {touches, touches + 1} /\ touches' <= MaxTouches
    BY <1>1, StepsUseLock
  <2>2. touches' \in 0..MaxTouches
    BY <1>0, <2>1
  <2>3. QED
    BY <1>0, <2>1, <2>2 DEF LockInv, UsesLock
<1>2. CASE C!Push \/ C!WorkerFetch \/ C!Operator \/ UNCHANGED C!vars
  <2>1. UNCHANGED <<lock, proc>>
    BY <1>2 DEF C!Push, C!WorkerFetch, C!Operator, C!World, C!vars
  <2>2. managed' \in {managed, ~managed}
    BY <1>2 DEF C!Push, C!WorkerFetch, C!Operator, C!World, C!vars
  <2>3. touches' = touches \/ (touches < MaxTouches /\ touches' = touches + 1)
    BY <1>2 DEF C!Push, C!WorkerFetch, C!Operator, C!World, C!vars, C!Touch
  <2>4. touches' \in 0..MaxTouches
    BY <1>0, <2>3
  <2>5. managed' \in BOOLEAN
    BY <2>2 DEF LockInv
  <2>6. QED
    BY <2>1, <2>4, <2>5 DEF LockInv
<1>3. QED
  BY <1>1, <1>2 DEF C!Next

\* Checkout's type invariant, for any number of processes, pushes and acts of the operator: beside the
\* types, the onboarding lock keeps processes apart, one attempt at a time.
THEOREM CheckoutsTakeTurns == C!Spec => []C!TypeOK
<1>1. CheckoutInv /\ LockInv => C!TypeOK
  <2> SUFFICES ASSUME CheckoutInv, LockInv PROVE C!TypeOK
    OBVIOUS
  <2>1. MaxTip \in Nat /\ tip \in 0..MaxTip /\ 0..tip \subseteq 0..MaxTip
    BY OnboardersAssumption DEF CheckoutInv, CheckoutTypes, C!CheckoutAssumption
  <2>2. Commits \subseteq C!Commit
    BY <2>1 DEF Commits, C!Commit
  <2>3. co \in [head : {"branch", "detached", "other"}, at : C!Commit, local : C!Commit,
                remote : 0..tip, dirty : BOOLEAN, shallow : BOOLEAN, config : {"ok", "origin", "unsafe"}]
    BY <2>2 DEF CheckoutInv, CheckoutTypes, Checkouts
  <2>4. Attempts \subseteq [pc : {"idle", "metadata", "look", "clone", "register",
                               "inspect", "clean", "refs", "probe", "switch",
                               "switched", "deepen", "fetch", "ancestry", "merge",
                               "validate", "settle"},
                         op : {"ensure", "snapshot"}, target : 0..tip, seen : C!Commit,
                         detached : BOOLEAN,
                         res : {"none", "died", "skip", "retry"} \union C!Good]
    BY <2>2 DEF Attempts, CheckoutPhases, Results, C!Good
  <2>5. QED
    BY <2>3, <2>4 DEF CheckoutInv, CheckoutTypes, LockInv, C!TypeOK
<1>2. C!Init => LockInv
  BY OnboardersAssumption DEF C!Init, LockInv, C!Idle, C!CheckoutAssumption
<1>3. QED
  BY <1>1, <1>2, CheckoutInitially, CheckoutStep, LockStep, PTL DEF C!Spec
-----------------------------------------------------------------------------
(* The inductive invariant of the intake's runs                             *)

Runs == [pc : Phases, scope : Kinds, held : BOOLEAN, todo : SUBSET Repos, ok : SUBSET Repos,
         made : SUBSET Repos, ready : SUBSET Repos, sel : SUBSET Repos, closing : SUBSET Repos,
         cands : SUBSET Repos, perm : SUBSET Repos, fail : SUBSET Repos, late : SUBSET Repos]

RunTypes ==
    /\ issue \in [Repos -> {"none", "ready", "merged", "closed"}]
    /\ queued \subseteq Scopes /\ orphans \subseteq Scopes
    /\ run \in [Procs -> Runs]
    /\ \A p \in Procs : run[p].held => run[p].scope \in Scopes

\* Where a run that selected its repositories keeps those it has not dealt with yet.
LatePhases == {"cleanup", "list", "slugs", "snapshot", "import", "sync", "finish", "ack"}
InHand(a) ==
    {r \in Repos : \/ a.pc = "cleanup" /\ r \in a.sel
                   \/ a.pc \in {"list", "import"} /\ r \in a.todo
                   \/ a.pc \in {"list", "slugs", "snapshot"} /\ r \in a.cands}

NotReady(a) == IF a.scope = Full THEN Repos \ a.ready ELSE {}
DealtWith(a) == card \union a.perm \union a.fail \union NotReady(a)

\* No Issue that was eligible when its scope was claimed drops out between two phases.
Accounted(a) ==
    a.pc \in LatePhases =>
        \A r \in Repos \ a.late : Covers(a.scope, r) /\ issue[r] = "ready" => r \in DealtWith(a) \union InHand(a)

RunInv ==
    /\ RunTypes
    /\ \A p \in Procs : Accounted(run[p]) /\ (run[p].pc = "ack" => run[p].fail = {})

\* One process goes on with a typed record.
Becomes(p, a) ==
    /\ a \in Runs /\ (a.held => a.scope \in Scopes) /\ (a.pc = "ack" => a.fail = {})
    /\ run' = [run EXCEPT ![p] = a]

\* A step that makes no Issue eligible, takes no card away and leaves the store typed.
Calm ==
    /\ issue' \in [Repos -> {"none", "ready", "merged", "closed"}]
    /\ \A r \in Repos : issue'[r] = "ready" => issue[r] = "ready"
    /\ card \subseteq card'
    /\ queued' \subseteq Scopes /\ orphans' \subseteq Scopes

-----------------------------------------------------------------------------
(* Steps of a run                                                           *)

\* A process that goes on keeps the invariant, if its own Issues stay accounted for.
LEMMA BecomesKeeps ==
    ASSUME RunInv, NEW p \in Procs, NEW a, Becomes(p, a), Accounted(a)', Calm
    PROVE  RunInv'
<1>1. RunTypes'
  BY DEF RunInv, RunTypes, Becomes, Calm
<1>2. \A q \in Procs \ {p} : run'[q] = run[q] /\ run[q].scope \in Kinds
  BY DEF RunInv, RunTypes, Becomes, Runs
<1>3. run'[p] = a
  BY DEF RunInv, RunTypes, Becomes
<1>4. \A q \in Procs \ {p} : Accounted(run[q])' 
  <2> SUFFICES ASSUME NEW q \in Procs \ {p}  PROVE Accounted(run[q])'
    OBVIOUS
  <2>1. PICK b : b = run[q]
    OBVIOUS
  <2>2. Accounted(b)
    BY <2>1 DEF RunInv
  <2>3. Accounted(b)'
    BY <2>2 DEF Accounted, Calm, DealtWith, InHand, NotReady, Covers
  <2>4. QED
    BY <2>1, <2>3, <1>2 DEF Accounted, DealtWith, InHand, NotReady
<1>5. QED
  BY <1>1, <1>2, <1>3, <1>4 DEF RunInv, Becomes, Accounted, DealtWith, InHand, NotReady

\* Before the selection, and after the end, a run owes nothing.
LEMMA EarlyKeeps ==
    ASSUME RunInv, NEW p \in Procs, NEW a, Becomes(p, a), a.pc \notin LatePhases, Calm
    PROVE  RunInv'
BY BecomesKeeps DEF Accounted

\* What the phases of a run leave alone.
LEMMA CalmWhenAlone ==
    ASSUME RunInv, UNCHANGED <<issue, card>>,
           queued' \subseteq Scopes, orphans' \subseteq Scopes
    PROVE  Calm
BY DEF RunInv, RunTypes, Calm

\* An idle process is typed, owes nothing and holds no scope.
LEMMA IdleRun == Idle \in Runs /\ Idle.pc \notin LatePhases /\ Idle.held = FALSE /\ Idle.pc = "idle"
BY DEF Idle, Runs, Phases, Kinds, LatePhases

\* An exception ends a run; the transition of its scope owes nothing.
LEMMA RaiseKeeps ==
    ASSUME RunInv, NEW p \in Procs, NEW pc \in {"skip", "requeue"}, Raise(p, pc), Calm
    PROVE  RunInv'
<1>1. run[p] \in Runs /\ (run[p].held => run[p].scope \in Scopes)
  BY DEF RunInv, RunTypes
<1>2. CASE run' = [run EXCEPT ![p] = Idle]
  BY <1>2, IdleRun, EarlyKeeps DEF Becomes
<1>3. CASE run' = [run EXCEPT ![p] = [Idle EXCEPT !.pc = pc, !.scope = run[p].scope, !.held = run[p].held,
                                           !.perm = run[p].perm, !.ready = run[p].ready, !.late = run[p].late]]
  <2>1. PICK a : a = [Idle EXCEPT !.pc = pc, !.scope = run[p].scope, !.held = run[p].held,
                                           !.perm = run[p].perm, !.ready = run[p].ready, !.late = run[p].late]
    OBVIOUS
  <2>2. a \in Runs /\ a.pc = pc /\ a.held = run[p].held /\ a.scope = run[p].scope
    BY <2>1, <1>1, IdleRun DEF Runs, Phases
  <2>3. Becomes(p, a) /\ a.pc \notin LatePhases
    BY <1>1, <1>3, <2>1, <2>2 DEF Becomes, LatePhases
  <2>4. QED
    BY <2>3, EarlyKeeps
<1>4. QED
  BY <1>2, <1>3 DEF Raise, Set

\* The claim of a scope, the transitions of a scope, and the end of a run.
LEMMA StoreSteps ==
    ASSUME RunInv, NEW p \in Procs,
           \/ \E s \in queued : Claim(p, s)
           \/ Unclaimed(p) \/ Ack(p) \/ Requeue(p) \/ TransitionFails(p) \/ Crash(p)
    PROVE  RunInv'
<1>0. UNCHANGED <<issue, card>>
  BY DEF Claim, Unclaimed, Ack, Requeue, TransitionFails, Crash, People
<1>t. /\ run[p] \in Runs /\ (run[p].held => run[p].scope \in Scopes)
      /\ queued \subseteq Scopes /\ orphans \subseteq Scopes
  BY DEF RunInv, RunTypes
<1>i. ASSUME run' = [run EXCEPT ![p] = Idle], queued' \subseteq Scopes, orphans' \subseteq Scopes
      PROVE  RunInv'
  BY <1>0, <1>i, IdleRun, CalmWhenAlone, EarlyKeeps DEF Becomes
<1>1. ASSUME NEW s \in queued, Claim(p, s)
      PROVE  RunInv'
  <2>1. PICK pc \in {"sweep", "checkouts"} :
          run' = [run EXCEPT ![p] = [Idle EXCEPT !.scope = s, !.held = TRUE, !.todo = s.repos, !.pc = pc]]
    BY <1>1 DEF Claim, Set
  <2>2. s \in Scopes /\ s \in Kinds /\ s.repos \in SUBSET Repos
    BY <1>t DEF Scopes, Kinds, Event, Full
  <2>3. PICK a : a = [Idle EXCEPT !.scope = s, !.held = TRUE, !.todo = s.repos, !.pc = pc]
    OBVIOUS
  <2>4. a \in Runs /\ a.scope = s /\ a.pc = pc
    BY <2>2, <2>3, IdleRun DEF Runs, Phases
  <2>5. Becomes(p, a) /\ a.pc \notin LatePhases
    BY <2>1, <2>2, <2>3, <2>4 DEF Becomes, LatePhases
  <2>6. Calm
    BY <1>0, <1>1, <1>t, CalmWhenAlone DEF Claim
  <2>7. QED
    BY <2>5, <2>6, EarlyKeeps
<1>2. CASE Unclaimed(p)
  <2>0. Calm
    BY <1>0, <1>2, <1>t, CalmWhenAlone DEF Unclaimed, Store
  <2>1. CASE run' = [run EXCEPT ![p] = [Idle EXCEPT !.pc = "registry"]]
    <3>1. PICK a : a = [Idle EXCEPT !.pc = "registry"]
      OBVIOUS
    <3>2. a \in Runs /\ a.pc = "registry" /\ a.held = FALSE
      BY <3>1, IdleRun DEF Runs, Phases
    <3>3. Becomes(p, a) /\ a.pc \notin LatePhases
      BY <2>1, <3>1, <3>2 DEF Becomes, LatePhases
    <3>4. QED
      BY <2>0, <3>3, EarlyKeeps
  <2>2. ASSUME NEW r \in Repos,
               run' = [run EXCEPT ![p] = [Idle EXCEPT !.scope = [mode |-> "manual", repos |-> {r}],
                                                      !.todo = {r}, !.pc = "checkouts"]]
        PROVE  RunInv'
    <3>0. PICK s \in Kinds : s = [mode |-> "manual", repos |-> {r}]
      BY DEF Kinds
    <3>1. PICK a : a = [Idle EXCEPT !.scope = s, !.todo = {r}, !.pc = "checkouts"]
      OBVIOUS
    <3>2. a \in Runs /\ a.pc = "checkouts" /\ a.held = FALSE
      BY <3>1, IdleRun DEF Runs, Phases
    <3>3. Becomes(p, a) /\ a.pc \notin LatePhases
      BY <2>2, <3>0, <3>1, <3>2 DEF Becomes, LatePhases
    <3>4. QED
      BY <2>0, <3>3, EarlyKeeps
  <2>3. QED
    BY <1>2, <2>1, <2>2 DEF Unclaimed, Set
<1>3. CASE Ack(p)
  BY <1>3, <1>t, <1>i DEF Ack, Set, Store
<1>4. CASE Requeue(p)
  BY <1>4, <1>t, <1>i DEF Requeue, Set
<1>5. CASE TransitionFails(p)
  <2>1. ASSUME NEW lost \in BOOLEAN, orphans' = orphans,
               run' = [run EXCEPT ![p] = [run[p] EXCEPT !.pc = "requeue", !.held = @ /\ ~lost]]
        PROVE  RunInv'
    <3>1. PICK h \in BOOLEAN : h = (run[p].held /\ ~lost)
      OBVIOUS
    <3>2. PICK a : a = [run[p] EXCEPT !.pc = "requeue", !.held = h]
      OBVIOUS
    <3>3. a \in Runs /\ a.pc = "requeue" /\ a.held = h /\ a.scope = run[p].scope
      BY <3>2, <1>t DEF Runs, Phases
    <3>4. Becomes(p, a) /\ a.pc \notin LatePhases
      BY <2>1, <3>1, <3>2, <3>3, <1>t DEF Becomes, LatePhases
    <3>5. Calm
      BY <1>0, <1>5, <2>1, <1>t, CalmWhenAlone DEF TransitionFails
    <3>6. QED
      BY <3>4, <3>5, EarlyKeeps
  <2>2. CASE run' = [run EXCEPT ![p] = Idle]
    BY <1>5, <2>2, <1>t, <1>i DEF TransitionFails
  <2>3. QED
    BY <1>5, <2>1, <2>2 DEF TransitionFails, Set
<1>6. CASE Crash(p)
  BY <1>6, <1>t, <1>i DEF Crash, Set
<1>7. QED
  BY <1>1, <1>2, <1>3, <1>4, <1>5, <1>6

\* Checkouts, registry and boards, before the run selects its repositories.
LEMMA PreparingSteps ==
    ASSUME RunInv, NEW p \in Procs,
           \/ Sweep(p) \/ Heal(p) \/ Ensure(p) \/ Provisioned(p) \/ Registry(p) \/ Vet(p) \/ Vetted(p)
           \/ CreateBoard(p) \/ BoardsDone(p) \/ RegistryFails(p)
    PROVE  RunInv'
<1>0. UNCHANGED <<issue, card, queued, orphans>>
  BY DEF Sweep, Heal, Ensure, Provisioned, Registry, Vet, Vetted, CreateBoard, BoardsDone, RegistryFails,
         People, Store
<1>t. /\ run[p] \in Runs /\ (run[p].held => run[p].scope \in Scopes)
      /\ queued \subseteq Scopes /\ orphans \subseteq Scopes
  BY DEF RunInv, RunTypes
<1>c. Calm
  BY <1>0, <1>t, CalmWhenAlone
<1>a. ASSUME NEW a \in Runs, a.held = run[p].held, a.scope = run[p].scope, a.pc \notin LatePhases,
             run' = [run EXCEPT ![p] = a]
      PROVE  RunInv'
  <2>1. Becomes(p, a)
    BY <1>a, <1>t DEF Becomes, LatePhases
  <2>2. QED
    BY <2>1, <1>a, <1>c, EarlyKeeps
<1>r. ASSUME NEW pc \in {"skip", "requeue"}, Raise(p, pc)
      PROVE  RunInv'
  BY <1>r, <1>c, RaiseKeeps
<1>e. ASSUME NEW a, a \in Runs, a.held = run[p].held, a.scope = run[p].scope,
             a.pc \in {"checkouts", "registry", "vet", "boards", "select"},
             run' = [run EXCEPT ![p] = a]
      PROVE  RunInv'
  BY <1>e, <1>a DEF LatePhases
<1>1. CASE Sweep(p)
  <2>1. PICK a : a = [run[p] EXCEPT !.pc = "checkouts", !.todo = {r \in Repos : checkout[r] = "missing"}]
    OBVIOUS
  <2>2. a \in Runs /\ a.held = run[p].held /\ a.scope = run[p].scope /\ a.pc = "checkouts"
    BY <2>1, <1>t DEF Runs, Phases
  <2>3. QED
    BY <1>1, <2>1, <2>2, <1>e DEF Sweep, Set
\* One repository moves from the list to those served, or to those skipped.
<1>m. ASSUME NEW r \in Repos, run[p].pc = "checkouts",
             \/ run' = [run EXCEPT ![p] = [run[p] EXCEPT !.ok = @ \union {r}, !.todo = @ \ {r}]]
             \/ Set(p, Skip(p, r, "skip")) \/ Set(p, Skip(p, r, "requeue"))
      PROVE  RunInv'
  <2>1. PICK a : /\ \/ a = [run[p] EXCEPT !.ok = run[p].ok \union {r}, !.todo = run[p].todo \ {r}]
                    \/ a = [run[p] EXCEPT !.perm = run[p].perm \union {r}, !.todo = run[p].todo \ {r}]
                    \/ a = [run[p] EXCEPT !.fail = run[p].fail \union {r}, !.todo = run[p].todo \ {r}]
                 /\ run' = [run EXCEPT ![p] = a]
    BY <1>m DEF Set, Skip
  <2>2. a \in Runs /\ a.held = run[p].held /\ a.scope = run[p].scope /\ a.pc = "checkouts"
    <3>1. CASE a = [run[p] EXCEPT !.ok = run[p].ok \union {r}, !.todo = run[p].todo \ {r}]
      BY <3>1, <1>m, <1>t DEF Runs
    <3>2. CASE a = [run[p] EXCEPT !.perm = run[p].perm \union {r}, !.todo = run[p].todo \ {r}]
      BY <3>2, <1>m, <1>t DEF Runs
    <3>3. CASE a = [run[p] EXCEPT !.fail = run[p].fail \union {r}, !.todo = run[p].todo \ {r}]
      BY <3>3, <1>m, <1>t DEF Runs
    <3>4. QED
      BY <2>1, <3>1, <3>2, <3>3
  <2>3. QED
    BY <2>1, <2>2, <1>e
<1>2. CASE Heal(p)
  <2>1. PICK r \in run[p].todo \intersect ReadyNow :
               \/ run' = [run EXCEPT ![p] = [run[p] EXCEPT !.ok = @ \union {r}, !.todo = @ \ {r}]]
               \/ Unusable(p, r)
    BY <1>2 DEF Heal, Set
  <2>2. r \in Repos /\ run[p].pc = "checkouts"
    BY <1>2, <1>t DEF Heal, At, Runs
  <2>3. QED
    BY <2>1, <2>2, <1>m DEF Unusable
<1>3. CASE Ensure(p)
  <2>1. PICK r \in run[p].todo :
               \/ run' = [run EXCEPT ![p] = [run[p] EXCEPT !.ok = @ \union {r}, !.todo = @ \ {r}]]
               \/ Unusable(p, r)
    BY <1>3 DEF Ensure, Set
  <2>2. r \in Repos /\ run[p].pc = "checkouts"
    BY <1>3, <1>t DEF Ensure, At, Runs
  <2>3. QED
    BY <2>1, <2>2, <1>m DEF Unusable
<1>4. CASE Provisioned(p)
  <2>1. CASE Set(p, Idle)
    BY <2>1, <1>c, IdleRun, EarlyKeeps DEF Becomes, Set
  <2>2. CASE run' = [run EXCEPT ![p] = [run[p] EXCEPT !.pc = "registry"]]
    <3>1. PICK a : a = [run[p] EXCEPT !.pc = "registry"]
      OBVIOUS
    <3>2. a \in Runs /\ a.held = run[p].held /\ a.scope = run[p].scope /\ a.pc = "registry"
      BY <3>1, <1>t DEF Runs, Phases
    <3>3. QED
      BY <2>2, <3>1, <3>2, <1>e
  <2>3. QED
    BY <1>4, <2>1, <2>2, <1>r DEF Provisioned, Set
<1>5. CASE Registry(p)
  <2>1. PICK T \in SUBSET Repos :
          run' = [run EXCEPT ![p] = [run[p] EXCEPT !.pc = "vet", !.todo = T, !.made = {}, !.ready = ReadyNow]]
    <3>1. Bootstrap \subseteq Repos
      BY DEF Bootstrap
    <3>2. QED
      BY <1>5, <3>1 DEF Registry, Set
  <2>2. PICK a : a = [run[p] EXCEPT !.pc = "vet", !.todo = T, !.made = {}, !.ready = ReadyNow]
    OBVIOUS
  <2>3. a \in Runs /\ a.held = run[p].held /\ a.scope = run[p].scope /\ a.pc = "vet"
    BY <2>2, <1>t DEF Runs, Phases, ReadyNow
  <2>4. QED
    BY <2>1, <2>2, <2>3, <1>e
<1>6. CASE Vet(p)
  <2>1. CASE Raise(p, "skip")
    BY <2>1, <1>r
  <2>2. ASSUME NEW r \in run[p].todo,
               run' = [run EXCEPT ![p] = [run[p] EXCEPT !.made = @ \union {r}, !.todo = @ \ {r}]]
        PROVE  RunInv'
    <3>1. PICK a : a = [run[p] EXCEPT !.made = run[p].made \union {r}, !.todo = run[p].todo \ {r}]
      OBVIOUS
    <3>2. a \in Runs /\ a.held = run[p].held /\ a.scope = run[p].scope /\ a.pc = "vet"
      BY <3>1, <1>6, <1>t DEF Vet, At, Runs, Phases
    <3>3. QED
      BY <2>2, <3>1, <3>2, <1>e
  <2>3. QED
    BY <1>6, <2>1, <2>2 DEF Vet, Set
<1>7. CASE Vetted(p)
  <2>1. PICK a : a = [run[p] EXCEPT !.pc = "boards", !.todo = run[p].made, !.made = {}]
    OBVIOUS
  <2>2. a \in Runs /\ a.held = run[p].held /\ a.scope = run[p].scope /\ a.pc = "boards"
    BY <2>1, <1>t DEF Runs, Phases
  <2>3. QED
    BY <1>7, <2>1, <2>2, <1>e DEF Vetted, Set
<1>8. CASE CreateBoard(p)
  <2>1. CASE Raise(p, "skip")
    BY <2>1, <1>r
  <2>2. ASSUME NEW r \in run[p].todo, NEW M \in SUBSET Repos,
               run' = [run EXCEPT ![p] = [run[p] EXCEPT !.made = M, !.todo = run[p].todo \ {r}]]
        PROVE  RunInv'
    <3>1. PICK a : a = [run[p] EXCEPT !.made = M, !.todo = run[p].todo \ {r}]
      OBVIOUS
    <3>2. a \in Runs /\ a.held = run[p].held /\ a.scope = run[p].scope /\ a.pc = "boards"
      BY <3>1, <1>8, <1>t DEF CreateBoard, At, Runs, Phases
    <3>3. QED
      BY <2>2, <3>1, <3>2, <1>e
  <2>3. ASSUME NEW r \in run[p].todo,
               run' = [run EXCEPT ![p] = [run[p] EXCEPT !.made = @ \union {r}, !.todo = @ \ {r}]]
        PROVE  RunInv'
    <3>1. run[p].made \union {r} \in SUBSET Repos
      BY <1>t DEF Runs
    <3>2. QED
      BY <2>2, <2>3, <3>1
  <2>4. ASSUME NEW r \in run[p].todo, run' = [run EXCEPT ![p] = [run[p] EXCEPT !.todo = @ \ {r}]]
        PROVE  RunInv'
    <3>1. [run[p] EXCEPT !.todo = @ \ {r}] = [run[p] EXCEPT !.made = run[p].made, !.todo = run[p].todo \ {r}]
      BY <1>t DEF Runs
    <3>2. run[p].made \in SUBSET Repos
      BY <1>t DEF Runs
    <3>3. QED
      BY <2>2, <2>4, <3>1, <3>2
  <2>5. QED
    BY <1>8, <2>1, <2>3, <2>4 DEF CreateBoard, Set
<1>9. CASE BoardsDone(p)
  <2>1. PICK R \in SUBSET Repos :
          run' = [run EXCEPT ![p] = [run[p] EXCEPT !.pc = "select", !.ok = {}, !.made = {}, !.ready = R]]
    <3>1. ReadyNow \subseteq Repos /\ run[p].ready \subseteq Repos
      BY <1>t DEF ReadyNow, Runs
    <3>2. QED
      BY <1>9, <3>1 DEF BoardsDone, Set
  <2>2. PICK a : a = [run[p] EXCEPT !.pc = "select", !.ok = {}, !.made = {}, !.ready = R]
    OBVIOUS
  <2>3. a \in Runs /\ a.held = run[p].held /\ a.scope = run[p].scope /\ a.pc = "select"
    BY <2>2, <1>t DEF Runs, Phases
  <2>4. QED
    BY <2>1, <2>2, <2>3, <1>e
<1>10. CASE RegistryFails(p)
  BY <1>10, <1>r DEF RegistryFails
<1>11. QED
  BY <1>1, <1>2, <1>3, <1>4, <1>5, <1>6, <1>7, <1>8, <1>9, <1>10

\* A wake's repositories are selected or skipped for good; a sweep takes those that are ready.
LEMMA SelectKeeps ==
    ASSUME RunInv, NEW p \in Procs, Select(p)
    PROVE  RunInv'
<1>t. /\ run[p] \in Runs /\ (run[p].held => run[p].scope \in Scopes) /\ run[p].scope.repos \in SUBSET Repos
      /\ queued \subseteq Scopes /\ orphans \subseteq Scopes
  BY DEF RunInv, RunTypes, Runs, Kinds, Scopes, Event, Full
<1>c. Calm
  BY <1>t, CalmWhenAlone DEF Select, People, Store
<1> DEFINE wanted == run[p].scope.repos \ run[p].perm
           unready == wanted \ run[p].ready
           conflict == {r \in unready : board[r] = "foreign"}
<1>1. CASE Mode(p) \in {"full", "none"}
           /\ run' = [run EXCEPT ![p] = [run[p] EXCEPT !.pc = "cleanup", !.sel = run[p].ready, !.todo = run[p].ready]]
  <2>1. PICK a : a = [run[p] EXCEPT !.pc = "cleanup", !.sel = run[p].ready, !.todo = run[p].ready]
    OBVIOUS
  <2>2. /\ a \in Runs /\ a.held = run[p].held /\ a.scope = run[p].scope /\ a.pc = "cleanup"
        /\ a.sel = run[p].ready /\ a.ready = run[p].ready
    BY <2>1, <1>t DEF Runs, Phases
  <2>3. a.scope = Full \/ a.scope.repos = {}
    BY <1>1, <2>2 DEF Mode, Runs, Kinds, Scopes, Event, Full
  <2>4. Accounted(a)'
    BY <2>2, <2>3 DEF Accounted, DealtWith, InHand, NotReady, Covers
  <2>5. Becomes(p, a)
    BY <1>1, <1>t, <2>1, <2>2 DEF Becomes
  <2>6. QED
    BY <2>4, <2>5, <1>c, BecomesKeeps
<1>2. CASE /\ Mode(p) \in {"event", "manual"} /\ unready \subseteq conflict
           /\ run' = [run EXCEPT ![p] = [run[p] EXCEPT !.pc = "cleanup", !.sel = wanted \ unready,
                                           !.todo = wanted \ unready, !.ready = {}, !.perm = @ \union conflict]]
  <2>0. /\ wanted \ unready \in SUBSET Repos /\ run[p].perm \union conflict \in SUBSET Repos
    BY <1>t DEF Runs
  <2>1. PICK a : a = [run[p] EXCEPT !.pc = "cleanup", !.sel = wanted \ unready, !.todo = wanted \ unready,
                                    !.ready = {}, !.perm = run[p].perm \union conflict]
    OBVIOUS
  <2>2. /\ a \in Runs /\ a.held = run[p].held /\ a.scope = run[p].scope /\ a.pc = "cleanup"
        /\ a.sel = wanted \ unready /\ a.perm = run[p].perm \union conflict
    BY <2>0, <2>1, <1>t DEF Runs, Phases
  <2>3. a.scope # Full
    BY <1>2, <2>2 DEF Mode, Full
  <2>4. \A r \in run[p].scope.repos : r \in a.perm \union a.sel
    BY <1>2, <2>2
  <2>5. Accounted(a)'
    BY <1>t, <2>2, <2>3, <2>4 DEF Accounted, DealtWith, InHand, NotReady, Covers
  <2>6. Becomes(p, a)
    BY <1>2, <1>t, <2>1, <2>2 DEF Becomes
  <2>7. QED
    BY <2>5, <2>6, <1>c, BecomesKeeps
<1>3. CASE Raise(p, "requeue")
  BY <1>3, <1>c, RaiseKeeps
<1>4. QED
  BY <1>1, <1>2, <1>3 DEF Select, Unready, Set

\* Closed Issues are cleared, candidates listed, and boards that are gone set aside.
LEMMA ListingSteps ==
    ASSUME RunInv, NEW p \in Procs, Cleanup(p) \/ List(p) \/ Slugs(p)
    PROVE  RunInv'
<1>t. /\ run[p] \in Runs /\ (run[p].held => run[p].scope \in Scopes)
      /\ queued \subseteq Scopes /\ orphans \subseteq Scopes
      /\ issue \in [Repos -> {"none", "ready", "merged", "closed"}]
      /\ Accounted(run[p])
  BY DEF RunInv, RunTypes
<1>c. Calm
  <2>1. UNCHANGED <<card, queued, orphans>>
    BY DEF Cleanup, List, Slugs, People, Store
  <2>2. issue' = issue \/ \E r \in Repos : issue' = [issue EXCEPT ![r] = "none"]
    BY <1>t DEF Cleanup, List, Slugs, People, Runs
  <2>3. QED
    BY <2>1, <2>2, <1>t DEF Calm
<1>k. \A r \in Repos : issue'[r] = "ready" => issue[r] = "ready"
  BY <1>c DEF Calm
<1>d. card' = card
  BY DEF Cleanup, List, Slugs, People
\* A phase that keeps its scope, skips and late Issues only has to keep what is in hand.
<1>a. ASSUME NEW a, a \in Runs, run' = [run EXCEPT ![p] = a], run[p].pc \in LatePhases,
             a.pc \in {"cleanup", "list", "slugs", "snapshot"},
             a.held = run[p].held, a.scope = run[p].scope, a.perm = run[p].perm, a.ready = run[p].ready,
             a.late = run[p].late, run[p].fail \subseteq a.fail,
             \A r \in InHand(run[p]) : issue'[r] = "ready" => r \in a.fail \union InHand(a)
      PROVE  RunInv'
  <2>1. Accounted(a)'
    BY <1>a, <1>t, <1>k, <1>d DEF Accounted, DealtWith, NotReady, Covers, InHand
  <2>2. Becomes(p, a)
    BY <1>a, <1>t DEF Becomes
  <2>3. QED
    BY <2>1, <2>2, <1>c, BecomesKeeps
<1>1. CASE Cleanup(p)
  <2>0. run[p].pc = "cleanup"
    BY <1>1 DEF Cleanup, At
  <2>1. ASSUME NEW T \in SUBSET Repos, NEW S \in SUBSET Repos,
               run' = [run EXCEPT ![p] = [run[p] EXCEPT !.todo = T, !.closing = S]]
        PROVE  RunInv'
    <3>1. PICK a : a = [run[p] EXCEPT !.todo = T, !.closing = S]
      OBVIOUS
    <3>2. a \in Runs /\ a.pc = "cleanup" /\ a.held = run[p].held /\ a.scope = run[p].scope
          /\ a.perm = run[p].perm /\ a.ready = run[p].ready /\ a.late = run[p].late /\ a.fail = run[p].fail
          /\ a.sel = run[p].sel
      BY <3>1, <2>0, <1>t DEF Runs
    <3>3. \A r \in InHand(run[p]) : r \in InHand(a)
      BY <2>0, <3>2 DEF InHand
    <3>4. QED
      BY <2>0, <2>1, <3>1, <3>2, <3>3, <1>a DEF LatePhases
  <2>2. ASSUME NEW r \in run[p].todo,
               run' = [run EXCEPT ![p] = [run[p] EXCEPT !.todo = @ \ {r},
                                            !.closing = IF issue[r] = "closed" THEN {r} ELSE {}]]
        PROVE  RunInv'
    <3>1. PICK S \in SUBSET Repos : S = IF issue[r] = "closed" THEN {r} ELSE {}
      BY <1>t DEF Runs
    <3>2. run[p].todo \ {r} \in SUBSET Repos
      BY <1>t DEF Runs
    <3>3. QED
      BY <2>1, <2>2, <3>1, <3>2
  <2>3. CASE run' = [run EXCEPT ![p] = [run[p] EXCEPT !.closing = {}]]
    <3>1. [run[p] EXCEPT !.closing = {}] = [run[p] EXCEPT !.todo = run[p].todo, !.closing = {}]
          /\ run[p].todo \in SUBSET Repos
      BY <1>t DEF Runs
    <3>2. QED
      BY <2>1, <2>3, <3>1
  <2>4. CASE run' = [run EXCEPT ![p] = [run[p] EXCEPT !.pc = "list", !.todo = run[p].sel]]
    <3>1. PICK a : a = [run[p] EXCEPT !.pc = "list", !.todo = run[p].sel]
      OBVIOUS
    <3>2. a \in Runs /\ a.pc = "list" /\ a.held = run[p].held /\ a.scope = run[p].scope
          /\ a.perm = run[p].perm /\ a.ready = run[p].ready /\ a.late = run[p].late /\ a.fail = run[p].fail
          /\ a.todo = run[p].sel
      BY <3>1, <2>0, <1>t DEF Runs, Phases
    <3>3. \A r \in InHand(run[p]) : r \in InHand(a)
      BY <2>0, <3>2 DEF InHand
    <3>4. QED
      BY <2>0, <2>4, <3>1, <3>2, <3>3, <1>a DEF LatePhases
  <2>5. QED
    BY <1>1, <2>2, <2>3, <2>4 DEF Cleanup, Set
<1>2. CASE List(p)
  <2>0. run[p].pc = "list" /\ issue' = issue
    BY <1>2 DEF List, At, People
  <2>1. ASSUME NEW r \in run[p].todo,
               run' = [run EXCEPT ![p] = [run[p] EXCEPT !.todo = @ \ {r},
                         !.cands = IF issue[r] \in {"ready", "merged"} THEN @ \union {r} ELSE @]]
        PROVE  RunInv'
    <3>1. PICK S \in SUBSET Repos :
             S = IF issue[r] \in {"ready", "merged"} THEN run[p].cands \union {r} ELSE run[p].cands
      BY <1>t DEF Runs
    <3>2. PICK a : a = [run[p] EXCEPT !.todo = run[p].todo \ {r}, !.cands = S]
      OBVIOUS
    <3>3. a \in Runs /\ a.pc = "list" /\ a.held = run[p].held /\ a.scope = run[p].scope
          /\ a.perm = run[p].perm /\ a.ready = run[p].ready /\ a.late = run[p].late /\ a.fail = run[p].fail
          /\ a.todo = run[p].todo \ {r} /\ a.cands = S
      BY <3>2, <2>0, <1>t DEF Runs
    <3>4. \A x \in InHand(run[p]) : issue'[x] = "ready" => x \in InHand(a)
      BY <2>0, <3>1, <3>3 DEF InHand
    <3>5. run' = [run EXCEPT ![p] = a]
      BY <2>1, <3>1, <3>2
    <3>6. QED
      BY <2>0, <3>3, <3>4, <3>5, <1>a DEF LatePhases
  <2>2. CASE run[p].todo = {} /\ run' = [run EXCEPT ![p] = [run[p] EXCEPT !.pc = "slugs"]]
    <3>1. PICK a : a = [run[p] EXCEPT !.pc = "slugs"]
      OBVIOUS
    <3>2. a \in Runs /\ a.pc = "slugs" /\ a.held = run[p].held /\ a.scope = run[p].scope
          /\ a.perm = run[p].perm /\ a.ready = run[p].ready /\ a.late = run[p].late /\ a.fail = run[p].fail
          /\ a.cands = run[p].cands
      BY <3>1, <2>0, <1>t DEF Runs, Phases
    <3>3. \A r \in InHand(run[p]) : r \in InHand(a)
      BY <2>0, <2>2, <3>2 DEF InHand
    <3>4. QED
      BY <2>0, <2>2, <3>1, <3>2, <3>3, <1>a DEF LatePhases
  <2>3. QED
    BY <1>2, <2>1, <2>2 DEF List, Set
<1>3. CASE Slugs(p)
  <2>0. run[p].pc = "slugs" /\ issue' = issue
    BY <1>3 DEF Slugs, At, People
  <2>1. CASE Raise(p, "requeue")
    BY <2>1, <1>c, RaiseKeeps
  <2>2. ASSUME NEW gone \in SUBSET Repos,
               run' = [run EXCEPT ![p] = [run[p] EXCEPT !.pc = "snapshot", !.fail = @ \union gone,
                         !.sel = @ \ gone, !.cands = @ \ gone, !.todo = run[p].cands \ gone]]
        PROVE  RunInv'
    <3>1. PICK a : a = [run[p] EXCEPT !.pc = "snapshot", !.fail = run[p].fail \union gone,
                         !.sel = run[p].sel \ gone, !.cands = run[p].cands \ gone, !.todo = run[p].cands \ gone]
      OBVIOUS
    <3>2. a \in Runs /\ a.pc = "snapshot" /\ a.held = run[p].held /\ a.scope = run[p].scope
          /\ a.perm = run[p].perm /\ a.ready = run[p].ready /\ a.late = run[p].late
          /\ a.fail = run[p].fail \union gone /\ a.cands = run[p].cands \ gone
      BY <3>1, <2>0, <1>t DEF Runs, Phases
    <3>3. \A r \in InHand(run[p]) : r \in a.fail \union InHand(a)
      BY <2>0, <3>2 DEF InHand
    <3>4. QED
      BY <2>0, <2>2, <3>1, <3>2, <3>3, <1>a DEF LatePhases
  <2>3. PICK gone \in SUBSET Repos : gone = {r \in run[p].sel : board[r] = "missing"}
    BY <1>t DEF Runs
  <2>4. QED
    BY <1>3, <2>1, <2>2, <2>3 DEF Slugs, Set
<1>4. QED
  BY <1>1, <1>2, <1>3

\* The candidates' checkouts are read, cards made, boards passed over, and the run draws its conclusion.
LEMMA ImportingSteps ==
    ASSUME RunInv, NEW p \in Procs, Snapshot(p) \/ Import(p) \/ Sync(p) \/ Finish(p) \/ CallFails(p)
    PROVE  RunInv'
<1>t. /\ run[p] \in Runs /\ (run[p].held => run[p].scope \in Scopes)
      /\ queued \subseteq Scopes /\ orphans \subseteq Scopes
      /\ issue \in [Repos -> {"none", "ready", "merged", "closed"}]
      /\ Accounted(run[p])
  BY DEF RunInv, RunTypes
<1>c. Calm
  <2>1. card \subseteq card' /\ UNCHANGED <<queued, orphans>>
    BY DEF Snapshot, Import, Sync, Finish, CallFails, People, Store
  <2>2. issue' = issue \/ \E r \in Repos : issue' = [issue EXCEPT ![r] = "none"]
    BY <1>t DEF Snapshot, Import, Sync, Finish, CallFails, People, Runs
  <2>3. QED
    BY <2>1, <2>2, <1>t DEF Calm
<1>k. /\ \A r \in Repos : issue'[r] = "ready" => issue[r] = "ready"
      /\ card \subseteq card'
  BY <1>c DEF Calm
\* A phase that keeps its scope and late Issues keeps count of what was in hand.
<1>a. ASSUME NEW a, a \in Runs, run' = [run EXCEPT ![p] = a], run[p].pc \in LatePhases,
             a.pc \in {"snapshot", "import", "sync", "finish"},
             a.held = run[p].held, a.scope = run[p].scope, a.ready = run[p].ready, a.late = run[p].late,
             run[p].perm \subseteq a.perm, run[p].fail \subseteq a.fail,
             \A r \in InHand(run[p]) :
                issue'[r] = "ready" => r \in card' \union a.perm \union a.fail \union InHand(a)
      PROVE  RunInv'
  <2>1. Accounted(a)'
    BY <1>a, <1>t, <1>k DEF Accounted, DealtWith, NotReady, Covers, InHand
  <2>2. Becomes(p, a)
    BY <1>a, <1>t DEF Becomes
  <2>3. QED
    BY <2>1, <2>2, <1>c, BecomesKeeps
<1>1. CASE Snapshot(p)
  <2>0. run[p].pc = "snapshot" /\ card' = card
    BY <1>1 DEF Snapshot, At
  <2>1. CASE Raise(p, "skip")
    BY <2>1, <1>c, RaiseKeeps
  <2>2. ASSUME NEW r \in run[p].todo, run' = [run EXCEPT ![p] = [run[p] EXCEPT !.todo = @ \ {r}]]
        PROVE  RunInv'
    <3>1. PICK a : a = [run[p] EXCEPT !.todo = run[p].todo \ {r}]
      OBVIOUS
    <3>2. a \in Runs /\ a.pc = "snapshot" /\ a.held = run[p].held /\ a.scope = run[p].scope
          /\ a.perm = run[p].perm /\ a.ready = run[p].ready /\ a.late = run[p].late /\ a.fail = run[p].fail
          /\ a.cands = run[p].cands
      BY <3>1, <2>0, <1>t DEF Runs
    <3>3. \A x \in InHand(run[p]) : x \in InHand(a)
      BY <2>0, <3>2 DEF InHand
    <3>4. QED
      BY <2>0, <2>2, <3>1, <3>2, <3>3, <1>a DEF LatePhases
  <2>3. ASSUME NEW r \in run[p].todo,
               run' = [run EXCEPT ![p] = [Skip(p, r, "skip") EXCEPT !.sel = @ \ {r}, !.cands = @ \ {r}]]
        PROVE  RunInv'
    <3>0. PICK b : b = [run[p] EXCEPT !.perm = run[p].perm \union {r}, !.todo = run[p].todo \ {r}]
      OBVIOUS
    <3>1. b \in Runs /\ b.pc = "snapshot" /\ b.held = run[p].held /\ b.scope = run[p].scope
          /\ b.perm = run[p].perm \union {r} /\ b.ready = run[p].ready /\ b.late = run[p].late /\ b.fail = run[p].fail
          /\ b.cands = run[p].cands
      BY <3>0, <2>0, <2>3, <1>t DEF Runs
    <3>2. PICK a : a = [b EXCEPT !.sel = b.sel \ {r}, !.cands = b.cands \ {r}]
      OBVIOUS
    <3>3. a \in Runs /\ a.pc = "snapshot" /\ a.held = run[p].held /\ a.scope = run[p].scope
          /\ a.perm = run[p].perm \union {r} /\ a.ready = run[p].ready /\ a.late = run[p].late /\ a.fail = run[p].fail
          /\ a.cands = run[p].cands \ {r}
      BY <3>1, <3>2 DEF Runs
    <3>4. \A x \in InHand(run[p]) : x \in a.perm \union InHand(a)
      BY <2>0, <3>3 DEF InHand
    <3>5. run' = [run EXCEPT ![p] = a]
      BY <2>3, <3>0, <3>2 DEF Skip
    <3>6. QED
      BY <2>0, <3>3, <3>4, <3>5, <1>a DEF LatePhases
  <2>4. CASE run' = [run EXCEPT ![p] = [run[p] EXCEPT !.pc = "import", !.todo = run[p].cands, !.cands = {}]]
    <3>1. PICK a : a = [run[p] EXCEPT !.pc = "import", !.todo = run[p].cands, !.cands = {}]
      OBVIOUS
    <3>2. a \in Runs /\ a.pc = "import" /\ a.held = run[p].held /\ a.scope = run[p].scope
          /\ a.perm = run[p].perm /\ a.ready = run[p].ready /\ a.late = run[p].late /\ a.fail = run[p].fail
          /\ a.todo = run[p].cands
      BY <3>1, <2>0, <1>t DEF Runs, Phases
    <3>3. \A x \in InHand(run[p]) : x \in InHand(a)
      BY <2>0, <3>2 DEF InHand
    <3>4. QED
      BY <2>0, <2>4, <3>1, <3>2, <3>3, <1>a DEF LatePhases
  <2>5. QED
    BY <1>1, <2>1, <2>2, <2>3, <2>4 DEF Snapshot, Set
<1>2. CASE Import(p)
  <2>0. run[p].pc = "import"
    BY <1>2 DEF Import, At
  <2>1. ASSUME NEW r \in run[p].todo, run' = [run EXCEPT ![p] = [run[p] EXCEPT !.todo = @ \ {r}]],
               r \in card' \/ issue'[r] # "ready"
        PROVE  RunInv'
    <3>1. PICK a : a = [run[p] EXCEPT !.todo = run[p].todo \ {r}]
      OBVIOUS
    <3>2. a \in Runs /\ a.pc = "import" /\ a.held = run[p].held /\ a.scope = run[p].scope
          /\ a.perm = run[p].perm /\ a.ready = run[p].ready /\ a.late = run[p].late /\ a.fail = run[p].fail
          /\ a.todo = run[p].todo \ {r}
      BY <3>1, <2>0, <1>t DEF Runs
    <3>3. \A x \in InHand(run[p]) : issue'[x] = "ready" => x \in card' \union InHand(a)
      BY <2>0, <2>1, <3>2 DEF InHand
    <3>4. QED
      BY <2>0, <2>1, <3>1, <3>2, <3>3, <1>a DEF LatePhases
  <2>2. CASE run[p].todo = {}
             /\ run' = [run EXCEPT ![p] = [run[p] EXCEPT !.pc = "sync", !.todo = run[p].sel, !.sel = {}]]
    <3>1. PICK a : a = [run[p] EXCEPT !.pc = "sync", !.todo = run[p].sel, !.sel = {}]
      OBVIOUS
    <3>2. a \in Runs /\ a.pc = "sync" /\ a.held = run[p].held /\ a.scope = run[p].scope
          /\ a.perm = run[p].perm /\ a.ready = run[p].ready /\ a.late = run[p].late /\ a.fail = run[p].fail
      BY <3>1, <2>0, <1>t DEF Runs, Phases
    <3>3. InHand(run[p]) = {}
      BY <2>0, <2>2 DEF InHand
    <3>4. QED
      BY <2>0, <2>2, <3>1, <3>2, <3>3, <1>a DEF LatePhases
  <2>3. ASSUME NEW r \in run[p].todo,
               IF issue[r] = "merged"
               THEN issue' = [issue EXCEPT ![r] = "none"] /\ UNCHANGED card
               ELSE card' = card \union {r} /\ UNCHANGED issue
        PROVE  r \in card' \/ issue'[r] # "ready"
    <3>1. r \in Repos
      BY <1>t DEF Runs
    <3>2. QED
      BY <2>3, <3>1, <1>t
  <2>4. QED
    BY <1>2, <2>1, <2>2, <2>3 DEF Import, Set
<1>3. CASE Sync(p)
  <2>0. run[p].pc = "sync"
    BY <1>3 DEF Sync, At
  <2>1. PICK a : a = [run[p] EXCEPT !.pc = "finish", !.todo = {}]
    OBVIOUS
  <2>2. a \in Runs /\ a.pc = "finish" /\ a.held = run[p].held /\ a.scope = run[p].scope
        /\ a.perm = run[p].perm /\ a.ready = run[p].ready /\ a.late = run[p].late /\ a.fail = run[p].fail
    BY <2>1, <2>0, <1>t DEF Runs, Phases
  <2>3. InHand(run[p]) = {}
    BY <2>0 DEF InHand
  <2>4. run' = [run EXCEPT ![p] = a]
    BY <1>3, <2>1 DEF Sync, Set
  <2>5. QED
    BY <2>0, <2>2, <2>3, <2>4, <1>a DEF LatePhases
<1>4. CASE Finish(p)
  <2>0. run[p].pc = "finish" /\ UNCHANGED <<issue, card>>
    BY <1>4 DEF Finish, At, People
  <2>1. CASE Raise(p, "requeue")
    BY <2>1, <1>c, RaiseKeeps
  <2>2. CASE run[p].fail = {} /\ Raise(p, "ack")
    <3>1. CASE run' = [run EXCEPT ![p] = Idle]
      BY <3>1, <1>c, IdleRun, EarlyKeeps DEF Becomes
    <3>2. CASE run' = [run EXCEPT ![p] = [Idle EXCEPT !.pc = "ack", !.scope = run[p].scope, !.held = run[p].held,
                                              !.perm = run[p].perm, !.ready = run[p].ready, !.late = run[p].late]]
      <4>1. PICK a : a = [Idle EXCEPT !.pc = "ack", !.scope = run[p].scope, !.held = run[p].held,
                                              !.perm = run[p].perm, !.ready = run[p].ready, !.late = run[p].late]
        OBVIOUS
      <4>2. a \in Runs /\ a.pc = "ack" /\ a.held = run[p].held /\ a.scope = run[p].scope
            /\ a.perm = run[p].perm /\ a.ready = run[p].ready /\ a.late = run[p].late /\ a.fail = {}
        BY <4>1, <1>t, IdleRun DEF Runs, Phases, Idle
      <4>3. InHand(run[p]) = {}
        BY <2>0 DEF InHand
      <4>4. Accounted(a)'
        BY <2>0, <2>2, <4>2, <4>3, <1>t DEF Accounted, DealtWith, NotReady, Covers, LatePhases
      <4>5. Becomes(p, a)
        BY <3>2, <4>1, <4>2, <1>t DEF Becomes
      <4>6. QED
        BY <4>4, <4>5, <1>c, BecomesKeeps
    <3>3. QED
      BY <2>2, <3>1, <3>2 DEF Raise, Set
  <2>3. QED
    BY <1>4, <2>1, <2>2 DEF Finish
<1>5. CASE CallFails(p)
  <2>1. CASE Raise(p, "requeue")
    BY <2>1, <1>c, RaiseKeeps
  <2>2. ASSUME NEW r \in run[p].todo, run[p].pc \in {"snapshot", "import", "sync"}, NEW S \in SUBSET Repos,
               run' = [run EXCEPT ![p] = [Skip(p, r, "requeue") EXCEPT !.cands = @ \ {r}, !.sel = S]]
        PROVE  RunInv'
    <3>0. PICK b : b = [run[p] EXCEPT !.fail = run[p].fail \union {r}, !.todo = run[p].todo \ {r}]
      OBVIOUS
    <3>1. b \in Runs /\ b.pc = run[p].pc /\ b.held = run[p].held /\ b.scope = run[p].scope
          /\ b.perm = run[p].perm /\ b.ready = run[p].ready /\ b.late = run[p].late
          /\ b.fail = run[p].fail \union {r} /\ b.cands = run[p].cands /\ b.todo = run[p].todo \ {r}
      BY <3>0, <2>2, <1>t DEF Runs
    <3>2. PICK a : a = [b EXCEPT !.cands = b.cands \ {r}, !.sel = S]
      OBVIOUS
    <3>3. a \in Runs /\ a.pc = run[p].pc /\ a.held = run[p].held /\ a.scope = run[p].scope
          /\ a.perm = run[p].perm /\ a.ready = run[p].ready /\ a.late = run[p].late
          /\ a.fail = run[p].fail \union {r} /\ a.cands = run[p].cands \ {r} /\ a.todo = run[p].todo \ {r}
      BY <3>1, <3>2 DEF Runs
    <3>4. \A x \in InHand(run[p]) : x \in a.fail \union InHand(a)
      BY <2>2, <3>3 DEF InHand
    <3>5. run' = [run EXCEPT ![p] = a]
      BY <2>2, <3>0, <3>2 DEF Skip
    <3>6. QED
      BY <2>2, <3>3, <3>4, <3>5, <1>a DEF LatePhases
  <2>3. ASSUME NEW r \in run[p].todo, run[p].pc \in {"snapshot", "import", "sync"},
               run' = [run EXCEPT ![p] = [Skip(p, r, "requeue") EXCEPT !.cands = @ \ {r},
                                            !.sel = IF At(p, "snapshot") THEN @ \ {r} ELSE @]]
        PROVE  RunInv'
    <3>1. Skip(p, r, "requeue").sel = run[p].sel
      BY <1>t DEF Skip, Runs
    <3>2. PICK S \in SUBSET Repos : S = IF At(p, "snapshot") THEN run[p].sel \ {r} ELSE run[p].sel
      BY <1>t DEF Runs
    <3>3. QED
      BY <2>2, <2>3, <3>1, <3>2
  <2>4. QED
    BY <1>5, <2>1, <2>3 DEF CallFails, Set
<1>6. QED
  BY <1>1, <1>2, <1>3, <1>4, <1>5

\* Leases run out, people act, and the router asks for sweeps.  An Issue that becomes eligible is late
\* for every run under way.
LEMMA OutsideSteps ==
    ASSUME RunInv, Expire \/ AskSweep \/ \E r \in Repos : Request(r) \/ Interfere(r)
    PROVE  RunInv'
<1>t. /\ run \in [Procs -> Runs] /\ queued \subseteq Scopes /\ orphans \subseteq Scopes
      /\ issue \in [Repos -> {"none", "ready", "merged", "closed"}]
      /\ \A p \in Procs : /\ run[p].held => run[p].scope \in Scopes
                          /\ Accounted(run[p]) /\ (run[p].pc = "ack" => run[p].fail = {})
  BY DEF RunInv, RunTypes
<1>q. ASSUME run' = run, Calm
      PROVE  RunInv'
  <2>1. \A p \in Procs : Accounted(run[p])'
    BY <1>q, <1>t DEF Accounted, Calm, DealtWith, InHand, NotReady
  <2>2. RunTypes'
    BY <1>q, <1>t DEF RunTypes, Calm
  <2>3. QED
    BY <2>1, <2>2, <1>q, <1>t DEF RunInv
<1>1. ASSUME NEW p \in Procs, run[p].held, run' = [run EXCEPT ![p] = [run[p] EXCEPT !.held = FALSE]],
             queued' = queued \union {run[p].scope}, UNCHANGED <<issue, card, orphans>>
      PROVE  RunInv'
  <2>1. PICK a : a = [run[p] EXCEPT !.held = FALSE]
    OBVIOUS
  <2>2. /\ a \in Runs /\ a.held = FALSE /\ a.pc = run[p].pc /\ a.scope = run[p].scope /\ a.late = run[p].late
        /\ a.perm = run[p].perm /\ a.fail = run[p].fail /\ a.ready = run[p].ready /\ a.sel = run[p].sel
        /\ a.todo = run[p].todo /\ a.cands = run[p].cands
    <3>1. run[p] \in Runs
      BY <1>t
    <3>2. QED
      BY <2>1, <3>1 DEF Runs
  <2>3. Calm
    BY <1>1, <1>t, CalmWhenAlone
  <2>4. Accounted(a)'
    BY <2>2, <1>1, <1>t DEF Accounted, DealtWith, InHand, NotReady, Covers
  <2>5. Becomes(p, a)
    BY <1>1, <1>t, <2>1, <2>2 DEF Becomes
  <2>6. QED
    BY <2>3, <2>4, <2>5, BecomesKeeps
<1>2. CASE UNCHANGED <<issue, card, run>> /\ queued' = queued \union orphans /\ orphans' = {}
  BY <1>2, <1>t, <1>q, CalmWhenAlone
<1>3. CASE AskSweep
  <2>1. Full \in Scopes
    BY DEF Scopes
  <2>2. Calm
    BY <1>3, <2>1, <1>t, CalmWhenAlone DEF AskSweep, People
  <2>3. QED
    BY <1>3, <2>2, <1>q DEF AskSweep
<1>4. ASSUME NEW r \in Repos, Interfere(r)
      PROVE  RunInv'
  <2>1. Calm
    BY <1>4, <1>t DEF Interfere, Store, Calm
  <2>2. QED
    BY <1>4, <2>1, <1>q DEF Interfere
<1>5. ASSUME NEW r \in Repos, Request(r)
      PROVE  RunInv'
  <2>1. /\ issue' = [issue EXCEPT ![r] = "ready"] /\ UNCHANGED <<card, orphans>>
        /\ run' = [p \in Procs |-> IF At(p, "idle") THEN run[p] ELSE [run[p] EXCEPT !.late = @ \union {r}]]
    BY <1>5 DEF Request, Appears
  <2>2. queued' \subseteq Scopes
    <3>1. PICK S \in {T \in SUBSET Repos : r \in T} \union {{}} :
             queued' = IF S = {} THEN queued ELSE queued \union {Event(S)}
      BY <1>5 DEF Request
    <3>2. S # {} => Event(S) \in Scopes
      BY <3>1 DEF Scopes
    <3>3. QED
      BY <3>1, <3>2, <1>t
  <2>3. ASSUME NEW p \in Procs
        PROVE  /\ run'[p] \in Runs /\ (run'[p].held => run'[p].scope \in Scopes)
               /\ Accounted(run[p])' /\ (run'[p].pc = "ack" => run'[p].fail = {})
    <3>1. CASE run[p].pc = "idle" /\ run'[p] = run[p]
      BY <3>1, <1>t DEF Accounted, LatePhases
    <3>2. CASE run'[p] = [run[p] EXCEPT !.late = run[p].late \union {r}]
      <4>1. PICK a : a = [run[p] EXCEPT !.late = run[p].late \union {r}]
        OBVIOUS
      <4>2. /\ a \in Runs /\ a.held = run[p].held /\ a.pc = run[p].pc /\ a.scope = run[p].scope
            /\ a.late = run[p].late \union {r}
            /\ a.perm = run[p].perm /\ a.fail = run[p].fail /\ a.ready = run[p].ready /\ a.sel = run[p].sel
            /\ a.todo = run[p].todo /\ a.cands = run[p].cands
        BY <4>1, <1>t DEF Runs
      <4>3. Accounted(a)'
        BY <2>1, <4>2, <1>t DEF Accounted, DealtWith, InHand, NotReady, Covers
      <4>4. QED
        BY <3>2, <4>1, <4>2, <4>3, <1>t DEF Accounted, DealtWith, InHand, NotReady
    <3>3. QED
      BY <2>1, <3>1, <3>2 DEF At
  <2>4. RunTypes'
    <3>1. issue' \in [Repos -> {"none", "ready", "merged", "closed"}]
      BY <2>1, <1>t
    <3>2. run' \in [Procs -> Runs]
      BY <2>1, <2>3
    <3>3. QED
      BY <2>1, <2>2, <2>3, <3>1, <3>2, <1>t DEF RunTypes
  <2>5. QED
    BY <2>3, <2>4 DEF RunInv
<1>6. QED
  BY <1>1, <1>2, <1>3, <1>4, <1>5 DEF Expire, Set, People

\* The invariant holds when no run has begun.
LEMMA RunInitially == Init => RunInv
BY IdleRun DEF Init, RunInv, RunTypes, Accounted

\* The invariant is inductive.
LEMMA RunStep ==
    ASSUME RunInv, [Next]_vars
    PROVE  RunInv'
<1>1. CASE UNCHANGED vars
  BY <1>1 DEF vars, RunInv, RunTypes, Accounted, DealtWith, InHand, NotReady
<1>2. QED
  BY <1>1, StoreSteps, PreparingSteps, SelectKeeps, ListingSteps, ImportingSteps, OutsideSteps DEF Next, Steps

\* AckedWhenServed, for any repositories, processes, events and faults: what a scope named is accounted for
\* in every phase after the selection, and nothing is left in hand or failed when it is acknowledged.
THEOREM AcksAreEarned == Spec => AckedWhenServed
<1>1. RunInv =>
        [\A p \in Procs : Retired(p) /\ At(p, "ack") =>
           \A r \in Repos \ run[p].late :
             Covers(run[p].scope, r) /\ issue[r] = "ready" =>
               r \in card \union run[p].perm \union
                     (IF run[p].scope = Full THEN Repos \ run[p].ready ELSE {})]_vars
  BY DEF RunInv, Accounted, DealtWith, InHand, NotReady, LatePhases, At
<1>2. QED
  BY <1>1, RunInitially, RunStep, PTL DEF Spec, AckedWhenServed
-----------------------------------------------------------------------------
(* The bookkeeping of a run                                                 *)

\* Candidates are among the selected, and only a run with a scope comes to the transition of one.
Shape(a) ==
    /\ a.cands \subseteq a.sel
    /\ a.pc \notin {"list", "slugs", "snapshot"} => a.cands = {}
    /\ a.pc = "list" => a.todo \subseteq a.sel
    /\ a.pc \in {"ack", "skip", "requeue"} => a.scope \in Scopes

ShapeInv ==
    /\ \A p \in Procs : Shape(run[p])
    /\ card \subseteq Repos
    /\ checkout \in [Repos -> {"missing", "ok", "dirty"}]
    /\ board \in [Repos -> {"missing", "ok", "foreign"}]
    /\ events \in 0..MaxEvents /\ faults \in 0..MaxFaults

\* An exception leaves a run in shape: only one with a scope goes on to its transition.
LEMMA RaiseKeepsShape ==
    ASSUME RunInv, NEW p \in Procs, NEW pc \in {"ack", "skip", "requeue"}, Raise(p, pc)
    PROVE  Shape(run[p])' /\ \A q \in Procs \ {p} : run'[q] = run[q]
<1>1. run \in [Procs -> Runs] /\ run[p] \in Runs
  BY DEF RunInv, RunTypes
<1>2. CASE Scoped(p)
  <2>1. PICK a : a = [Idle EXCEPT !.pc = pc, !.scope = run[p].scope, !.held = run[p].held,
                                  !.perm = run[p].perm, !.ready = run[p].ready, !.late = run[p].late]
    OBVIOUS
  <2>2. run' = [run EXCEPT ![p] = a] /\ a.pc = pc /\ a.scope = run[p].scope /\ a.cands = {} /\ a.sel = {}
    BY <1>2, <2>1 DEF Raise, Set, Idle
  <2>3. run[p].scope \in Scopes
    BY <1>1, <1>2 DEF Scoped, Mode, Runs, Kinds
  <2>4. QED
    BY <1>1, <2>2, <2>3 DEF Shape
<1>3. CASE ~Scoped(p)
  BY <1>1, <1>3 DEF Raise, Set, Idle, Shape
<1>4. QED
  BY <1>2, <1>3

\* Every step of a run, and what may end it, leaves the run in shape and other runs alone.
LEMMA StepsKeepShape ==
    ASSUME RunInv, ShapeInv, NEW p \in Procs,
           \/ \E s \in queued : Claim(p, s)
           \/ Unclaimed(p) \/ Steps(p) \/ RegistryFails(p) \/ CallFails(p) \/ TransitionFails(p) \/ Crash(p)
    PROVE  Shape(run[p])' /\ \A q \in Procs \ {p} : run'[q] = run[q]
<1>t. /\ run \in [Procs -> Runs] /\ run[p] \in Runs /\ Shape(run[p])
      /\ queued \subseteq Scopes
  BY DEF RunInv, RunTypes, ShapeInv
<1>i. ASSUME run' = [run EXCEPT ![p] = Idle]
      PROVE  Shape(run[p])' /\ \A q \in Procs \ {p} : run'[q] = run[q]
  BY <1>i, <1>t DEF Idle, Shape
<1>r. ASSUME NEW pc \in {"ack", "skip", "requeue"}, Raise(p, pc)
      PROVE  Shape(run[p])' /\ \A q \in Procs \ {p} : run'[q] = run[q]
  BY <1>r, RaiseKeepsShape
<1>b. ASSUME NEW a, run' = [run EXCEPT ![p] = a], Shape(a)
      PROVE  Shape(run[p])' /\ \A q \in Procs \ {p} : run'[q] = run[q]
  BY <1>b, <1>t DEF Shape
\* Outside the phases that list, a run in shape has no candidates; other lists do not matter.
<1>e. ASSUME NEW a, run' = [run EXCEPT ![p] = a], a.cands = {},
             a.pc \notin {"list", "ack", "skip", "requeue"}
      PROVE  Shape(run[p])' /\ \A q \in Procs \ {p} : run'[q] = run[q]
  BY <1>e, <1>b DEF Shape
<1>1. CASE (\E s \in queued : Claim(p, s)) \/ Unclaimed(p)
  <2>1. ASSUME NEW s \in queued, Claim(p, s)
        PROVE  Shape(run[p])' /\ \A q \in Procs \ {p} : run'[q] = run[q]
    <3>1. PICK a : a = [Idle EXCEPT !.scope = s, !.held = TRUE, !.todo = s.repos,
                                    !.pc = IF s = Full THEN "sweep" ELSE "checkouts"]
      OBVIOUS
    <3>2. a.cands = {} /\ a.pc \in {"sweep", "checkouts"}
      BY <3>1 DEF Idle
    <3>3. run' = [run EXCEPT ![p] = a]
      BY <2>1, <3>1 DEF Claim, Set
    <3>4. QED
      BY <3>2, <3>3, <1>e
  <2>2. CASE Unclaimed(p)
    <3>1. PICK a : /\ Set(p, a)
                   /\ \/ a = [Idle EXCEPT !.pc = "registry"]
                      \/ \E r \in Repos : a = [Idle EXCEPT !.scope = [mode |-> "manual", repos |-> {r}],
                                                           !.todo = {r}, !.pc = "checkouts"]
      BY <2>2 DEF Unclaimed
    <3>2. a.cands = {} /\ a.pc \in {"registry", "checkouts"}
      BY <3>1 DEF Idle
    <3>3. run' = [run EXCEPT ![p] = a]
      BY <3>1 DEF Set
    <3>4. QED
      BY <3>2, <3>3, <1>e
  <2>3. QED
    BY <1>1, <2>1, <2>2
<1>g. CASE Registry(p)
  <2>1. PICK T : T = Bootstrap \intersect (IF Mode(p) \in {"full", "none"} THEN Repos ELSE run[p].ok)
    OBVIOUS
  <2>2. PICK a : a = [run[p] EXCEPT !.pc = "vet", !.todo = T, !.made = {}, !.ready = ReadyNow]
    OBVIOUS
  <2>3. run' = [run EXCEPT ![p] = a]
    BY <1>g, <2>1, <2>2 DEF Registry, Set
  <2>4. a.cands = {} /\ a.pc = "vet"
    BY <1>g, <2>2, <1>t DEF Registry, At, Shape, Runs
  <2>5. QED
    BY <2>3, <2>4, <1>e
<1>2. CASE Sweep(p) \/ Vetted(p) \/ BoardsDone(p) \/ Sync(p)
  <2>1. PICK a : /\ Set(p, a)
                 /\ \/ \E T : a = [run[p] EXCEPT !.pc = "checkouts", !.todo = T]
                    \/ a = [run[p] EXCEPT !.pc = "boards", !.todo = run[p].made, !.made = {}]
                    \/ \E R : a = [run[p] EXCEPT !.pc = "select", !.ok = {}, !.made = {}, !.ready = R]
                    \/ a = [run[p] EXCEPT !.pc = "finish", !.todo = {}]
    <3>1. CASE Sweep(p)
      <4>1. PICK T : T = {r \in Repos : checkout[r] = "missing"}
        OBVIOUS
      <4>2. Set(p, [run[p] EXCEPT !.pc = "checkouts", !.todo = T])
        BY <3>1, <4>1 DEF Sweep
      <4>3. QED
        BY <4>2
    <3>3. CASE Vetted(p)
      BY <3>3 DEF Vetted
    <3>4. CASE BoardsDone(p)
      <4>1. PICK R : R = IF run[p].made = {} THEN run[p].ready ELSE ReadyNow
        OBVIOUS
      <4>2. Set(p, [run[p] EXCEPT !.pc = "select", !.ok = {}, !.made = {}, !.ready = R])
        BY <3>4, <4>1 DEF BoardsDone
      <4>3. QED
        BY <4>2
    <3>5. CASE Sync(p)
      BY <3>5 DEF Sync
    <3>6. QED
      BY <1>2, <3>1, <3>3, <3>4, <3>5
  <2>2. run[p].cands = {}
    BY <1>2, <1>t DEF Sweep, Vetted, BoardsDone, Sync, At, Shape
  <2>3. a.cands = {} /\ a.pc \in {"checkouts", "vet", "boards", "select", "finish"}
    BY <2>1, <2>2, <1>t DEF Runs
  <2>4. run' = [run EXCEPT ![p] = a]
    BY <2>1 DEF Set
  <2>5. QED
    BY <2>3, <2>4, <1>e
\* A repository moves from one list to another, in a phase without candidates.
<1>s. ASSUME NEW r, NEW a, Set(p, a), run[p].pc \in {"checkouts", "vet", "boards"},
             \/ a = Skip(p, r, "skip") \/ a = Skip(p, r, "requeue")
             \/ a = [run[p] EXCEPT !.ok = @ \union {r}, !.todo = @ \ {r}]
             \/ a = [run[p] EXCEPT !.made = @ \union {r}, !.todo = @ \ {r}]
             \/ a = [run[p] EXCEPT !.todo = @ \ {r}]
      PROVE  Shape(run[p])' /\ \A q \in Procs \ {p} : run'[q] = run[q]
  <2>1. a.cands = run[p].cands /\ a.pc = run[p].pc
    BY <1>s, <1>t DEF Runs, Skip
  <2>2. a.cands = {} /\ a.pc \notin {"list", "ack", "skip", "requeue"}
    BY <1>s, <2>1, <1>t DEF Shape
  <2>3. run' = [run EXCEPT ![p] = a]
    BY <1>s DEF Set
  <2>4. QED
    BY <2>2, <2>3, <1>e
<1>3. CASE Heal(p) \/ Ensure(p)
  <2>1. run[p].pc = "checkouts"
    BY <1>3 DEF Heal, Ensure, At
  <2>2. PICK r, a : /\ Set(p, a)
                    /\ \/ a = Skip(p, r, "skip") \/ a = Skip(p, r, "requeue")
                       \/ a = [run[p] EXCEPT !.ok = @ \union {r}, !.todo = @ \ {r}]
    BY <1>3 DEF Heal, Ensure, Unusable
  <2>3. QED
    BY <2>1, <2>2, <1>s
<1>4. CASE Provisioned(p)
  <2>1. CASE Set(p, [run[p] EXCEPT !.pc = "registry"])
    BY <1>4, <2>1, <1>t DEF Provisioned, At, Set, Shape, Runs
  <2>2. CASE Set(p, Idle)
    BY <2>2, <1>i DEF Set
  <2>3. CASE Raise(p, "requeue")
    BY <2>3, <1>r
  <2>4. QED
    BY <1>4, <2>1, <2>2, <2>3 DEF Provisioned
<1>5. CASE Vet(p) \/ CreateBoard(p)
  <2>1. run[p].pc \in {"vet", "boards"}
    BY <1>5 DEF Vet, CreateBoard, At
  <2>2. \/ Raise(p, "skip")
        \/ \E r, a : /\ Set(p, a)
                    /\ \/ a = [run[p] EXCEPT !.made = @ \union {r}, !.todo = @ \ {r}]
                       \/ a = [run[p] EXCEPT !.todo = @ \ {r}]
    BY <1>5 DEF Vet, CreateBoard
  <2>3. QED
    BY <2>1, <2>2, <1>s, <1>r
<1>6. CASE Select(p)
  <2>1. CASE Raise(p, "requeue")
    BY <2>1, <1>r
  <2>2. ASSUME NEW S, NEW T, NEW R, NEW P,
               \/ Set(p, [run[p] EXCEPT !.pc = "cleanup", !.sel = S, !.todo = T])
               \/ Set(p, [run[p] EXCEPT !.pc = "cleanup", !.sel = S, !.todo = T, !.ready = R, !.perm = P])
        PROVE  Shape(run[p])' /\ \A q \in Procs \ {p} : run'[q] = run[q]
    <3>1. PICK a : /\ Set(p, a)
                   /\ \/ a = [run[p] EXCEPT !.pc = "cleanup", !.sel = S, !.todo = T]
                      \/ a = [run[p] EXCEPT !.pc = "cleanup", !.sel = S, !.todo = T, !.ready = R, !.perm = P]
      BY <2>2
    <3>2. a.cands = run[p].cands /\ a.pc = "cleanup"
      BY <3>1, <1>t DEF Runs
    <3>3. run[p].cands = {}
      BY <1>6, <1>t DEF Select, At, Shape
    <3>4. QED
      BY <3>1, <3>2, <3>3, <1>e DEF Set
  <2>3. QED
    BY <1>6, <2>1, <2>2 DEF Select
<1>7. CASE Cleanup(p)
  <2>1. PICK a : /\ Set(p, a)
                 /\ \/ \E r : a = [run[p] EXCEPT !.todo = @ \ {r},
                                                 !.closing = IF issue[r] = "closed" THEN {r} ELSE {}]
                    \/ a = [run[p] EXCEPT !.closing = {}]
                    \/ a = [run[p] EXCEPT !.pc = "list", !.todo = run[p].sel]
    BY <1>7 DEF Cleanup
  <2>2. run[p].pc = "cleanup" /\ run[p].cands = {}
    BY <1>7, <1>t DEF Cleanup, At, Shape
  <2>3. a.cands = {} /\ a.sel = run[p].sel /\ (a.pc = "cleanup" \/ (a.pc = "list" /\ a.todo = run[p].sel))
    BY <2>1, <2>2, <1>t DEF Runs
  <2>4. QED
    BY <2>1, <2>3, <1>b DEF Set, Shape
<1>8. CASE List(p)
  <2>1. PICK a : /\ Set(p, a)
                 /\ \/ \E r \in run[p].todo : \E cs \in {run[p].cands, run[p].cands \union {r}} :
                          a = [run[p] EXCEPT !.todo = @ \ {r}, !.cands = cs]
                    \/ a = [run[p] EXCEPT !.pc = "slugs"]
    BY <1>8 DEF List
  <2>2. run[p].pc = "list" /\ run[p].todo \subseteq run[p].sel /\ run[p].cands \subseteq run[p].sel
    BY <1>8, <1>t DEF List, At, Shape
  <2>3. a.sel = run[p].sel /\ a.cands \subseteq a.sel /\ a.todo \subseteq a.sel /\ a.pc \in {"list", "slugs"}
    <3>1. ASSUME NEW r \in run[p].todo, NEW cs \in {run[p].cands, run[p].cands \union {r}},
                 a = [run[p] EXCEPT !.todo = @ \ {r}, !.cands = cs]
          PROVE  a.sel = run[p].sel /\ a.cands \subseteq a.sel /\ a.todo \subseteq a.sel /\ a.pc \in {"list", "slugs"}
      <4>1. a.sel = run[p].sel /\ a.cands = cs /\ a.todo = run[p].todo \ {r} /\ a.pc = run[p].pc
        BY <3>1, <1>t DEF Runs
      <4>2. QED
        BY <4>1, <2>2
    <3>2. CASE a = [run[p] EXCEPT !.pc = "slugs"]
      BY <3>2, <2>2, <1>t DEF Runs
    <3>3. QED
      BY <2>1, <3>1, <3>2
  <2>4. QED
    BY <2>1, <2>3, <1>b DEF Set, Shape
<1>9. CASE Slugs(p)
  <2>1. CASE Raise(p, "requeue")
    BY <2>1, <1>r
  <2>2. ASSUME NEW G, Set(p, [run[p] EXCEPT !.pc = "snapshot", !.fail = @ \union G, !.sel = @ \ G,
                                            !.cands = @ \ G, !.todo = run[p].cands \ G])
        PROVE  Shape(run[p])' /\ \A q \in Procs \ {p} : run'[q] = run[q]
    <3>1. PICK a : a = [run[p] EXCEPT !.pc = "snapshot", !.fail = @ \union G, !.sel = @ \ G,
                                      !.cands = @ \ G, !.todo = run[p].cands \ G]
      OBVIOUS
    <3>2. a.pc = "snapshot" /\ a.sel = run[p].sel \ G /\ a.cands = run[p].cands \ G
      BY <3>1, <1>t DEF Runs
    <3>3. QED
      BY <2>2, <3>1, <3>2, <1>b, <1>t DEF Set, Shape
  <2>3. QED
    BY <1>9, <2>1, <2>2 DEF Slugs
\* A repository that failed leaves the candidates; in the snapshot it leaves the selected as well.
<1>f. ASSUME NEW r, NEW a, Set(p, a), run[p].pc \in {"snapshot", "import", "sync"}, NEW S,
             \/ a = [Skip(p, r, "skip") EXCEPT !.sel = S, !.cands = @ \ {r}]
             \/ a = [Skip(p, r, "requeue") EXCEPT !.cands = @ \ {r}, !.sel = S],
             S = IF run[p].pc = "snapshot" THEN run[p].sel \ {r} ELSE run[p].sel
      PROVE  Shape(run[p])' /\ \A q \in Procs \ {p} : run'[q] = run[q]
  <2>1. a.pc = run[p].pc /\ a.sel = S /\ a.cands = run[p].cands \ {r}
    BY <1>f, <1>t DEF Runs, Skip
  <2>2. QED
    BY <1>f, <2>1, <1>b, <1>t DEF Set, Shape
<1>10. CASE Snapshot(p)
  <2>0. run[p].pc = "snapshot"
    BY <1>10 DEF Snapshot, At
  <2>1. CASE Raise(p, "skip")
    BY <2>1, <1>r
  <2>2. ASSUME NEW r, Set(p, [run[p] EXCEPT !.todo = @ \ {r}])
        PROVE  Shape(run[p])' /\ \A q \in Procs \ {p} : run'[q] = run[q]
    <3>1. PICK a : a = [run[p] EXCEPT !.todo = @ \ {r}]
      OBVIOUS
    <3>2. a.pc = "snapshot" /\ a.sel = run[p].sel /\ a.cands = run[p].cands
      BY <2>0, <3>1, <1>t DEF Runs
    <3>3. QED
      BY <2>2, <3>1, <3>2, <1>b, <1>t DEF Set, Shape
  <2>3. ASSUME NEW r, Set(p, [Skip(p, r, "skip") EXCEPT !.sel = @ \ {r}, !.cands = @ \ {r}])
        PROVE  Shape(run[p])' /\ \A q \in Procs \ {p} : run'[q] = run[q]
    <3>1. PICK S : S = run[p].sel \ {r}
      OBVIOUS
    <3>2. PICK a : a = [Skip(p, r, "skip") EXCEPT !.sel = @ \ {r}, !.cands = @ \ {r}]
      OBVIOUS
    <3>3. a = [Skip(p, r, "skip") EXCEPT !.sel = S, !.cands = @ \ {r}]
      BY <3>1, <3>2, <1>t DEF Skip, Runs
    <3>4. QED
      BY <2>0, <2>3, <3>1, <3>2, <3>3, <1>f
  <2>4. CASE Set(p, [run[p] EXCEPT !.pc = "import", !.todo = run[p].cands, !.cands = {}])
    <3>1. PICK a : a = [run[p] EXCEPT !.pc = "import", !.todo = run[p].cands, !.cands = {}]
      OBVIOUS
    <3>2. a.pc = "import" /\ a.cands = {}
      BY <3>1, <1>t DEF Runs
    <3>3. QED
      BY <2>4, <3>1, <3>2, <1>e DEF Set
  <2>5. QED
    BY <1>10, <2>1, <2>2, <2>3, <2>4 DEF Snapshot
<1>11. CASE Import(p)
  <2>0. run[p].pc = "import" /\ run[p].cands = {}
    BY <1>11, <1>t DEF Import, At, Shape
  <2>1. PICK a : /\ Set(p, a)
                 /\ \/ \E r : a = [run[p] EXCEPT !.todo = @ \ {r}]
                    \/ a = [run[p] EXCEPT !.pc = "sync", !.todo = run[p].sel, !.sel = {}]
    BY <1>11 DEF Import
  <2>2. a.cands = {} /\ a.pc \in {"import", "sync"}
    BY <2>0, <2>1, <1>t DEF Runs
  <2>3. QED
    BY <2>1, <2>2, <1>e DEF Set
<1>12. CASE Finish(p) \/ RegistryFails(p)
  BY <1>12, <1>r DEF Finish, RegistryFails
<1>13. CASE CallFails(p)
  <2>1. CASE Raise(p, "requeue")
    BY <2>1, <1>r
  <2>3. CASE run[p].pc \in {"vet", "boards", "cleanup", "list", "slugs"} /\ Raise(p, "requeue")
    BY <2>1, <2>3
  <2>4. CASE ~(run[p].pc \in {"vet", "boards", "cleanup", "list", "slugs"} /\ Raise(p, "requeue"))
    <3>1. run[p].pc \in {"snapshot", "import", "sync"}
      BY <1>13, <2>4 DEF CallFails
    <3>2. \/ Raise(p, "requeue")
          \/ \E r, a : /\ Set(p, a)
                      /\ a = [Skip(p, r, "requeue") EXCEPT !.cands = @ \ {r},
                                                           !.sel = IF At(p, "snapshot") THEN @ \ {r} ELSE @]
      BY <1>13, <2>4 DEF CallFails
    <3>3. ASSUME NEW r, NEW a, Set(p, a),
                 a = [Skip(p, r, "requeue") EXCEPT !.cands = @ \ {r},
                                                   !.sel = IF At(p, "snapshot") THEN @ \ {r} ELSE @]
          PROVE  Shape(run[p])' /\ \A q \in Procs \ {p} : run'[q] = run[q]
      <4>1. PICK S : S = IF run[p].pc = "snapshot" THEN run[p].sel \ {r} ELSE run[p].sel
        OBVIOUS
      <4>2. a = [Skip(p, r, "requeue") EXCEPT !.cands = @ \ {r}, !.sel = S]
        BY <3>3, <4>1, <1>t DEF Skip, Runs, At
      <4>3. QED
        BY <3>1, <3>3, <4>1, <4>2, <1>f
    <3>4. CASE Raise(p, "requeue")
      BY <2>1, <3>4
    <3>5. CASE ~Raise(p, "requeue")
      <4>1. PICK r, a : /\ Set(p, a)
                        /\ a = [Skip(p, r, "requeue") EXCEPT !.cands = @ \ {r},
                                                             !.sel = IF At(p, "snapshot") THEN @ \ {r} ELSE @]
        BY <3>2, <3>5
      <4>2. QED
        BY <3>3, <4>1
    <3>6. QED
      BY <3>4, <3>5
  <2>5. QED
    BY <2>3, <2>4
<1>14. CASE Ack(p) \/ Requeue(p) \/ Crash(p)
  BY <1>14, <1>i DEF Ack, Requeue, Crash, Set
<1>15. CASE TransitionFails(p)
  <2>1. CASE Set(p, Idle)
    BY <2>1, <1>i DEF Set
  <2>2. ASSUME NEW lost, run[p].pc = "ack", Set(p, [run[p] EXCEPT !.pc = "requeue", !.held = @ /\ ~lost])
        PROVE  Shape(run[p])' /\ \A q \in Procs \ {p} : run'[q] = run[q]
    <3>1. PICK h : h = (run[p].held /\ ~lost)
      OBVIOUS
    <3>2. PICK a : a = [run[p] EXCEPT !.pc = "requeue", !.held = h]
      OBVIOUS
    <3>3. a.pc = "requeue" /\ a.scope = run[p].scope /\ a.cands = run[p].cands /\ a.sel = run[p].sel
      BY <3>2, <1>t DEF Runs
    <3>4. Shape(a)
      BY <2>2, <3>3, <1>t DEF Shape
    <3>5. run' = [run EXCEPT ![p] = a]
      BY <2>2, <3>1, <3>2 DEF Set
    <3>6. QED
      BY <3>4, <3>5, <1>b
  <2>3. QED
    BY <1>15, <2>1, <2>2 DEF TransitionFails, At
<1>16. QED
  BY <1>1, <1>2, <1>g, <1>3, <1>4, <1>5, <1>6, <1>7, <1>8, <1>9, <1>10, <1>11, <1>12, <1>13, <1>14, <1>15 DEF Steps

\* What a step of a run does to cards, checkouts, boards and faults.
LEMMA StepsKeepTypes ==
    ASSUME RunInv, ShapeInv, NEW p \in Procs,
           \/ \E s \in queued : Claim(p, s)
           \/ Unclaimed(p) \/ Steps(p) \/ RegistryFails(p) \/ CallFails(p) \/ TransitionFails(p) \/ Crash(p)
    PROVE  /\ card' \subseteq Repos
           /\ checkout' \in [Repos -> {"missing", "ok", "dirty"}]
           /\ board' \in [Repos -> {"missing", "ok", "foreign"}]
           /\ events' = events /\ faults' \in 0..MaxFaults
<1>t. /\ run[p] \in Runs /\ card \subseteq Repos
      /\ checkout \in [Repos -> {"missing", "ok", "dirty"}] /\ board \in [Repos -> {"missing", "ok", "foreign"}]
      /\ faults \in 0..MaxFaults /\ MaxFaults \in Nat
  BY IntakeRunAssumption DEF RunInv, RunTypes, ShapeInv
<1>f. Fault => faults' \in 0..MaxFaults
  BY <1>t DEF Fault
<1>1. CASE Ensure(p)
  <2>1. PICK r \in run[p].todo : checkout' \in {checkout, [checkout EXCEPT ![r] = "ok"]}
    BY <1>1 DEF Ensure, Unusable
  <2>2. UNCHANGED <<card, board, events>>
    BY <1>1 DEF Ensure
  <2>3. faults' = faults \/ Fault
    BY <1>1 DEF Ensure, Unusable
  <2>4. QED
    BY <2>1, <2>2, <2>3, <1>t, <1>f
<1>2. CASE CreateBoard(p)
  <2>1. PICK r : board' \in {board, [board EXCEPT ![r] = "ok"]}
    BY <1>2 DEF CreateBoard
  <2>2. UNCHANGED <<card, checkout, events, faults>>
    BY <1>2 DEF CreateBoard
  <2>3. QED
    BY <2>1, <2>2, <1>t
<1>3. CASE Import(p)
  <2>1. PICK r \in run[p].todo \union Repos : card' \in {card, card \union {r}}
    BY <1>3, IntakeRunAssumption DEF Import
  <2>2. UNCHANGED <<checkout, board, events, faults>>
    BY <1>3 DEF Import
  <2>3. r \in Repos
    BY <1>t DEF Runs
  <2>4. QED
    BY <2>1, <2>2, <2>3, <1>t
<1>4. CASE ~(Ensure(p) \/ CreateBoard(p) \/ Import(p))
  <2>1. UNCHANGED <<card, checkout, board, events>>
    BY <1>4 DEF Claim, Unclaimed, Steps, Sweep, Heal, Provisioned, Registry, Vet, Vetted, BoardsDone, Select, Cleanup,
       List, Slugs, Snapshot, Sync, Finish, Ack, Requeue, RegistryFails, CallFails, TransitionFails, Crash, People
  <2>2. faults' = faults \/ Fault
    BY <1>4 DEF Claim, Unclaimed, Steps, Sweep, Heal, Unusable, Provisioned, Registry, Vet, Vetted, BoardsDone, Select,
       Cleanup, List, Slugs, Snapshot, Sync, Finish, Ack, Requeue, RegistryFails, CallFails, TransitionFails, Crash
  <2>3. QED
    BY <2>1, <2>2, <1>t, <1>f
<1>5. QED
  BY <1>1, <1>2, <1>3, <1>4

\* The bookkeeping is kept by every step.
LEMMA ShapeStep ==
    ASSUME RunInv, ShapeInv, [Next]_vars
    PROVE  ShapeInv'
<1>t. /\ run \in [Procs -> Runs] /\ card \subseteq Repos /\ MaxEvents \in Nat /\ MaxFaults \in Nat
      /\ checkout \in [Repos -> {"missing", "ok", "dirty"}] /\ board \in [Repos -> {"missing", "ok", "foreign"}]
      /\ events \in 0..MaxEvents /\ faults \in 0..MaxFaults /\ \A p \in Procs : Shape(run[p])
  BY IntakeRunAssumption DEF RunInv, RunTypes, ShapeInv
<1>1. ASSUME NEW p \in Procs,
             \/ \E s \in queued : Claim(p, s)
             \/ Unclaimed(p) \/ Steps(p) \/ RegistryFails(p) \/ CallFails(p) \/ TransitionFails(p) \/ Crash(p)
      PROVE  ShapeInv'
  <2>1. Shape(run[p])' /\ \A q \in Procs \ {p} : run'[q] = run[q]
    BY <1>1, StepsKeepShape
  <2>2. \A q \in Procs \ {p} : Shape(run[q])'
    BY <2>1, <1>t DEF Shape
  <2>3. QED
    BY <1>1, <2>1, <2>2, <1>t, StepsKeepTypes DEF ShapeInv
<1>2. CASE Expire
  <2>1. UNCHANGED <<card, checkout, board, events>> /\ (faults' = faults \/ Fault)
    BY <1>2 DEF Expire, People
  <2>2. CASE \E p \in Procs : Set(p, [run[p] EXCEPT !.held = FALSE])
    <3>1. PICK p \in Procs : Set(p, [run[p] EXCEPT !.held = FALSE])
      BY <2>2
    <3>2. PICK a : a = [run[p] EXCEPT !.held = FALSE]
      OBVIOUS
    <3>3. Shape(a)
      <4>1. a.cands = run[p].cands /\ a.sel = run[p].sel /\ a.pc = run[p].pc /\ a.todo = run[p].todo
            /\ a.scope = run[p].scope
        BY <3>2, <1>t DEF Runs
      <4>2. QED
        BY <4>1, <1>t DEF Shape
    <3>4. run' = [run EXCEPT ![p] = a]
      BY <3>1, <3>2 DEF Set
    <3>5. \A q \in Procs : Shape(run'[q])
      BY <3>3, <3>4, <1>t
    <3>6. QED
      BY <2>1, <3>5, <1>t DEF ShapeInv, Shape, Fault
  <2>3. CASE run' = run
    BY <2>1, <2>3, <1>t DEF ShapeInv, Shape, Fault
  <2>4. QED
    BY <1>2, <2>2, <2>3 DEF Expire
<1>3. ASSUME NEW r \in Repos, Request(r)
      PROVE  ShapeInv'
  <2>1. \A q \in Procs : /\ run'[q].cands = run[q].cands /\ run'[q].sel = run[q].sel /\ run'[q].pc = run[q].pc
                         /\ run'[q].todo = run[q].todo /\ run'[q].scope = run[q].scope
    <3> SUFFICES ASSUME NEW q \in Procs
                 PROVE  /\ run'[q].cands = run[q].cands /\ run'[q].sel = run[q].sel /\ run'[q].pc = run[q].pc
                        /\ run'[q].todo = run[q].todo /\ run'[q].scope = run[q].scope
      OBVIOUS
    <3>1. run'[q] = run[q] \/ run'[q] = [run[q] EXCEPT !.late = @ \union {r}]
      BY <1>3 DEF Request, Appears
    <3>2. QED
      BY <3>1, <1>t DEF Runs
  <2>2. UNCHANGED <<card, checkout, board, faults>> /\ events' \in 0..MaxEvents
    BY <1>3, <1>t DEF Request, Happens
  <2>3. QED
    BY <2>1, <2>2, <1>t DEF ShapeInv, Shape
<1>4. ASSUME NEW r \in Repos, Interfere(r)
      PROVE  ShapeInv'
  <2>1. UNCHANGED <<card, run, faults>> /\ events' \in 0..MaxEvents
    BY <1>4, <1>t DEF Interfere, Happens
  <2>2. checkout' \in [Repos -> {"missing", "ok", "dirty"}]
    BY <1>4, <1>t DEF Interfere
  <2>3. board' \in [Repos -> {"missing", "ok", "foreign"}]
    BY <1>4, <1>t DEF Interfere
  <2>4. QED
    BY <2>1, <2>2, <2>3, <1>t DEF ShapeInv, Shape
<1>5. CASE AskSweep \/ UNCHANGED vars
  BY <1>5, <1>t DEF AskSweep, People, vars, ShapeInv, Shape
<1>6. QED
  BY <1>1, <1>2, <1>3, <1>4, <1>5 DEF Next

\* IntakeRun's type invariant, for any repositories, processes, events and faults: beside the types, the
\* candidates of a run are among its selected repositories, a run without a scope never comes to the
\* transition of one, and what a run holds the claim of is a scope.
THEOREM RunsKeepShape == Spec => []TypeOK
<1>1. RunInv /\ ShapeInv => TypeOK
  BY DEF RunInv, RunTypes, ShapeInv, Shape, Runs, TypeOK
<1>2. Init => ShapeInv
  <2>1. \A p \in Procs : Idle.cands = {} /\ Idle.sel = {} /\ Idle.pc = "idle"
    BY DEF Idle
  <2>2. QED
    BY <2>1, IntakeRunAssumption DEF Init, ShapeInv, Shape
<1>3. QED
  BY <1>1, <1>2, RunInitially, RunStep, ShapeStep, PTL DEF Spec
=============================================================================
