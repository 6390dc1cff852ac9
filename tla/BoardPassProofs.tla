--------------------------- MODULE BoardPassProofs ---------------------------
(***************************************************************************)
(* Proofs about a pass over the boards, Admission and Alerts, for any      *)
(* cards, boards, profiles, passes, intake processes and bounds.           *)
(* MCBoardPass, which this module extends, has the names of both.          *)
(***************************************************************************)
EXTENDS MCBoardPass, FiniteSetTheorems, WellFoundedInduction, TLAPS

-----------------------------------------------------------------------------
(* The inductive invariant of the gate                                      *)

CardRows == [status : {"ready", "running", "done"}, who : Profiles \union {Reserved},
             rework : BOOLEAN, bound : BOOLEAN]
RunRows == [who : Profiles \union {Reserved}, gated : BOOLEAN, pid : BOOLEAN, ended : BOOLEAN,
            live : BOOLEAN, slipped : BOOLEAN]
Pcs == {"idle", "look", "claim", "spawn", "record"}
Attempts == [pc : Pcs, card : Cards \union {NoCard}, gated : BOOLEAN]

GateTypes ==
    /\ card \in [Cards -> CardRows] /\ runs \in [Cards -> Seq(RunRows)]
    /\ backend \in [Profiles -> {"local", "cloud", "unknown"}]
    /\ proc \in [Procs -> Attempts]
    /\ \A p \in Procs : proc[p].pc # "idle" => proc[p].card \in Cards
    /\ \A p \in Procs : proc[p].pc = "look" => ~proc[p].gated

Running(c) == card[c].status = "running"
Last(c) == Len(runs[c])

\* A running card has a run.
RunningHasRun == \A c \in Cards : Running(c) => Last(c) # 0

\* A claim that waits for its worker is on record, and is one attempt's.
Spawning(p) == proc[p].pc \in {"spawn", "record"}
PendingIsRunning ==
    /\ \A p \in Procs : Spawning(p) => Running(proc[p].card) /\ ~Current(proc[p].card).pid
    /\ \A p, q \in Procs : Spawning(p) /\ Spawning(q) /\ proc[p].card = proc[q].card => p = q

\* The card the core has taken under its board's lock is still to be had.
CoreHasCard == proc[Core].pc \in {"look", "claim"} => card[proc[Core].card].status = "ready"

\* The resource has one holder.
OneHolder == \A p, q \in Procs : HoldsResource(p) /\ HoldsResource(q) => p = q

\* A run that has not slipped is one of a profile that is limited.
SlippedIsNoted ==
    \A c \in Cards : \A n \in 1..Len(runs[c]) : ~runs[c][n].slipped => Matches(runs[c][n].who)

\* What is held by what the gate let through, and who is about to add to it.
Held == {r \in Rows : /\ r[2] <= Len(runs[r[1]]) /\ Holds(r[1], r[2])
                      /\ runs[r[1]][r[2]].gated /\ ~runs[r[1]][r[2]].slipped}
Admitted(p) == proc[p].gated /\ proc[p].pc = "claim"

\* Whoever is about to add to it was let through to a slot that is still free.
SlotIsKept ==
    /\ Cardinality(Held) <= Capacity
    /\ (\E p \in Procs : Admitted(p)) => Cardinality(Held) < Capacity

GateInv ==
    /\ GateTypes /\ RunningHasRun /\ PendingIsRunning /\ CoreHasCard /\ OneHolder
    /\ SlippedIsNoted /\ SlotIsKept

-----------------------------------------------------------------------------
(* Lemmas on what the actions are made of                                   *)

\* A set of numbers that is not empty has a least one.
LEMMA LeastExists ==
    ASSUME NEW S, S \subseteq Nat, S # {}
    PROVE  \E x \in S : \A y \in S : x <= y
<1>1. PICK R : R = OpToRel(<, Nat)
  OBVIOUS
<1>2. IsWellFoundedOn(R, Nat)
  BY <1>1, NatLessThanWellFounded
<1>3. PICK x \in S : \A y \in S : ~ (<<y, x>> \in R)
  BY <1>2, WFMin
<1>4. \A y \in S : ~(y < x)
  BY <1>1, <1>3 DEF OpToRel
<1>5. QED
  BY <1>3, <1>4

\* A set of numbers up to a bound has a greatest one.
LEMMA GreatestExists ==
    ASSUME NEW N \in Nat, NEW S, S \subseteq 1..N, S # {}
    PROVE  \E x \in S : \A y \in S : y <= x
<1>1. PICK T : T = {N - y : y \in S}
  OBVIOUS
<1>2. T \subseteq Nat
  <2>1. \A y \in 1..N : N - y \in Nat
    OBVIOUS
  <2>2. QED
    BY <1>1, <2>1
<1>3. T # {}
  BY <1>1
<1>4. PICK t \in T : \A u \in T : t <= u
  BY <1>2, <1>3, LeastExists
<1>5. PICK x \in S : t = N - x
  BY <1>1, <1>4
<1>6. ASSUME NEW y \in S  PROVE y <= x
  <2>1. N - x <= N - y
    BY <1>1, <1>4, <1>5
  <2>2. x \in Nat /\ y \in Nat
    OBVIOUS
  <2>3. QED
    BY <2>1, <2>2
<1>7. QED
  BY <1>6

\* The oldest of some cards is one of them.
LEMMA FirstIsIn ==
    ASSUME NEW S, S \subseteq Cards, S # {}
    PROVE  First(S) \in S
<1>1. S \subseteq Nat
  BY AdmissionAssumption
<1>2. \E x \in S : \A y \in S : x <= y
  BY <1>1, LeastExists
<1>3. QED
  BY <1>2 DEF First

\* The rows are finitely many, and so is what is held.
LEMMA HeldIsFinite ==
    /\ IsFiniteSet(Held) /\ Cardinality(Held) \in Nat
    /\ \A S \in SUBSET Rows : IsFiniteSet(S) /\ Cardinality(S) \in Nat
<1>1. IsFiniteSet(Cards) /\ MaxRuns \in Nat
  BY AdmissionAssumption
<1>2. IsFiniteSet(1..MaxRuns)
  BY <1>1, FS_Interval
<1>3. IsFiniteSet(Rows)
  BY <1>1, <1>2, FS_Product DEF Rows
<1>4. ASSUME NEW S \in SUBSET Rows  PROVE IsFiniteSet(S) /\ Cardinality(S) \in Nat
  <2>1. IsFiniteSet(S)
    BY <1>3, <1>4, FS_Subset
  <2>2. QED
    BY <2>1, FS_CardinalityType
<1>5. QED
  BY <1>4 DEF Held

\* Fewer held slots are no more.
LEMMA HeldShrinks ==
    ASSUME Held' \subseteq Held
    PROVE  Cardinality(Held') <= Cardinality(Held) /\ Cardinality(Held') \in Nat
<1>1. IsFiniteSet(Held)
  BY HeldIsFinite
<1>2. QED
  BY <1>1, FS_Subset, FS_CardinalityType

\* One row more is one slot more.
LEMMA HeldGrows ==
    ASSUME NEW r, Held' \subseteq Held \union {r}
    PROVE  Cardinality(Held') <= Cardinality(Held) + 1 /\ Cardinality(Held') \in Nat
<1>1. IsFiniteSet(Held) /\ Cardinality(Held) \in Nat
  BY HeldIsFinite
<1>2. /\ IsFiniteSet(Held \union {r})
      /\ Cardinality(Held \union {r}) = IF r \in Held THEN Cardinality(Held) ELSE Cardinality(Held) + 1
  BY <1>1, FS_AddElement
<1>3. /\ Cardinality(Held') <= Cardinality(Held \union {r}) /\ IsFiniteSet(Held')
  BY <1>2, FS_Subset
<1>4. Cardinality(Held') \in Nat
  BY <1>3, FS_CardinalityType
<1>5. QED
  BY <1>1, <1>2, <1>3, <1>4

\* A step that lets nobody through and adds nothing to what is held keeps the slots.
LEMMA NothingClaimed ==
    ASSUME GateInv, GateTypes', RunningHasRun', PendingIsRunning', CoreHasCard', SlippedIsNoted',
           Held' \subseteq Held,
           \A p \in Procs : \/ proc'[p] = proc[p] \/ ~proc'[p].gated
                            \/ /\ proc[p].pc = "spawn" /\ proc'[p].pc = "record"
                               /\ proc'[p].gated = proc[p].gated
    PROVE  GateInv'
<1>1. \A p \in Procs : HoldsResource(p)' => HoldsResource(p)
  BY DEF HoldsResource
<1>2. OneHolder'
  BY <1>1 DEF GateInv, OneHolder, Procs
<1>3. \A p \in Procs : Admitted(p)' => Admitted(p)
  BY DEF Admitted
<1>4. SlotIsKept'
  BY <1>3, HeldShrinks, HeldIsFinite, AdmissionAssumption DEF GateInv, SlotIsKept, Procs
<1>5. QED
  BY <1>2, <1>4 DEF GateInv

\* The rows after one of them has changed.
LEMMA RowProperties ==
    ASSUME GateTypes, NEW c \in Cards, NEW n \in 1..Len(runs[c]), NEW r \in RunRows,
           runs' = [runs EXCEPT ![c][n] = r]
    PROVE  /\ runs' \in [Cards -> Seq(RunRows)]
           /\ \A d \in Cards : Len(runs'[d]) = Len(runs[d])
           /\ \A d \in Cards : d # c => runs'[d] = runs[d]
           /\ \A m \in 1..Len(runs[c]) : runs'[c][m] = IF m = n THEN r ELSE runs[c][m]
<1>1. runs \in [Cards -> Seq(RunRows)]
  BY DEF GateTypes
<1>2. PICK new : new = [runs[c] EXCEPT ![n] = r]
  OBVIOUS
<1>3. /\ new \in Seq(RunRows) /\ Len(new) = Len(runs[c])
      /\ \A m \in 1..Len(runs[c]) : new[m] = IF m = n THEN r ELSE runs[c][m]
  BY <1>1, <1>2
<1>4. runs' = [runs EXCEPT ![c] = new]
  BY <1>2
<1>5. QED
  BY <1>1, <1>3, <1>4

\* A row that changes keeps what is held, if it takes no worker up, forgets no PID, and its
\* card is not claimed by the step.
LEMMA RowStep ==
    ASSUME GateInv, NEW c \in Cards, NEW n \in 1..Len(runs[c]), NEW r \in RunRows,
           runs' = [runs EXCEPT ![c][n] = r], UNCHANGED backend,
           card' \in [Cards -> CardRows],
           \A d \in Cards : d # c => card'[d] = card[d], Running(c)' => Running(c),
           r.who = runs[c][n].who, r.gated = runs[c][n].gated, r.slipped = runs[c][n].slipped,
           r.live /\ r.pid => Holds(c, n), r.pid \/ ~runs[c][n].pid
    PROVE  /\ runs' \in [Cards -> Seq(RunRows)] /\ RunningHasRun' /\ SlippedIsNoted' /\ Held' \subseteq Held
           /\ \A d \in Cards : d # c => Current(d)' = Current(d)
           /\ Current(c)' = IF n = Len(runs[c]) THEN r ELSE Current(c)
<1>1. GateTypes
  BY DEF GateInv
<1>2. /\ runs' \in [Cards -> Seq(RunRows)]
      /\ \A d \in Cards : Len(runs'[d]) = Len(runs[d]) /\ Len(runs[d]) \in Nat
      /\ \A d \in Cards : d # c => runs'[d] = runs[d]
      /\ \A m \in 1..Len(runs[c]) : runs'[c][m] = IF m = n THEN r ELSE runs[c][m]
  BY <1>1, RowProperties DEF GateTypes
<1>3. RunningHasRun'
  BY <1>2 DEF GateInv, RunningHasRun, Running, Last
<1>4. SlippedIsNoted'
  BY <1>2 DEF GateInv, SlippedIsNoted, Matches
<1>5. ASSUME NEW s \in Held'  PROVE s \in Held
  <2>1. s \in Rows /\ s[1] \in Cards /\ s[2] \in 1..MaxRuns /\ s[2] \in 1..Len(runs[s[1]])
    BY <1>2, <1>5, AdmissionAssumption DEF Held, Rows
  <2>2. /\ Holds(s[1], s[2])' /\ runs'[s[1]][s[2]].gated /\ ~runs'[s[1]][s[2]].slipped
    BY <1>5 DEF Held
  <2>3. runs[s[1]][s[2]].gated /\ ~runs[s[1]][s[2]].slipped
    BY <1>2, <2>1, <2>2
  <2>4. Holds(s[1], s[2])
    <3>1. CASE s[1] # c
      BY <1>2, <2>1, <2>2, <3>1 DEF Holds, Reserving
    <3>2. CASE s[1] = c /\ s[2] = n
      BY <1>2, <2>1, <2>2, <3>2 DEF Holds, Reserving, Running
    <3>3. CASE s[1] = c /\ s[2] # n
      BY <1>2, <2>1, <2>2, <3>3 DEF Holds, Reserving, Running
    <3>4. QED
      BY <3>1, <3>2, <3>3
  <2>5. QED
    BY <2>1, <2>3, <2>4 DEF Held
<1>6. /\ \A d \in Cards : d # c => Current(d)' = Current(d)
      /\ Current(c)' = IF n = Len(runs[c]) THEN r ELSE Current(c)
  BY <1>2 DEF Current
<1>7. QED
  BY <1>2, <1>3, <1>4, <1>5, <1>6

\* The newest run of a card that runs is one of its rows.
LEMMA CurrentProperties ==
    ASSUME GateInv, NEW c \in Cards, Running(c)
    PROVE  /\ Len(runs[c]) \in 1..Len(runs[c]) /\ Current(c) \in RunRows
           /\ ~Current(c).pid => Holds(c, Len(runs[c]))
           /\ Current(c).live /\ Current(c).pid => Holds(c, Len(runs[c]))
<1>1. runs[c] \in Seq(RunRows) /\ Len(runs[c]) # 0
  BY DEF GateInv, GateTypes, RunningHasRun, Last
<1>2. Len(runs[c]) \in 1..Len(runs[c]) /\ Current(c) \in RunRows
  BY <1>1 DEF Current
<1>3. QED
  BY <1>2 DEF Current, Holds, Reserving, Running

\* A process that stops holds nothing and keeps the others' claims.
LEMMA StopProperties ==
    ASSUME GateInv, NEW p \in Procs, Stop(p)
    PROVE  /\ proc' \in [Procs -> Attempts]
           /\ \A q \in Procs : proc'[q].pc # "idle" => proc'[q].card \in Cards
           /\ proc'[p].pc = "idle" /\ ~proc'[p].gated
           /\ \A q \in Procs : q # p => proc'[q] = proc[q]
<1>1. proc \in [Procs -> Attempts] /\ proc' = [proc EXCEPT ![p] = Idle]
  BY DEF GateInv, GateTypes, Stop
<1>2. Idle \in Attempts /\ Idle.pc = "idle" /\ ~Idle.gated
  BY DEF Idle, Attempts, Pcs
<1>3. QED
  BY <1>1, <1>2 DEF GateInv, GateTypes

\* A process that goes on keeps its card and what it holds.
LEMMA GotoProperties ==
    ASSUME GateInv, NEW p \in Procs, NEW pc \in Pcs \ {"idle"}, Goto(p, pc), proc[p].pc # "idle"
    PROVE  /\ proc' \in [Procs -> Attempts]
           /\ \A q \in Procs : proc'[q].pc # "idle" => proc'[q].card \in Cards
           /\ proc'[p].pc = pc /\ proc'[p].gated = proc[p].gated /\ proc'[p].card = proc[p].card
           /\ \A q \in Procs : q # p => proc'[q] = proc[q]
<1>1. proc \in [Procs -> Attempts] /\ proc' = [proc EXCEPT ![p].pc = pc]
  BY DEF GateInv, GateTypes, Goto
<1>2. /\ proc' \in [Procs -> Attempts]
      /\ proc'[p].pc = pc /\ proc'[p].gated = proc[p].gated /\ proc'[p].card = proc[p].card
      /\ \A q \in Procs : q # p => proc'[q] = proc[q]
  BY <1>1 DEF Attempts
<1>3. QED
  BY <1>2 DEF GateInv, GateTypes

\* A step that touches neither cards nor runs keeps what is said of them.
LEMMA BoardsKeep ==
    ASSUME GateInv, UNCHANGED <<card, runs, backend>>
    PROVE  /\ RunningHasRun' /\ SlippedIsNoted' /\ Held' = Held
           /\ \A c \in Cards : Running(c)' = Running(c) /\ Current(c)' = Current(c)
BY DEF GateInv, RunningHasRun, SlippedIsNoted, Held, Holds, Reserving, Running, Current, Matches, Last

-----------------------------------------------------------------------------
(* Attempts that end, begin or are let through                              *)

\* An attempt ends without having changed anything (AdmitFails, GateUnreadable, Crash).
LEMMA StopStep ==
    ASSUME GateInv, NEW p \in Procs, Stop(p), UNCHANGED <<card, runs, backend>>
    PROVE  GateInv'
<1>1. /\ proc' \in [Procs -> Attempts]
      /\ \A q \in Procs : proc'[q].pc # "idle" => proc'[q].card \in Cards
      /\ proc'[p].pc = "idle" /\ ~proc'[p].gated
      /\ \A q \in Procs : q # p => proc'[q] = proc[q]
  BY StopProperties
<1>2. GateTypes'
  BY <1>1 DEF GateInv, GateTypes
<1>3. /\ RunningHasRun' /\ SlippedIsNoted' /\ Held' = Held
      /\ \A c \in Cards : Running(c)' = Running(c) /\ Current(c)' = Current(c)
  BY BoardsKeep
<1>4. PendingIsRunning'
  BY <1>1, <1>3 DEF GateInv, GateTypes, PendingIsRunning, Spawning
<1>5. CoreHasCard'
  BY <1>1 DEF GateInv, CoreHasCard, Procs
<1>6. QED
  BY <1>1, <1>2, <1>3, <1>4, <1>5, NothingClaimed

\* The core takes a board and a ready card of it (CoreLooks).
LEMMA CoreLooksStep ==
    ASSUME GateInv, CoreLooks
    PROVE  GateInv'
<1>1. PICK c \in Cards :
        /\ card[c].status = "ready"
        /\ proc' = [proc EXCEPT ![Core] = [pc |-> "look", card |-> c, gated |-> FALSE]]
  BY DEF CoreLooks
<1>2. UNCHANGED <<card, runs, backend>> /\ Core \in Procs
  BY DEF CoreLooks, World, Procs
<1>3. [pc |-> "look", card |-> c, gated |-> FALSE] \in Attempts
  BY DEF Attempts, Pcs
<1>4. /\ proc' \in [Procs -> Attempts] /\ proc'[Core].pc = "look" /\ proc'[Core].card = c
      /\ ~proc'[Core].gated /\ \A q \in Procs : q # Core => proc'[q] = proc[q]
  BY <1>1, <1>2, <1>3 DEF GateInv, GateTypes
<1>5. GateTypes'
  BY <1>2, <1>4 DEF GateInv, GateTypes
<1>6. /\ RunningHasRun' /\ SlippedIsNoted' /\ Held' = Held
      /\ \A d \in Cards : Running(d)' = Running(d) /\ Current(d)' = Current(d)
  BY <1>2, BoardsKeep
<1>7. PendingIsRunning'
  BY <1>4, <1>6 DEF GateInv, GateTypes, PendingIsRunning, Spawning
<1>8. CoreHasCard'
  BY <1>1, <1>2, <1>4 DEF CoreHasCard
<1>9. QED
  BY <1>4, <1>5, <1>6, <1>7, <1>8, NothingClaimed

\* A pass repairs bindings and takes the oldest pending rework (EdgeLooks).
LEMMA EdgeLooksStep ==
    ASSUME GateInv, NEW p \in Procs, EdgeLooks(p)
    PROVE  GateInv'
<1>1. PICK b \in {BoardOf[c] : c \in Cards}, found \in BOOLEAN :
        /\ Pending(b) # {}
        /\ card' = [c \in Cards |->
             IF found /\ c \in Drifted(b) THEN [card[c] EXCEPT !.bound = TRUE] ELSE card[c]]
        /\ proc' = [proc EXCEPT ![p] = [pc |-> "look", card |-> First(Pending(b)), gated |-> FALSE]]
  BY DEF EdgeLooks
<1>2. p \in Edges /\ p # Core /\ UNCHANGED <<runs, backend>>
  BY AdmissionAssumption DEF EdgeLooks, World
<1>3. PICK c \in Cards : c = First(Pending(b))
  BY <1>1, FirstIsIn DEF Pending
<1>4. [pc |-> "look", card |-> c, gated |-> FALSE] \in Attempts
  BY DEF Attempts, Pcs
<1>5. /\ proc' \in [Procs -> Attempts] /\ proc'[p].pc = "look" /\ proc'[p].card = c
      /\ ~proc'[p].gated /\ \A q \in Procs : q # p => proc'[q] = proc[q]
  BY <1>1, <1>3, <1>4 DEF GateInv, GateTypes
<1>6. /\ card' \in [Cards -> CardRows]
      /\ \A d \in Cards : card'[d].status = card[d].status
  <2>1. \A row \in CardRows : /\ [row EXCEPT !.bound = TRUE] \in CardRows
                              /\ [row EXCEPT !.bound = TRUE].status = row.status
    BY DEF CardRows
  <2>2. card \in [Cards -> CardRows]
    BY DEF GateInv, GateTypes
  <2>3. QED
    BY <1>1, <2>1, <2>2
<1>7. GateTypes'
  BY <1>2, <1>5, <1>6 DEF GateInv, GateTypes
<1>8. /\ RunningHasRun' /\ SlippedIsNoted'
      /\ \A d \in Cards : Running(d)' = Running(d) /\ Current(d)' = Current(d)
  BY <1>2, <1>6 DEF GateInv, RunningHasRun, SlippedIsNoted, Running, Current, Matches, Last
<1>9. Held' \subseteq Held
  BY <1>2, <1>6 DEF Held, Holds, Reserving, Rows
<1>10. PendingIsRunning'
  BY <1>5, <1>8 DEF GateInv, GateTypes, PendingIsRunning, Spawning
<1>11. CoreHasCard'
  BY <1>2, <1>5, <1>6 DEF GateInv, GateTypes, CoreHasCard, Procs
<1>12. QED
  BY <1>5, <1>7, <1>8, <1>9, <1>10, <1>11, NothingClaimed

\* The newest run with a PID, when there is one, is a run of the card (LatestPid).
LEMMA LatestPidIsRow ==
    ASSUME GateInv, NEW c \in Cards, LatestPid(c) # 0
    PROVE  LatestPid(c) \in 1..Len(runs[c]) /\ runs[c][LatestPid(c)].pid
<1>1. PICK P : P = {m \in 1..Len(runs[c]) : runs[c][m].pid}
  OBVIOUS
<1>2. P # {} /\ LatestPid(c) = CHOOSE m \in P : \A k \in P : k <= m
  BY <1>1 DEF LatestPid
<1>3. \E m \in P : \A k \in P : k <= m
  <2>1. Len(runs[c]) \in Nat /\ P \subseteq 1..Len(runs[c])
    BY <1>1 DEF GateInv, GateTypes
  <2>2. QED
    BY <1>2, <2>1, GreatestExists
<1>4. QED
  BY <1>1, <1>2, <1>3

\* A superseded worker is out of the way before its card is claimed again (Quiesce).
LEMMA QuiesceProperties ==
    ASSUME GateInv, NEW c \in Cards, Quiesce(c).ok, runs' = Quiesce(c).runs, UNCHANGED <<card, backend>>
    PROVE  /\ runs' \in [Cards -> Seq(RunRows)] /\ RunningHasRun' /\ SlippedIsNoted' /\ Held' \subseteq Held
           /\ \A d \in Cards : Running(d)' = Running(d)
           /\ \A d \in Cards : Running(d) => Current(d)'.pid = Current(d).pid
<1>1. CASE runs' = runs
  BY <1>1, BoardsKeep DEF GateInv, GateTypes
<1>2. CASE runs' # runs
  <2>1. PICK n : n = LatestPid(c)
    OBVIOUS
  <2>2. /\ n # 0 /\ runs[c][n].live /\ runs[c][n].ended
        /\ runs' = [runs EXCEPT ![c][n].live = FALSE]
    BY <1>2, <2>1 DEF Quiesce
  <2>3. n \in 1..Len(runs[c]) /\ runs[c][n].pid
    BY <2>1, <2>2, LatestPidIsRow
  <2>4. PICK r : r = [runs[c][n] EXCEPT !.live = FALSE]
    OBVIOUS
  <2>5. runs' = [runs EXCEPT ![c][n] = r]
    BY <2>2, <2>4
  <2>6. runs[c][n] \in RunRows
    BY <2>3 DEF GateInv, GateTypes
  <2>7. /\ r \in RunRows /\ r.who = runs[c][n].who /\ r.gated = runs[c][n].gated
        /\ r.slipped = runs[c][n].slipped /\ ~r.live /\ r.pid = runs[c][n].pid
    BY <2>3, <2>4, <2>6 DEF RunRows
  <2>8. card \in [Cards -> CardRows] /\ (Running(c)' => Running(c))
    BY DEF GateInv, GateTypes, Running
  <2>9. /\ runs' \in [Cards -> Seq(RunRows)] /\ RunningHasRun' /\ SlippedIsNoted' /\ Held' \subseteq Held
        /\ \A d \in Cards : d # c => Current(d)' = Current(d)
        /\ Current(c)' = IF n = Len(runs[c]) THEN r ELSE Current(c)
    BY <2>3, <2>5, <2>7, <2>8, RowStep
  <2>10. \A d \in Cards : Running(d)' = Running(d)
    BY DEF Running
  <2>11. Current(c)'.pid = Current(c).pid
    <3>1. CASE n = Len(runs[c])
      <4>1. Current(c)' = r /\ Current(c) = runs[c][n]
        BY <2>9, <3>1 DEF Current
      <4>2. QED
        BY <2>3, <2>7, <4>1
    <3>2. CASE n # Len(runs[c])
      BY <2>9, <3>2
    <3>3. QED
      BY <3>1, <3>2
  <2>12. QED
    BY <2>9, <2>10, <2>11
<1>3. QED
  BY <1>1, <1>2

\* What no resource limits goes on without the gate.
LEMMA ThroughStep ==
    ASSUME GateInv, NEW p \in Procs, UNCHANGED <<card, runs, backend>>,
           proc[p].pc = "look", proc' \in [Procs -> Attempts],
           \A q \in Procs : proc'[q].pc # "idle" => proc'[q].card \in Cards,
           proc'[p].pc = "claim", proc'[p].gated = proc[p].gated, proc'[p].card = proc[p].card,
           \A q \in Procs : q # p => proc'[q] = proc[q]
    PROVE  GateInv'
<1>1. GateTypes'
  BY DEF GateInv, GateTypes
<1>2. /\ RunningHasRun' /\ SlippedIsNoted' /\ Held' = Held
      /\ \A c \in Cards : Running(c)' = Running(c) /\ Current(c)' = Current(c)
  BY BoardsKeep
<1>3. PendingIsRunning'
  BY <1>2 DEF GateInv, GateTypes, PendingIsRunning, Spawning
<1>4. CoreHasCard'
  BY DEF GateInv, CoreHasCard, Procs
<1>5. ~proc[p].gated
  BY DEF GateInv, GateTypes
<1>6. QED
  BY <1>1, <1>2, <1>3, <1>4, <1>5, NothingClaimed

\* The gate lets an attempt through, or ends it (Admit).
LEMMA AdmitStep ==
    ASSUME GateInv, NEW p \in Procs, Admit(p)
    PROVE  GateInv'
<1>1. /\ UNCHANGED <<card, backend>> /\ proc[p].pc = "look" /\ proc[p].card \in Cards
  BY DEF Admit, World, At, GateInv, GateTypes
<1>2. PICK c \in Cards : c = proc[p].card
  BY <1>1
<1>3. CASE ~Matches(card[c].who) /\ Goto(p, "claim") /\ UNCHANGED runs
  <2>1. /\ proc' \in [Procs -> Attempts]
        /\ \A q \in Procs : proc'[q].pc # "idle" => proc'[q].card \in Cards
        /\ proc'[p].pc = "claim" /\ proc'[p].gated = proc[p].gated /\ proc'[p].card = proc[p].card
        /\ \A q \in Procs : q # p => proc'[q] = proc[q]
    BY <1>1, <1>3, GotoProperties DEF Pcs
  <2>2. QED
    BY <1>1, <1>3, <2>1, ThroughStep
<1>4. CASE Stop(p) /\ UNCHANGED runs
  BY <1>1, <1>4, StopStep
<1>5. CASE /\ \A q \in Procs : ~HoldsResource(q)
           /\ Quiesce(c).ok /\ runs' = Quiesce(c).runs
           /\ IF Cardinality(Occupied(Quiesce(c).runs)) >= Capacity THEN Stop(p)
              ELSE proc' = [proc EXCEPT ![p].pc = "claim", ![p].gated = TRUE]
  <2>1. /\ runs' \in [Cards -> Seq(RunRows)] /\ RunningHasRun' /\ SlippedIsNoted' /\ Held' \subseteq Held
        /\ \A d \in Cards : Running(d)' = Running(d)
        /\ \A d \in Cards : Running(d) => Current(d)'.pid = Current(d).pid
    BY <1>1, <1>5, QuiesceProperties
  <2>2. CASE Stop(p)
    <3>1. /\ proc' \in [Procs -> Attempts]
          /\ \A q \in Procs : proc'[q].pc # "idle" => proc'[q].card \in Cards
          /\ proc'[p].pc = "idle" /\ ~proc'[p].gated
          /\ \A q \in Procs : q # p => proc'[q] = proc[q]
      BY <2>2, StopProperties
    <3>2. GateTypes'
      BY <1>1, <2>1, <3>1 DEF GateInv, GateTypes
    <3>3. PendingIsRunning'
      BY <2>1, <3>1 DEF GateInv, GateTypes, PendingIsRunning, Spawning
    <3>4. CoreHasCard'
      BY <1>1, <3>1 DEF GateInv, CoreHasCard, Procs
    <3>5. QED
      BY <2>1, <3>1, <3>2, <3>3, <3>4, NothingClaimed
  <2>3. CASE /\ ~(Cardinality(Occupied(Quiesce(c).runs)) >= Capacity)
             /\ proc' = [proc EXCEPT ![p].pc = "claim", ![p].gated = TRUE]
    <3>1. /\ proc' \in [Procs -> Attempts] /\ proc'[p].pc = "claim" /\ proc'[p].card = c
          /\ \A q \in Procs : q # p => proc'[q] = proc[q]
      BY <1>2, <2>3 DEF GateInv, GateTypes, Attempts, Pcs
    <3>2. GateTypes'
      BY <1>1, <2>1, <3>1 DEF GateInv, GateTypes
    <3>3. PendingIsRunning'
      <4>1. ~Spawning(p)' /\ \A q \in Procs : Spawning(q)' => Spawning(q) /\ proc'[q].card = proc[q].card
        BY <3>1 DEF Spawning
      <4>2. \A q \in Procs : Spawning(q) =>
              /\ proc[q].card \in Cards /\ Running(proc[q].card) /\ ~Current(proc[q].card).pid
        BY DEF GateInv, GateTypes, PendingIsRunning, Spawning
      <4>3. \A d \in Cards : Running(d) /\ ~Current(d).pid => Running(d)' /\ ~Current(d)'.pid
        BY <2>1
      <4>4. \A q \in Procs : Spawning(q)' => Running(proc[q].card)' /\ ~Current(proc[q].card)'.pid
        BY <4>1, <4>2, <4>3
      <4>5. \A q, q2 \in Procs : Spawning(q) /\ Spawning(q2) /\ proc[q].card = proc[q2].card => q = q2
        BY DEF GateInv, PendingIsRunning
      <4>6. QED
        BY <4>1, <4>4, <4>5 DEF PendingIsRunning
    <3>4. CoreHasCard'
      BY <1>1, <1>2, <3>1 DEF GateInv, CoreHasCard, Procs
    <3>5. \A q \in Procs : HoldsResource(q)' => q = p
      BY <1>5, <3>1 DEF HoldsResource
    <3>6. OneHolder'
      BY <3>5 DEF OneHolder, Procs
    <3>7. Held' \subseteq Occupied(runs')
      BY <1>1, <2>1 DEF SlippedIsNoted, Held, Occupied, Holds, Reserving, Rows, Matches
    <3>8. Cardinality(Held') < Capacity
      <4>1. Occupied(runs') \subseteq Rows
        BY DEF Occupied
      <4>2. IsFiniteSet(Occupied(runs')) /\ Cardinality(Occupied(runs')) \in Nat
        BY <4>1, HeldIsFinite
      <4>3. Cardinality(Held') <= Cardinality(Occupied(runs'))
        BY <3>7, <4>2, FS_Subset
      <4>4. Cardinality(Held') \in Nat
        BY <2>1, HeldShrinks
      <4>5. Cardinality(Occupied(runs')) < Capacity
        BY <1>5, <2>3, <4>2, AdmissionAssumption
      <4>6. QED
        BY <4>2, <4>3, <4>4, <4>5, AdmissionAssumption
    <3>9. SlotIsKept'
      BY <2>1, <3>8, HeldShrinks, AdmissionAssumption DEF SlotIsKept
    <3>10. QED
      BY <2>1, <3>2, <3>3, <3>4, <3>6, <3>9 DEF GateInv
  <2>4. QED
    BY <1>5, <2>2, <2>3
<1>6. QED
  BY <1>2, <1>3, <1>4, <1>5 DEF Admit

-----------------------------------------------------------------------------
(* Claims                                                                   *)

\* A ready card that no one else has is claimed (ClaimCard).
LEMMA ClaimStep ==
    ASSUME GateInv, NEW p \in Procs, NEW c \in Cards, NEW who \in Profiles \union {Reserved},
           ClaimCard(p, c, who), proc[p].pc = "claim", card[c].status = "ready", UNCHANGED backend,
           p # Core => ~(proc[Core].pc \in {"look", "claim"} /\ proc[Core].card = c)
    PROVE  GateInv'
<1>1. /\ card \in [Cards -> CardRows] /\ runs \in [Cards -> Seq(RunRows)] /\ proc \in [Procs -> Attempts]
  BY DEF GateInv, GateTypes
<1>2. PICK slipped \in BOOLEAN : slipped = ~Matches(who)
  OBVIOUS
<1>3. PICK r : r = NewRun(who, proc[p].gated)
  OBVIOUS
<1>4. /\ r \in RunRows /\ r.who = who /\ r.gated = proc[p].gated /\ r.slipped = slipped
      /\ ~r.pid /\ ~r.live
  BY <1>1, <1>2, <1>3 DEF NewRun, RunRows, Attempts
<1>5. runs' = [runs EXCEPT ![c] = Append(@, r)]
  BY <1>3 DEF ClaimCard
<1>6. /\ runs' \in [Cards -> Seq(RunRows)] /\ Len(runs'[c]) = Len(runs[c]) + 1
      /\ runs'[c][Len(runs[c]) + 1] = r
      /\ \A n \in 1..Len(runs[c]) : runs'[c][n] = runs[c][n]
      /\ \A d \in Cards : d # c => runs'[d] = runs[d]
      /\ \A d \in Cards : Len(runs[d]) \in Nat
  BY <1>1, <1>4, <1>5
<1>7. /\ card' \in [Cards -> CardRows] /\ card'[c].status = "running"
      /\ \A d \in Cards : d # c => card'[d] = card[d]
  BY <1>1 DEF ClaimCard, CardRows
<1>8. /\ proc' \in [Procs -> Attempts] /\ proc'[p].pc = "spawn" /\ proc'[p].card = c
      /\ proc'[p].gated = proc[p].gated
      /\ \A q \in Procs : q # p => proc'[q] = proc[q]
  BY <1>1 DEF ClaimCard, Attempts, Pcs
<1>9. GateTypes'
  BY <1>6, <1>7, <1>8 DEF GateInv, GateTypes
<1>10. RunningHasRun'
  <2>1. \A d \in Cards : Running(d) => Last(d) # 0
    BY DEF GateInv, RunningHasRun
  <2>2. \A d \in Cards : d # c => Running(d)' = Running(d) /\ Last(d)' = Last(d)
    BY <1>6, <1>7 DEF Running, Last
  <2>3. Last(c)' # 0
    BY <1>6 DEF Last
  <2>4. QED
    BY <2>1, <2>2, <2>3 DEF RunningHasRun
<1>11. \A q \in Procs : Spawning(q) => proc[q].card # c /\ proc[q].card \in Cards
  BY DEF GateInv, GateTypes, PendingIsRunning, Running, Spawning
<1>12. PendingIsRunning'
  <2>1. Running(c)' /\ Current(c)' = r
    BY <1>6, <1>7 DEF Running, Current
  <2>2. \A d \in Cards : d # c => Running(d)' = Running(d) /\ Current(d)' = Current(d)
    BY <1>6, <1>7 DEF Running, Current
  <2>3. \A q \in Procs : Spawning(q)' => q = p \/ (Spawning(q) /\ proc'[q].card = proc[q].card)
    BY <1>8 DEF Spawning
  <2>4. ASSUME NEW q \in Procs, Spawning(q)', NEW d \in Cards, d = proc'[q].card
        PROVE  Running(d)' /\ ~Current(d)'.pid
    <3>1. CASE q = p
      BY <1>4, <1>8, <2>1, <2>4, <3>1
    <3>2. CASE q # p
      BY <1>11, <2>2, <2>3, <2>4, <3>2 DEF GateInv, PendingIsRunning
    <3>3. QED
      BY <3>1, <3>2
  <2>5. \A q, s \in Procs : Spawning(q)' /\ Spawning(s)' /\ proc'[q].card = proc'[s].card => q = s
    BY <1>8, <1>11, <2>3 DEF GateInv, PendingIsRunning
  <2>6. \A q \in Procs : Spawning(q)' => proc'[q].card \in Cards
    BY <1>8, <1>11, <2>3
  <2>7. QED
    BY <2>4, <2>5, <2>6 DEF PendingIsRunning, Procs, Running, Current
<1>13. CoreHasCard'
  <2>1. CASE p = Core
    BY <1>8, <2>1 DEF CoreHasCard
  <2>2. CASE p # Core
    <3>1. proc'[Core] = proc[Core]
      BY <1>8, <2>2 DEF Procs
    <3>2. proc[Core].pc \in {"look", "claim"} => proc[Core].card \in Cards
      BY DEF GateInv, GateTypes, Procs
    <3>3. QED
      BY <1>7, <2>2, <3>1, <3>2 DEF GateInv, CoreHasCard
  <2>3. QED
    BY <2>1, <2>2
<1>14. \A q \in Procs : HoldsResource(q)' => HoldsResource(q)
  BY <1>8 DEF HoldsResource
<1>15. OneHolder'
  BY <1>14 DEF GateInv, OneHolder, Procs
<1>16. SlippedIsNoted'
  <2>1. \A n \in 1..Len(runs'[c]) : n \in 1..Len(runs[c]) \/ n = Len(runs[c]) + 1
    BY <1>6
  <2>2. r.slipped \/ Matches(r.who)
    BY <1>2, <1>4
  <2>3. QED
    BY <1>6, <2>1, <2>2 DEF GateInv, SlippedIsNoted, Matches
<1>17. ASSUME NEW s \in Held', s \notin Held  PROVE s = <<c, Len(runs[c]) + 1>> /\ proc[p].gated
  <2>1. s \in Rows /\ s = <<s[1], s[2]>> /\ s[1] \in Cards /\ s[2] \in 1..MaxRuns /\ s[2] <= Len(runs'[s[1]])
    BY <1>17 DEF Held, Rows
  <2>2. Holds(s[1], s[2])' /\ runs'[s[1]][s[2]].gated /\ ~runs'[s[1]][s[2]].slipped
    BY <1>17 DEF Held
  <2>3. CASE s[1] # c
    <3>1. Holds(s[1], s[2])
      BY <1>6, <1>7, <2>1, <2>2, <2>3 DEF Holds, Reserving
    <3>2. s \in Held
      BY <1>6, <2>1, <2>2, <2>3, <3>1 DEF Held
    <3>3. QED
      BY <1>17, <3>2
  <2>4. CASE s[1] = c /\ s[2] # Len(runs[c]) + 1
    <3>1. s[2] \in 1..Len(runs[c])
      BY <1>6, <2>1, <2>4, AdmissionAssumption
    <3>2. Holds(s[1], s[2])
      BY <1>6, <2>2, <2>4, <3>1 DEF Holds
    <3>3. s \in Held
      BY <1>6, <2>1, <2>2, <2>4, <3>1, <3>2 DEF Held
    <3>4. QED
      BY <1>17, <3>3
  <2>5. CASE s[1] = c /\ s[2] = Len(runs[c]) + 1
    BY <1>4, <1>6, <2>1, <2>2, <2>5
  <2>6. QED
    BY <2>3, <2>4, <2>5
<1>18. SlotIsKept'
  <2>1. Capacity \in Nat
    BY AdmissionAssumption
  <2>2. CASE proc[p].gated
    <3>1. Held' \subseteq Held \union {<<c, Len(runs[c]) + 1>>}
      BY <1>17
    <3>2. Cardinality(Held') <= Cardinality(Held) + 1 /\ Cardinality(Held') \in Nat
      BY <3>1, HeldGrows
    <3>3. Admitted(p)
      BY <2>2 DEF Admitted
    <3>4. Cardinality(Held) < Capacity /\ Cardinality(Held) \in Nat
      BY <3>3, HeldIsFinite DEF GateInv, SlotIsKept
    <3>5. \A q \in Procs : ~Admitted(q)'
      <4>1. \A q \in Procs : Admitted(q) => HoldsResource(q)
        BY DEF Admitted, HoldsResource
      <4>2. \A q \in Procs : Admitted(q) => q = p
        BY <3>3, <4>1 DEF GateInv, OneHolder
      <4>3. QED
        BY <1>8, <4>2 DEF Admitted
    <3>6. QED
      BY <2>1, <3>2, <3>4, <3>5 DEF SlotIsKept, Procs
  <2>3. CASE ~proc[p].gated
    <3>1. Held' \subseteq Held
      BY <1>17, <2>3
    <3>2. \A q \in Procs : Admitted(q)' => Admitted(q)
      BY <1>8 DEF Admitted
    <3>3. QED
      BY <2>1, <3>1, <3>2, HeldShrinks, HeldIsFinite DEF GateInv, SlotIsKept, Procs
  <2>4. QED
    BY <2>2, <2>3
<1>19. QED
  BY <1>9, <1>10, <1>12, <1>13, <1>15, <1>16, <1>18 DEF GateInv

\* The core claims the card it has taken (CoreClaims).
LEMMA CoreClaimsStep ==
    ASSUME GateInv, CoreClaims
    PROVE  GateInv'
<1>1. proc[Core].pc = "claim" /\ Core \in Procs /\ UNCHANGED backend
  BY DEF CoreClaims, At, World, Procs
<1>2. proc[Core].card \in Cards /\ card[proc[Core].card].status = "ready"
  BY <1>1 DEF GateInv, GateTypes, CoreHasCard
<1>3. card[proc[Core].card].who \in Profiles \union {Reserved}
  BY <1>2 DEF GateInv, GateTypes, CardRows
<1>4. QED
  BY <1>1, <1>2, <1>3, ClaimStep DEF CoreClaims

\* A pass claims the oldest pending rework, or gives up (EdgeClaims).
LEMMA EdgeClaimsStep ==
    ASSUME GateInv, NEW p \in Procs, EdgeClaims(p)
    PROVE  GateInv'
<1>1. p \in Edges /\ p # Core /\ proc[p].pc = "claim" /\ UNCHANGED backend
  BY AdmissionAssumption DEF EdgeClaims, At, World
<1>2. PICK b : b = BoardOf[proc[p].card]
  OBVIOUS
<1>3. PICK S : S = IF proc[p].gated THEN Pending(b) \intersect {proc[p].card} ELSE Pending(b)
  OBVIOUS
<1>4. CASE Stop(p) /\ UNCHANGED <<card, runs>>
  BY <1>1, <1>4, StopStep
<1>5. CASE /\ BoardFree(p, b) /\ S # {}
           /\ ClaimCard(p, First(S), IF card[First(S)].who = Reserved THEN Default ELSE card[First(S)].who)
  <2>1. S \subseteq Cards /\ S \subseteq Pending(b)
    BY <1>3 DEF Pending
  <2>2. PICK c \in S : c = First(S)
    BY <1>5, <2>1, FirstIsIn
  <2>3. c \in Cards /\ BoardOf[c] = b /\ card[c].status = "ready"
    BY <2>1, <2>2 DEF Pending
  <2>4. card[c].who \in Profiles \union {Reserved}
    BY <2>3 DEF GateInv, GateTypes, CardRows
  <2>5. PICK who \in Profiles \union {Reserved} : who = IF card[c].who = Reserved THEN Default ELSE card[c].who
    BY <2>4, AdmissionAssumption
  <2>6. ~(proc[Core].pc \in {"look", "claim"} /\ proc[Core].card = c)
    <3>1. ~HoldsBoard(Core, b)
      BY <1>1, <1>5 DEF BoardFree, Procs
    <3>2. c # NoCard
      BY <2>3, AdmissionAssumption DEF NoCard
    <3>3. QED
      BY <2>3, <3>1, <3>2 DEF HoldsBoard
  <2>7. ClaimCard(p, c, who)
    BY <1>5, <2>2, <2>5
  <2>8. QED
    BY <1>1, <2>3, <2>6, <2>7, ClaimStep
<1>6. QED
  BY <1>2, <1>3, <1>4, <1>5 DEF EdgeClaims

-----------------------------------------------------------------------------
(* Runs that go on or end                                                   *)

\* An attempt stays as it is, ends, or has its worker up.
GoesOn(q) == \/ proc'[q] = proc[q]
             \/ proc'[q].pc = "idle" /\ ~proc'[q].gated
             \/ /\ proc[q].pc = "spawn" /\ proc'[q].pc = "record"
                /\ proc'[q].gated = proc[q].gated /\ proc'[q].card = proc[q].card
SameRun(r, old) == r.who = old.who /\ r.gated = old.gated /\ r.slipped = old.slipped

\* A step that changes the row of one run, and ends the attempt behind it or lets it go on.
LEMMA RunStep ==
    ASSUME GateInv, NEW c \in Cards, NEW n \in 1..Len(runs[c]), NEW r \in RunRows,
           runs' = [runs EXCEPT ![c][n] = r], UNCHANGED backend,
           card' \in [Cards -> CardRows],
           \A d \in Cards : d # c => card'[d] = card[d], Running(c)' => Running(c),
           card[c].status = "ready" => card'[c].status = "ready",
           SameRun(r, runs[c][n]), r.live /\ r.pid => Holds(c, n), r.pid \/ ~runs[c][n].pid,
           proc' \in [Procs -> Attempts],
           \A q \in Procs : proc'[q].pc # "idle" => proc'[q].card \in Cards,
           \A q \in Procs : GoesOn(q),
           \A q \in Procs : Spawning(q) /\ Spawning(q)' /\ proc[q].card = c =>
                               Running(c)' /\ (n = Len(runs[c]) => ~r.pid)
    PROVE  GateInv'
<1>1. /\ runs' \in [Cards -> Seq(RunRows)] /\ RunningHasRun' /\ SlippedIsNoted' /\ Held' \subseteq Held
      /\ \A d \in Cards : d # c => Current(d)' = Current(d)
      /\ Current(c)' = IF n = Len(runs[c]) THEN r ELSE Current(c)
  BY RowStep DEF SameRun
<1>2. GateTypes'
  BY <1>1 DEF GateInv, GateTypes, GoesOn
<1>3. \A q \in Procs : Spawning(q)' => Spawning(q) /\ proc'[q].card = proc[q].card /\ proc[q].card \in Cards
  BY DEF Spawning, GoesOn, GateInv, GateTypes
<1>4. PendingIsRunning'
  <2>1. ASSUME NEW q \in Procs, Spawning(q)', NEW d \in Cards, d = proc'[q].card
        PROVE  Running(d)' /\ ~Current(d)'.pid
    <3>1. Running(d) /\ ~Current(d).pid /\ d = proc[q].card
      BY <1>3, <2>1 DEF GateInv, PendingIsRunning
    <3>2. CASE d = c
      <4>1. Running(c)' /\ (n = Len(runs[c]) => ~r.pid)
        BY <1>3, <2>1, <3>1, <3>2
      <4>2. CASE n = Len(runs[c])
        <5>1. Current(c)' = r
          BY <1>1, <4>2
        <5>2. QED
          BY <3>2, <4>1, <4>2, <5>1
      <4>3. CASE n # Len(runs[c])
        <5>1. Current(c)' = Current(c)
          BY <1>1, <4>3
        <5>2. QED
          BY <3>1, <3>2, <4>1, <5>1
      <4>4. QED
        BY <4>2, <4>3
    <3>3. CASE d # c
      BY <1>1, <3>1, <3>3 DEF Running
    <3>4. QED
      BY <3>2, <3>3
  <2>2. \A q, s \in Procs : Spawning(q)' /\ Spawning(s)' /\ proc'[q].card = proc'[s].card => q = s
    BY <1>3 DEF GateInv, PendingIsRunning
  <2>3. QED
    BY <1>3, <2>1, <2>2 DEF PendingIsRunning, Procs, Running, Current
<1>5. CoreHasCard'
  <2>1. Core \in Procs
    BY DEF Procs
  <2>2. SUFFICES ASSUME proc'[Core].pc \in {"look", "claim"}
                 PROVE  card'[proc'[Core].card].status = "ready"
    BY DEF CoreHasCard
  <2>3. proc'[Core] = proc[Core]
    BY <2>1, <2>2 DEF GoesOn
  <2>4. proc[Core].card \in Cards /\ card[proc[Core].card].status = "ready"
    BY <2>1, <2>2, <2>3 DEF GateInv, GateTypes, CoreHasCard
  <2>5. QED
    BY <2>3, <2>4
<1>6. QED
  BY <1>1, <1>2, <1>4, <1>5, NothingClaimed DEF GoesOn

\* A card that is given back is ready again, and its run has ended (Release).
LEMMA ReleaseProperties ==
    ASSUME GateInv, NEW c \in Cards, Running(c), NEW who \in Profiles \union {Reserved}, Release(c, who)
    PROVE  /\ card' \in [Cards -> CardRows] /\ card'[c].status = "ready" /\ ~Running(c)'
           /\ \A d \in Cards : d # c => card'[d] = card[d]
           /\ \E r \in RunRows :
                /\ runs' = [runs EXCEPT ![c][Len(runs[c])] = r]
                /\ r.who = Current(c).who /\ r.gated = Current(c).gated
                /\ r.slipped = Current(c).slipped /\ r.pid = Current(c).pid /\ r.live = Current(c).live
                /\ r.ended
<1>1. card \in [Cards -> CardRows] /\ Current(c) \in RunRows
  BY CurrentProperties DEF GateInv, GateTypes
<1>2. /\ card' \in [Cards -> CardRows] /\ card'[c].status = "ready"
      /\ \A d \in Cards : d # c => card'[d] = card[d]
  BY <1>1 DEF Release, CardRows
<1>3. PICK old \in RunRows : old = Current(c)
  BY <1>1
<1>4. PICK r : r = [old EXCEPT !.ended = TRUE]
  OBVIOUS
<1>5. /\ r \in RunRows /\ r.who = old.who /\ r.gated = old.gated
      /\ r.slipped = old.slipped /\ r.pid = old.pid /\ r.live = old.live /\ r.ended
  BY <1>3, <1>4 DEF RunRows
<1>6. runs' = [runs EXCEPT ![c][Len(runs[c])].ended = TRUE]
  BY DEF Release, EndRun
<1>7. runs' = [runs EXCEPT ![c][Len(runs[c])] = r]
  BY <1>3, <1>4, <1>6 DEF Current
<1>8. QED
  BY <1>2, <1>3, <1>5, <1>7 DEF Running

\* The edge gives its claim back when the workspace or the spawn fails (SpawnBlocked,
\* SpawnFails), and the core an abandoned one, or an operator a running card (CoreNotices,
\* Reclaim).
LEMMA ReleaseStep ==
    ASSUME GateInv, NEW c \in Cards, Running(c), NEW who \in Profiles \union {Reserved}, Release(c, who),
           UNCHANGED backend,
           UNCHANGED proc \/ \E p \in Procs : Stop(p),
           \A q \in Procs : ~(Spawning(q) /\ Spawning(q)' /\ proc[q].card = c)
    PROVE  GateInv'
<1>1. /\ card' \in [Cards -> CardRows] /\ card'[c].status = "ready" /\ ~Running(c)'
      /\ \A d \in Cards : d # c => card'[d] = card[d]
  BY ReleaseProperties
<1>2. PICK r \in RunRows :
        /\ runs' = [runs EXCEPT ![c][Len(runs[c])] = r]
        /\ r.who = Current(c).who /\ r.gated = Current(c).gated
        /\ r.slipped = Current(c).slipped /\ r.pid = Current(c).pid /\ r.live = Current(c).live
  BY ReleaseProperties
<1>3. PICK n \in 1..Len(runs[c]) : n = Len(runs[c])
  BY CurrentProperties
<1>4. /\ SameRun(r, runs[c][n])
      /\ runs' = [runs EXCEPT ![c][n] = r] /\ r.pid = runs[c][n].pid
  BY <1>2, <1>3 DEF Current, SameRun
<1>5. r.live /\ r.pid => Holds(c, n)
  BY <1>2, <1>3, CurrentProperties
<1>6. /\ proc' \in [Procs -> Attempts]
      /\ \A q \in Procs : proc'[q].pc # "idle" => proc'[q].card \in Cards
      /\ \A q \in Procs : GoesOn(q)
  <2>1. CASE UNCHANGED proc
    BY <2>1 DEF GateInv, GateTypes, GoesOn
  <2>2. ASSUME NEW p \in Procs, Stop(p)
        PROVE  /\ proc' \in [Procs -> Attempts]
               /\ \A q \in Procs : proc'[q].pc # "idle" => proc'[q].card \in Cards
               /\ \A q \in Procs : GoesOn(q)
    BY <2>2, StopProperties DEF GoesOn
  <2>3. QED
    BY <2>1, <2>2
<1>7. QED
  BY <1>1, <1>4, <1>5, <1>6, RunStep

\* The claim of an attempt that waits for its worker is no other attempt's.
LEMMA ClaimProperties ==
    ASSUME GateInv, NEW p \in Procs, Spawning(p)
    PROVE  \E c \in Cards : /\ c = proc[p].card /\ Running(c) /\ ~Current(c).pid
                            /\ \A q \in Procs : Spawning(q) /\ proc[q].card = c => q = p
BY DEF GateInv, GateTypes, PendingIsRunning, Spawning

\* The worker of a claim is up (Spawn).
LEMMA SpawnStep ==
    ASSUME GateInv, NEW p \in Procs, Spawn(p)
    PROVE  GateInv'
<1>1. /\ proc[p].pc = "spawn" /\ UNCHANGED <<card, backend>>
  BY DEF Spawn, At, World
<1>2. PICK c \in Cards : /\ c = proc[p].card /\ Running(c) /\ ~Current(c).pid
                         /\ \A q \in Procs : Spawning(q) /\ proc[q].card = c => q = p
  BY <1>1, ClaimProperties DEF Spawning
<1>3. PICK n \in 1..Len(runs[c]) : n = Len(runs[c])
  BY <1>2, CurrentProperties
<1>4. PICK old \in RunRows : old = Current(c) /\ old = runs[c][n]
  BY <1>2, <1>3, CurrentProperties DEF Current
<1>5. PICK r : r = [old EXCEPT !.live = TRUE]
  OBVIOUS
<1>6. /\ r \in RunRows /\ SameRun(r, old) /\ r.pid = old.pid
  BY <1>4, <1>5 DEF RunRows, SameRun
<1>7. runs' = [runs EXCEPT ![c][n] = r]
  BY <1>2, <1>3, <1>4, <1>5 DEF Spawn, SetCurrent
<1>8. /\ proc' \in [Procs -> Attempts]
      /\ \A q \in Procs : proc'[q].pc # "idle" => proc'[q].card \in Cards
      /\ proc'[p].pc = "record" /\ proc'[p].gated = proc[p].gated /\ proc'[p].card = proc[p].card
      /\ \A q \in Procs : q # p => proc'[q] = proc[q]
  BY <1>1, GotoProperties DEF Spawn, Pcs
<1>9. card' \in [Cards -> CardRows] /\ Running(c)'
  BY <1>1, <1>2 DEF GateInv, GateTypes, Running
<1>10. /\ SameRun(r, runs[c][n]) /\ (r.live /\ r.pid => Holds(c, n)) /\ (r.pid \/ ~runs[c][n].pid)
  BY <1>2, <1>3, <1>4, <1>6, CurrentProperties
<1>11. /\ (\A d \in Cards : d # c => card'[d] = card[d])
       /\ (Running(c)' => Running(c)) /\ (card[c].status = "ready" => card'[c].status = "ready")
  BY <1>1 DEF Running
<1>12. \A q \in Procs : GoesOn(q)
  BY <1>1, <1>8 DEF GoesOn
<1>13. \A q \in Procs : Spawning(q) /\ Spawning(q)' /\ proc[q].card = c =>
                    Running(c)' /\ (n = Len(runs[c]) => ~r.pid)
  BY <1>2, <1>4, <1>6, <1>9
<1>14. QED
  BY <1>1, <1>6, <1>7, <1>8, <1>9, <1>10, <1>11, <1>12, <1>13, RunStep

\* The PID of a worker goes on record (Record).
LEMMA RecordStep ==
    ASSUME GateInv, NEW p \in Procs, Record(p)
    PROVE  GateInv'
<1>1. /\ proc[p].pc = "record" /\ UNCHANGED <<card, backend>> /\ Stop(p)
  BY DEF Record, At, World
<1>2. PICK c \in Cards : /\ c = proc[p].card /\ Running(c) /\ ~Current(c).pid
                         /\ \A q \in Procs : Spawning(q) /\ proc[q].card = c => q = p
  BY <1>1, ClaimProperties DEF Spawning
<1>3. PICK n \in 1..Len(runs[c]) : n = Len(runs[c]) /\ Holds(c, n)
  BY <1>2, CurrentProperties
<1>4. PICK old \in RunRows : old = Current(c) /\ old = runs[c][n]
  BY <1>2, <1>3, CurrentProperties DEF Current
<1>5. PICK r : r = [old EXCEPT !.pid = TRUE]
  OBVIOUS
<1>6. /\ r \in RunRows /\ SameRun(r, old) /\ r.pid
  BY <1>4, <1>5 DEF RunRows, SameRun
<1>7. runs' = [runs EXCEPT ![c][n] = r]
  BY <1>2, <1>3, <1>4, <1>5 DEF Record, SetCurrent
<1>8. /\ proc' \in [Procs -> Attempts]
      /\ \A q \in Procs : proc'[q].pc # "idle" => proc'[q].card \in Cards
      /\ proc'[p].pc = "idle" /\ ~proc'[p].gated
      /\ \A q \in Procs : q # p => proc'[q] = proc[q]
  BY <1>1, StopProperties
<1>9. card' \in [Cards -> CardRows]
  BY <1>1 DEF GateInv, GateTypes
<1>10. /\ SameRun(r, runs[c][n]) /\ (r.live /\ r.pid => Holds(c, n)) /\ (r.pid \/ ~runs[c][n].pid)
  BY <1>3, <1>4, <1>6
<1>11. /\ (\A d \in Cards : d # c => card'[d] = card[d])
       /\ (Running(c)' => Running(c)) /\ (card[c].status = "ready" => card'[c].status = "ready")
  BY <1>1 DEF Running
<1>12. \A q \in Procs : GoesOn(q)
  BY <1>1, <1>8 DEF GoesOn
<1>13. \A q \in Procs : Spawning(q) /\ Spawning(q)' /\ proc[q].card = c =>
                    Running(c)' /\ (n = Len(runs[c]) => ~r.pid)
  BY <1>2, <1>8 DEF Spawning
<1>14. QED
  BY <1>1, <1>6, <1>7, <1>8, <1>9, <1>10, <1>11, <1>12, <1>13, RunStep

\* The provenance of a spawn cannot be written (RecordFails).
LEMMA RecordFailsStep ==
    ASSUME GateInv, NEW p \in Procs, RecordFails(p)
    PROVE  GateInv'
<1>1. /\ proc[p].pc = "record" /\ UNCHANGED backend /\ Stop(p)
  BY DEF RecordFails, At, World
<1>2. PICK c \in Cards : /\ c = proc[p].card /\ Running(c) /\ ~Current(c).pid
                         /\ \A q \in Procs : Spawning(q) /\ proc[q].card = c => q = p
  BY <1>1, ClaimProperties DEF Spawning
<1>3. PICK n \in 1..Len(runs[c]) : n = Len(runs[c]) /\ Holds(c, n)
  BY <1>2, CurrentProperties
<1>4. PICK old \in RunRows : old = Current(c) /\ old = runs[c][n]
  BY <1>2, <1>3, CurrentProperties DEF Current
<1>5. PICK r : r = [[old EXCEPT !.pid = TRUE] EXCEPT !.ended = TRUE]
  OBVIOUS
<1>6. /\ r \in RunRows /\ SameRun(r, old) /\ r.pid
  BY <1>4, <1>5 DEF RunRows, SameRun
<1>7. runs' = [runs EXCEPT ![c][n] = r]
  <2>1. runs' = [runs EXCEPT ![c][n].pid = TRUE, ![c][n].ended = TRUE]
    BY <1>2, <1>3 DEF RecordFails
  <2>2. runs \in [Cards -> Seq(RunRows)]
    BY DEF GateInv, GateTypes
  <2>3. QED
    BY <1>4, <1>5, <2>1, <2>2
<1>8. /\ proc' \in [Procs -> Attempts]
      /\ \A q \in Procs : proc'[q].pc # "idle" => proc'[q].card \in Cards
      /\ proc'[p].pc = "idle" /\ ~proc'[p].gated
      /\ \A q \in Procs : q # p => proc'[q] = proc[q]
  BY <1>1, StopProperties
<1>9. /\ card' \in [Cards -> CardRows] /\ card'[c].status = "ready"
      /\ \A d \in Cards : d # c => card'[d] = card[d]
  <2>1. card' = [card EXCEPT ![c].status = "ready", ![c].who = Reserved]
    BY <1>2 DEF RecordFails
  <2>2. card \in [Cards -> CardRows]
    BY DEF GateInv, GateTypes
  <2>3. PICK row \in CardRows : row = card[c]
    BY <2>2
  <2>4. PICK new : new = [[row EXCEPT !.status = "ready"] EXCEPT !.who = Reserved]
    OBVIOUS
  <2>5. new \in CardRows /\ new.status = "ready"
    BY <2>4 DEF CardRows
  <2>6. card' = [card EXCEPT ![c] = new]
    BY <2>1, <2>2, <2>3, <2>4
  <2>7. QED
    BY <2>2, <2>5, <2>6
<1>10. /\ SameRun(r, runs[c][n]) /\ (r.live /\ r.pid => Holds(c, n)) /\ (r.pid \/ ~runs[c][n].pid)
  BY <1>3, <1>4, <1>6
<1>11. /\ (\A d \in Cards : d # c => card'[d] = card[d])
       /\ (Running(c)' => Running(c)) /\ (card[c].status = "ready" => card'[c].status = "ready")
  BY <1>2, <1>9 DEF Running
<1>12. \A q \in Procs : GoesOn(q)
  BY <1>1, <1>8 DEF GoesOn
<1>13. \A q \in Procs : Spawning(q) /\ Spawning(q)' /\ proc[q].card = c =>
                    Running(c)' /\ (n = Len(runs[c]) => ~r.pid)
  BY <1>2, <1>8 DEF Spawning
<1>14. QED
  BY <1>1, <1>6, <1>7, <1>8, <1>9, <1>10, <1>11, <1>12, <1>13, RunStep

\* The claim is given back at the spawn (SpawnBlocked, SpawnFails).
LEMMA GiveBackStep ==
    ASSUME GateInv, NEW p \in Procs, proc[p].pc = "spawn", Stop(p), UNCHANGED backend,
           NEW who \in Profiles \union {Reserved}, Release(proc[p].card, who)
    PROVE  GateInv'
<1>1. PICK c \in Cards : /\ c = proc[p].card /\ Running(c) /\ ~Current(c).pid
                         /\ \A q \in Procs : Spawning(q) /\ proc[q].card = c => q = p
  BY ClaimProperties DEF Spawning
<1>2. proc'[p].pc = "idle"
  BY StopProperties
<1>3. \A q \in Procs : ~(Spawning(q) /\ Spawning(q)' /\ proc[q].card = c)
  BY <1>1, <1>2 DEF Spawning
<1>4. QED
  BY <1>1, <1>3, ReleaseStep

-----------------------------------------------------------------------------
(* Workers, operators and the core's own care of its boards                 *)

\* Nobody's attempt moves.
LEMMA AttemptsKeep ==
    ASSUME GateInv, UNCHANGED proc
    PROVE  /\ proc' \in [Procs -> Attempts]
           /\ \A q \in Procs : proc'[q].pc # "idle" => proc'[q].card \in Cards
           /\ \A q \in Procs : proc'[q] = proc[q]
           /\ \A q \in Procs : Spawning(q) => proc[q].card \in Cards /\ ~Current(proc[q].card).pid
BY DEF GateInv, GateTypes, PendingIsRunning, Spawning

\* A worker ends its run (WorkerEnds).
LEMMA WorkerEndsStep ==
    ASSUME GateInv, NEW c \in Cards, WorkerEnds(c)
    PROVE  GateInv'
<1>1. /\ Running(c) /\ Current(c).live /\ Current(c).pid /\ UNCHANGED <<backend, proc>>
  BY DEF WorkerEnds, World, Running
<1>2. PICK n \in 1..Len(runs[c]) : n = Len(runs[c]) /\ Holds(c, n)
  BY <1>1, CurrentProperties
<1>3. PICK old \in RunRows : old = Current(c) /\ old = runs[c][n]
  BY <1>1, <1>2, CurrentProperties DEF Current
<1>4. PICK r : r = [old EXCEPT !.ended = TRUE]
  OBVIOUS
<1>5. /\ r \in RunRows /\ SameRun(r, old) /\ r.pid = old.pid
  BY <1>3, <1>4 DEF RunRows, SameRun
<1>6. runs' = [runs EXCEPT ![c][n] = r]
  BY <1>2, <1>3, <1>4 DEF WorkerEnds, EndRun
<1>7. /\ card' \in [Cards -> CardRows] /\ ~Running(c)' /\ \A d \in Cards : d # c => card'[d] = card[d]
  BY DEF WorkerEnds, GateInv, GateTypes, CardRows, Running
<1>8. \A q \in Procs : ~(Spawning(q) /\ proc[q].card = c)
  BY <1>1, AttemptsKeep
<1>9. /\ SameRun(r, runs[c][n]) /\ (r.live /\ r.pid => Holds(c, n)) /\ (r.pid \/ ~runs[c][n].pid)
  BY <1>2, <1>3, <1>5
<1>10. /\ (\A d \in Cards : d # c => card'[d] = card[d])
       /\ (Running(c)' => Running(c)) /\ (card[c].status = "ready" => card'[c].status = "ready")
  BY <1>1, <1>7 DEF Running
<1>11. \A q \in Procs : GoesOn(q)
  BY <1>1, AttemptsKeep DEF GoesOn
<1>12. \A q \in Procs : Spawning(q) /\ Spawning(q)' /\ proc[q].card = c =>
                    Running(c)' /\ (n = Len(runs[c]) => ~r.pid)
  BY <1>8
<1>13. QED
  BY <1>1, <1>5, <1>6, <1>7, <1>9, <1>10, <1>11, <1>12, AttemptsKeep, RunStep

\* The worker of a run that has ended is gone (WorkerExits).
LEMMA WorkerExitsStep ==
    ASSUME GateInv, NEW c \in Cards, WorkerExits(c)
    PROVE  GateInv'
<1>1. PICK n \in 1..Len(runs[c]) : runs' = [runs EXCEPT ![c][n].live = FALSE]
  BY DEF WorkerExits
<1>2. UNCHANGED <<card, backend, proc>>
  BY DEF WorkerExits, World
<1>3. PICK old \in RunRows : old = runs[c][n]
  BY DEF GateInv, GateTypes
<1>4. PICK r : r = [old EXCEPT !.live = FALSE]
  OBVIOUS
<1>5. /\ r \in RunRows /\ SameRun(r, old) /\ r.pid = old.pid /\ ~r.live
  BY <1>3, <1>4 DEF RunRows, SameRun
<1>6. runs' = [runs EXCEPT ![c][n] = r]
  BY <1>1, <1>3, <1>4
<1>7. card' \in [Cards -> CardRows] /\ \A d \in Cards : Running(d)' = Running(d)
  BY <1>2 DEF GateInv, GateTypes, Running
<1>8. \A q \in Procs : Spawning(q) /\ proc[q].card = c =>
          Running(c) /\ (n = Len(runs[c]) => ~runs[c][n].pid)
  BY DEF GateInv, PendingIsRunning, Current
<1>9. /\ SameRun(r, runs[c][n]) /\ (r.live /\ r.pid => Holds(c, n)) /\ (r.pid \/ ~runs[c][n].pid)
  BY <1>3, <1>5
<1>10. /\ (\A d \in Cards : d # c => card'[d] = card[d])
       /\ (Running(c)' => Running(c)) /\ (card[c].status = "ready" => card'[c].status = "ready")
  BY <1>2, <1>7
<1>11. \A q \in Procs : GoesOn(q)
  BY <1>2, AttemptsKeep DEF GoesOn
<1>12. \A q \in Procs : Spawning(q) /\ Spawning(q)' /\ proc[q].card = c =>
                    Running(c)' /\ (n = Len(runs[c]) => ~r.pid)
  BY <1>3, <1>5, <1>7, <1>8
<1>13. QED
  BY <1>2, <1>5, <1>6, <1>7, <1>9, <1>10, <1>11, <1>12, AttemptsKeep, RunStep

\* A worker dies in its run (WorkerDies).
LEMMA WorkerDiesStep ==
    ASSUME GateInv, NEW c \in Cards, WorkerDies(c)
    PROVE  GateInv'
<1>1. Running(c) /\ UNCHANGED <<card, backend, proc>>
  BY DEF WorkerDies, World, Running
<1>2. PICK n \in 1..Len(runs[c]) : n = Len(runs[c])
  BY <1>1, CurrentProperties
<1>3. PICK old \in RunRows : old = Current(c) /\ old = runs[c][n]
  BY <1>1, <1>2, CurrentProperties DEF Current
<1>4. PICK r : r = [old EXCEPT !.live = FALSE]
  OBVIOUS
<1>5. /\ r \in RunRows /\ SameRun(r, old) /\ r.pid = old.pid /\ ~r.live
  BY <1>3, <1>4 DEF RunRows, SameRun
<1>6. runs' = [runs EXCEPT ![c][n] = r]
  BY <1>2, <1>3, <1>4 DEF WorkerDies, SetCurrent
<1>7. card' \in [Cards -> CardRows] /\ \A d \in Cards : Running(d)' = Running(d)
  BY <1>1 DEF GateInv, GateTypes, Running
<1>8. \A q \in Procs : Spawning(q) /\ proc[q].card = c => ~old.pid
  BY <1>3, AttemptsKeep, <1>1
<1>9. /\ SameRun(r, runs[c][n]) /\ (r.live /\ r.pid => Holds(c, n)) /\ (r.pid \/ ~runs[c][n].pid)
  BY <1>3, <1>5
<1>10. /\ (\A d \in Cards : d # c => card'[d] = card[d])
       /\ (Running(c)' => Running(c)) /\ (card[c].status = "ready" => card'[c].status = "ready")
  BY <1>1, <1>7
<1>11. \A q \in Procs : GoesOn(q)
  BY <1>1, AttemptsKeep DEF GoesOn
<1>12. \A q \in Procs : Spawning(q) /\ Spawning(q)' /\ proc[q].card = c =>
                    Running(c)' /\ (n = Len(runs[c]) => ~r.pid)
  BY <1>1, <1>5, <1>7, <1>8
<1>13. QED
  BY <1>1, <1>5, <1>6, <1>7, <1>9, <1>10, <1>11, <1>12, AttemptsKeep, RunStep

\* A running card that no attempt waits for is given back (CoreNotices, Reclaim).
LEMMA TakeBackStep ==
    ASSUME GateInv, NEW c \in Cards, Running(c), Release(c, card[c].who), UNCHANGED <<backend, proc>>,
           Current(c).pid \/ \A q \in Procs : proc[q].card = c => ~Spawning(q)
    PROVE  GateInv'
<1>1. card[c].who \in Profiles \union {Reserved}
  BY DEF GateInv, GateTypes, CardRows
<1>2. \A q \in Procs : ~(Spawning(q) /\ proc[q].card = c)
  BY AttemptsKeep
<1>3. QED
  BY <1>1, <1>2, ReleaseStep

\* A maintainer asks for another round of a card that is done (Rework).
LEMMA ReworkStep ==
    ASSUME GateInv, NEW c \in Cards, Rework(c)
    PROVE  GateInv'
<1>1. UNCHANGED <<runs, backend, proc>> /\ card[c].status = "done"
  BY DEF Rework, World
<1>2. /\ card' \in [Cards -> CardRows] /\ card'[c].status = "ready"
      /\ \A d \in Cards : d # c => card'[d] = card[d]
  <2>1. PICK row : row = [card[c] EXCEPT !.status = "ready", !.who = Reserved, !.rework = TRUE]
    OBVIOUS
  <2>2. card \in [Cards -> CardRows] /\ card[c] \in CardRows
    BY DEF GateInv, GateTypes
  <2>3. row \in CardRows /\ row.status = "ready"
    BY <2>1, <2>2 DEF CardRows
  <2>4. card' = [card EXCEPT ![c] = row]
    BY <2>1 DEF Rework
  <2>5. QED
    BY <2>2, <2>3, <2>4
<1>3. GateTypes'
  BY <1>1, <1>2 DEF GateInv, GateTypes
<1>4. \A d \in Cards : Running(d)' = Running(d) /\ Current(d)' = Current(d)
  BY <1>1, <1>2 DEF Running, Current
<1>5. RunningHasRun' /\ SlippedIsNoted'
  BY <1>1, <1>4 DEF GateInv, RunningHasRun, SlippedIsNoted, Last, Matches
<1>6. Held' \subseteq Held
  BY <1>1, <1>2 DEF Held, Holds, Reserving, Rows
<1>7. PendingIsRunning'
  BY <1>1, <1>4 DEF GateInv, GateTypes, PendingIsRunning, Spawning
<1>8. CoreHasCard'
  BY <1>1, <1>2 DEF GateInv, GateTypes, CoreHasCard, Procs
<1>9. QED
  BY <1>1, <1>3, <1>5, <1>6, <1>7, <1>8, NothingClaimed

\* An operator points a profile elsewhere (Flip).
LEMMA FlipStep ==
    ASSUME GateInv, NEW w \in Profiles, Flip(w)
    PROVE  GateInv'
<1>1. UNCHANGED <<card, proc>>
  BY DEF Flip
<1>2. PICK k \in {"local", "cloud", "unknown"} :
        /\ backend' = [backend EXCEPT ![w] = k]
        /\ runs' = [c \in Cards |-> [n \in 1..Len(runs[c]) |->
             IF runs[c][n].who = w /\ k = "cloud" THEN [runs[c][n] EXCEPT !.slipped = TRUE]
             ELSE runs[c][n]]]
  BY DEF Flip
<1>3. ASSUME NEW c \in Cards
      PROVE  /\ runs'[c] \in Seq(RunRows) /\ Len(runs'[c]) = Len(runs[c])
             /\ \A n \in 1..Len(runs[c]) :
                  /\ runs'[c][n].who = runs[c][n].who /\ runs'[c][n].gated = runs[c][n].gated
                  /\ runs'[c][n].pid = runs[c][n].pid /\ runs'[c][n].live = runs[c][n].live
                  /\ ~runs'[c][n].slipped => ~runs[c][n].slipped /\ ~(runs[c][n].who = w /\ k = "cloud")
  <2>1. runs[c] \in Seq(RunRows) /\ Len(runs[c]) \in Nat
    BY DEF GateInv, GateTypes
  <2>2. runs'[c] = [n \in 1..Len(runs[c]) |->
             IF runs[c][n].who = w /\ k = "cloud" THEN [runs[c][n] EXCEPT !.slipped = TRUE]
             ELSE runs[c][n]]
    BY <1>2
  <2>3. \A r \in RunRows :
          /\ [r EXCEPT !.slipped = TRUE] \in RunRows /\ [r EXCEPT !.slipped = TRUE].who = r.who
          /\ [r EXCEPT !.slipped = TRUE].gated = r.gated /\ [r EXCEPT !.slipped = TRUE].pid = r.pid
          /\ [r EXCEPT !.slipped = TRUE].live = r.live /\ [r EXCEPT !.slipped = TRUE].slipped
    BY DEF RunRows
  <2>4. \A n \in 1..Len(runs[c]) : runs[c][n] \in RunRows
    BY <2>1
  <2>5. QED
    BY <2>1, <2>2, <2>3, <2>4
<1>4. runs' \in [Cards -> Seq(RunRows)]
  BY <1>2, <1>3
<1>5. backend' \in [Profiles -> {"local", "cloud", "unknown"}]
  BY <1>2 DEF GateInv, GateTypes
<1>6. GateTypes'
  BY <1>1, <1>4, <1>5 DEF GateInv, GateTypes
<1>7. RunningHasRun'
  BY <1>1, <1>3 DEF GateInv, RunningHasRun, Running, Last
<1>8. SlippedIsNoted'
  <2>1. ASSUME NEW c \in Cards, NEW n \in 1..Len(runs'[c]), ~runs'[c][n].slipped
        PROVE  runs'[c][n].who \in Pool /\ backend'[runs'[c][n].who] \in {"local", "unknown"}
    <3>1. /\ n \in 1..Len(runs[c]) /\ runs'[c][n].who = runs[c][n].who
          /\ ~runs[c][n].slipped /\ ~(runs[c][n].who = w /\ k = "cloud")
      BY <1>3, <2>1
    <3>2. runs[c][n].who \in Pool /\ backend[runs[c][n].who] \in {"local", "unknown"}
      BY <3>1 DEF GateInv, SlippedIsNoted, Matches
    <3>3. runs[c][n].who \in Profiles /\ backend \in [Profiles -> {"local", "cloud", "unknown"}]
      BY <3>2, AdmissionAssumption DEF GateInv, GateTypes
    <3>4. QED
      BY <1>2, <3>1, <3>2, <3>3
  <2>2. QED
    BY <2>1 DEF SlippedIsNoted, Matches
<1>9. Held' \subseteq Held
  <2>1. ASSUME NEW s \in Held'  PROVE s \in Held
    <3>1. s \in Rows /\ s[1] \in Cards /\ s[2] \in 1..MaxRuns /\ s[2] <= Len(runs'[s[1]])
      BY <2>1 DEF Held, Rows
    <3>2. s[2] \in 1..Len(runs[s[1]])
      <4>1. Len(runs'[s[1]]) = Len(runs[s[1]])
        BY <1>3, <3>1
      <4>2. s[2] <= Len(runs[s[1]])
        BY <3>1, <4>1
      <4>3. Len(runs[s[1]]) \in Nat
        BY <3>1 DEF GateInv, GateTypes
      <4>4. QED
        BY <3>1, <4>2, <4>3, AdmissionAssumption
    <3>3. QED
      BY <1>1, <1>3, <2>1, <3>1, <3>2 DEF Held, Holds, Reserving
  <2>2. QED
    BY <2>1
<1>10. PendingIsRunning'
  <2>1. \A c \in Cards : Running(c) => Running(c)' /\ Current(c)'.pid = Current(c).pid
    <3>1. \A c \in Cards : Running(c) => Len(runs[c]) \in 1..Len(runs[c])
      BY CurrentProperties
    <3>2. QED
      BY <1>1, <1>3, <3>1 DEF Running, Current
  <2>2. QED
    BY <1>1, <2>1 DEF GateInv, GateTypes, PendingIsRunning, Spawning
<1>11. CoreHasCard'
  BY <1>1 DEF GateInv, CoreHasCard
<1>12. QED
  BY <1>1, <1>6, <1>7, <1>8, <1>9, <1>10, <1>11, NothingClaimed

-----------------------------------------------------------------------------
(* The gate holds                                                           *)

\* The boards begin with ready cards and no run.
LEMMA GateInitially == Init => GateInv
<1>1. SUFFICES ASSUME Init PROVE GateInv
  OBVIOUS
<1>2. /\ runs = [c \in Cards |-> <<>>] /\ backend = [w \in Profiles |-> "local"]
      /\ proc = [p \in Procs |-> Idle]
      /\ card \in [Cards -> [status : {"ready"}, who : Profiles, rework : {FALSE}, bound : {TRUE}]
                            \union [status : {"ready"}, who : {Reserved}, rework : {TRUE}, bound : BOOLEAN]]
  BY <1>1 DEF Init
<1>3. card \in [Cards -> CardRows] /\ \A c \in Cards : card[c].status = "ready"
  <2>1. ASSUME NEW r \in [status : {"ready"}, who : Profiles, rework : {FALSE}, bound : {TRUE}]
        PROVE  r \in CardRows /\ r.status = "ready"
    BY DEF CardRows
  <2>2. ASSUME NEW r \in [status : {"ready"}, who : {Reserved}, rework : {TRUE}, bound : BOOLEAN]
        PROVE  r \in CardRows /\ r.status = "ready"
    BY DEF CardRows
  <2>3. QED
    BY <1>2, <2>1, <2>2
<1>4. Idle \in Attempts /\ Idle.pc = "idle" /\ ~Idle.gated
  BY DEF Idle, Attempts, Pcs
<1>5. /\ runs \in [Cards -> Seq(RunRows)] /\ \A c \in Cards : Len(runs[c]) = 0
      /\ proc \in [Procs -> Attempts] /\ \A p \in Procs : proc[p].pc = "idle" /\ ~proc[p].gated
  BY <1>2, <1>4
<1>6. GateTypes
  BY <1>2, <1>3, <1>5 DEF GateTypes
<1>7. RunningHasRun /\ PendingIsRunning /\ CoreHasCard /\ OneHolder /\ SlippedIsNoted
  BY <1>3, <1>5
     DEF RunningHasRun, PendingIsRunning, CoreHasCard, OneHolder, SlippedIsNoted, Running, Spawning,
         HoldsResource, Procs
<1>8. SlotIsKept
  <2>1. Held = {}
    <3>1. ASSUME NEW r \in Held  PROVE FALSE
      <4>1. r[1] \in Cards /\ r[2] \in 1..MaxRuns /\ r[2] <= Len(runs[r[1]])
        BY <3>1 DEF Held, Rows
      <4>2. Len(runs[r[1]]) = 0
        BY <1>5, <4>1
      <4>3. r[2] <= 0
        BY <4>1, <4>2
      <4>4. QED
        BY <4>1, <4>3, AdmissionAssumption
    <3>2. QED
      BY <3>1
  <2>2. Cardinality(Held) = 0
    BY <2>1, FS_EmptySet
  <2>3. QED
    BY <2>2, AdmissionAssumption DEF SlotIsKept
<1>9. QED
  BY <1>6, <1>7, <1>8 DEF GateInv

\* Every step of the dispatcher, a pass, a worker or an operator keeps the invariant.
LEMMA GateStep == GateInv /\ [Next]_vars => GateInv'
<1>1. SUFFICES ASSUME GateInv, [Next]_vars PROVE GateInv'
  OBVIOUS
<1>2. CASE UNCHANGED vars
  <2>1. UNCHANGED <<card, runs, backend, proc>>
    BY <1>2 DEF vars
  <2>2. GateTypes' /\ PendingIsRunning' /\ CoreHasCard'
    BY <1>1, <2>1 DEF GateInv, GateTypes, PendingIsRunning, CoreHasCard, Spawning, Running, Current
  <2>3. RunningHasRun' /\ SlippedIsNoted' /\ Held' = Held
    BY <1>1, <2>1, BoardsKeep
  <2>4. QED
    BY <1>1, <2>1, <2>2, <2>3, NothingClaimed
<1>3. CASE CoreLooks
  BY <1>1, <1>3, CoreLooksStep
<1>4. CASE CoreClaims
  BY <1>1, <1>4, CoreClaimsStep
<1>5. ASSUME NEW p \in Procs, EdgeLooks(p) PROVE GateInv'
  BY <1>1, <1>5, EdgeLooksStep
<1>6. ASSUME NEW p \in Procs, Steps(p) PROVE GateInv'
  <2>1. CASE Admit(p)
    BY <1>1, <2>1, AdmitStep
  <2>2. CASE EdgeClaims(p)
    BY <1>1, <2>2, EdgeClaimsStep
  <2>3. CASE Spawn(p)
    BY <1>1, <2>3, SpawnStep
  <2>4. CASE SpawnBlocked(p)
    <3>1. /\ proc[p].pc = "spawn" /\ Stop(p) /\ UNCHANGED backend
          /\ Release(proc[p].card, card[proc[p].card].who)
      BY <2>4 DEF SpawnBlocked, At, World
    <3>2. card[proc[p].card].who \in Profiles \union {Reserved}
      BY <1>1, <3>1 DEF GateInv, GateTypes, CardRows
    <3>3. QED
      BY <1>1, <3>1, <3>2, GiveBackStep
  <2>5. CASE Record(p)
    BY <1>1, <2>5, RecordStep
  <2>6. QED
    BY <1>6, <2>1, <2>2, <2>3, <2>4, <2>5 DEF Steps
<1>7. ASSUME NEW p \in Procs, AdmitFails(p) \/ GateUnreadable(p) \/ Crash(p) PROVE GateInv'
  <2>1. Stop(p) /\ UNCHANGED <<card, runs, backend>>
    BY <1>7 DEF AdmitFails, GateUnreadable, Crash, World
  <2>2. QED
    BY <1>1, <2>1, StopStep
<1>8. ASSUME NEW p \in Procs, SpawnFails(p) PROVE GateInv'
  <2>1. PICK who : who = IF p = Core THEN card[proc[p].card].who ELSE Reserved
    OBVIOUS
  <2>2. /\ proc[p].pc = "spawn" /\ Stop(p) /\ UNCHANGED backend /\ Release(proc[p].card, who)
    BY <1>8, <2>1 DEF SpawnFails, At, World
  <2>3. card[proc[p].card].who \in Profiles \union {Reserved}
    BY <1>1, <2>2 DEF GateInv, GateTypes, CardRows
  <2>4. who \in Profiles \union {Reserved}
    BY <2>1, <2>3
  <2>5. QED
    BY <1>1, <2>2, <2>4, GiveBackStep
<1>9. ASSUME NEW p \in Procs, RecordFails(p) PROVE GateInv'
  BY <1>1, <1>9, RecordFailsStep
<1>10. ASSUME NEW c \in Cards, WorkerEnds(c) \/ WorkerExits(c) \/ WorkerDies(c) PROVE GateInv'
  BY <1>1, <1>10, WorkerEndsStep, WorkerExitsStep, WorkerDiesStep
<1>11. ASSUME NEW c \in Cards, CoreNotices(c) PROVE GateInv'
  <2>1. Running(c) /\ \A q \in Procs : proc[q].card = c => ~Spawning(q)
    BY <1>11 DEF CoreNotices, Abandoned, Running, Spawning
  <2>2. Release(c, card[c].who) /\ UNCHANGED <<backend, proc>>
    BY <1>11 DEF CoreNotices, World
  <2>3. QED
    BY <1>1, <2>1, <2>2, TakeBackStep
<1>12. ASSUME NEW c \in Cards, Reclaim(c) PROVE GateInv'
  <2>1. Running(c) /\ Current(c).pid
    BY <1>12 DEF Reclaim, Running
  <2>2. Release(c, card[c].who) /\ UNCHANGED <<backend, proc>>
    BY <1>12 DEF Reclaim, World
  <2>3. QED
    BY <1>1, <2>1, <2>2, TakeBackStep
<1>13. ASSUME NEW c \in Cards, Rework(c) PROVE GateInv'
  BY <1>1, <1>13, ReworkStep
<1>14. ASSUME NEW w \in Profiles, Flip(w) PROVE GateInv'
  BY <1>1, <1>14, FlipStep
<1>15. QED
  BY <1>1, <1>2, <1>3, <1>4, <1>5, <1>6, <1>7, <1>8, <1>9, <1>10, <1>11, <1>12, <1>13, <1>14 DEF Next

\* However ticks, passes, kills and lingering workers interleave, no more than Capacity slots
\* are held by what was admitted through the gate (admit_rework, _active_resource_workers).
THEOREM GateKeepsCapacity == Spec => []GateHolds
<1>1. GateInv => GateHolds
  BY DEF GateInv, SlotIsKept, GateHolds, Held
<1>2. QED
  BY GateInitially, GateStep, <1>1, PTL DEF Spec

-----------------------------------------------------------------------------
(* The runs of a card                                                       *)

\* A card has one open run while it is running and none otherwise, and that run is its last.
Chronicle(row, rs) ==
    /\ Len(rs) <= MaxRuns
    /\ row.status = "running" => row.who \in Profiles
    /\ \A n \in 1..Len(rs) :
          rs[n].who \in Profiles /\ (~rs[n].ended <=> n = Len(rs) /\ row.status = "running")

\* The card the core has taken under its board's lock has a profile to work on it and a run left.
CoreMayClaim ==
    proc[Core].pc \in {"look", "claim"} =>
        card[proc[Core].card].who \in Profiles /\ Len(runs[proc[Core].card]) < MaxRuns

HistoryInv == CoreMayClaim /\ \A c \in Cards : Chronicle(card[c], runs[c])

\* The core keeps the card it has, or takes one that it may claim.
CoreKeepsCard ==
    proc'[Core].pc \in {"look", "claim"} =>
        \/ proc[Core].pc \in {"look", "claim"} /\ proc'[Core].card = proc[Core].card
        \/ /\ proc'[Core].card \in Cards /\ card[proc'[Core].card].status = "ready"
           /\ card[proc'[Core].card].who \in Profiles /\ Len(runs[proc'[Core].card]) < MaxRuns

\* What the core takes is a card, and ready.
LEMMA CoreCard ==
    ASSUME GateInv, HistoryInv, CoreKeepsCard, proc'[Core].pc \in {"look", "claim"}
    PROVE  /\ proc'[Core].card \in Cards /\ card[proc'[Core].card].status = "ready"
           /\ card[proc'[Core].card].who \in Profiles /\ Len(runs[proc'[Core].card]) < MaxRuns
<1>1. Core \in Procs
  BY DEF Procs
<1>2. CASE proc[Core].pc \in {"look", "claim"} /\ proc'[Core].card = proc[Core].card
  BY <1>1, <1>2 DEF GateInv, GateTypes, CoreHasCard, HistoryInv, CoreMayClaim
<1>3. QED
  BY <1>2 DEF CoreKeepsCard

\* A step in which no run begins or ends.
LEMMA HistoryStays ==
    ASSUME GateInv, HistoryInv, CoreKeepsCard,
           \A c \in Cards : card'[c].status = card[c].status /\ card'[c].who = card[c].who,
           \A c \in Cards : /\ Len(runs'[c]) = Len(runs[c])
                            /\ \A n \in 1..Len(runs[c]) : /\ runs'[c][n].who = runs[c][n].who
                                                          /\ runs'[c][n].ended = runs[c][n].ended
    PROVE  HistoryInv'
<1>1. ASSUME NEW c \in Cards
      PROVE  Chronicle(card[c], runs[c])'
  BY DEF HistoryInv, Chronicle
<1>2. CoreMayClaim'
  BY CoreCard DEF CoreMayClaim
<1>3. QED
  BY <1>1, <1>2 DEF HistoryInv

\* A step that changes the row of one run and leaves who works for whom.
LEMMA RunKeeps ==
    ASSUME GateInv, HistoryInv, CoreKeepsCard, UNCHANGED card,
           NEW c \in Cards, NEW n \in 1..Len(runs[c]), NEW r \in RunRows,
           runs' = [runs EXCEPT ![c][n] = r], r.who = runs[c][n].who, r.ended = runs[c][n].ended
    PROVE  HistoryInv'
<1>0. GateTypes
  BY DEF GateInv
<1>1. /\ \A d \in Cards : Len(runs'[d]) = Len(runs[d])
      /\ \A d \in Cards : d # c => runs'[d] = runs[d]
      /\ \A m \in 1..Len(runs[c]) : runs'[c][m] = IF m = n THEN r ELSE runs[c][m]
  BY <1>0, RowProperties DEF GateTypes
<1>2. \A d \in Cards : \A m \in 1..Len(runs[d]) :
         runs'[d][m].who = runs[d][m].who /\ runs'[d][m].ended = runs[d][m].ended
  BY <1>1
<1>3. QED
  BY <1>1, <1>2, HistoryStays

\* A step that ends the run of a card.
LEMMA RunEnds ==
    ASSUME GateInv, HistoryInv, CoreKeepsCard, NEW c \in Cards, Running(c),
           card'[c].status # "running", \A d \in Cards : d # c => card'[d] = card[d],
           NEW r \in RunRows, runs' = [runs EXCEPT ![c][Len(runs[c])] = r],
           r.ended, r.who = Current(c).who
    PROVE  HistoryInv'
<1>0. GateTypes
  BY DEF GateInv
<1>1. PICK n \in 1..Len(runs[c]) : n = Len(runs[c])
  BY CurrentProperties
<1>2. /\ \A d \in Cards : Len(runs'[d]) = Len(runs[d])
      /\ \A d \in Cards : d # c => runs'[d] = runs[d]
      /\ \A m \in 1..Len(runs[c]) : runs'[c][m] = IF m = Len(runs[c]) THEN r ELSE runs[c][m]
  <2>1. runs' = [runs EXCEPT ![c][n] = r]
    BY <1>1
  <2>2. QED
    BY <1>0, <1>1, <2>1, RowProperties DEF GateTypes
<1>3. Chronicle(card[c], runs[c])'
  <2>1. Chronicle(card[c], runs[c])
    BY DEF HistoryInv
  <2>2. \A m \in 1..Len(runs[c]) : runs'[c][m].who \in Profiles /\ runs'[c][m].ended
    BY <1>1, <1>2, <2>1 DEF Chronicle, Current
  <2>3. QED
    BY <1>2, <2>1, <2>2 DEF Chronicle
<1>4. \A d \in Cards : d # c => Chronicle(card[d], runs[d])'
  BY <1>2 DEF HistoryInv
<1>5. CoreMayClaim'
  <2>1. proc'[Core].pc \in {"look", "claim"} => proc'[Core].card # c
    BY CoreCard DEF Running
  <2>2. QED
    BY <1>2, <2>1, CoreCard DEF CoreMayClaim
<1>6. QED
  BY <1>3, <1>4, <1>5 DEF HistoryInv

\* A run begins.
LEMMA RunBegins ==
    ASSUME GateInv, HistoryInv, NEW p \in Procs, NEW c \in Cards, NEW who \in Profiles,
           ClaimCard(p, c, who), card[c].status = "ready", Len(runs[c]) < MaxRuns,
           p # Core => ~(proc[Core].pc \in {"look", "claim"} /\ proc[Core].card = c)
    PROVE  HistoryInv'
<1>1. /\ card \in [Cards -> CardRows] /\ runs[c] \in Seq(RunRows) /\ proc \in [Procs -> Attempts]
      /\ runs \in [Cards -> Seq(RunRows)] /\ Len(runs[c]) \in Nat /\ MaxRuns \in Nat
  BY AdmissionAssumption DEF GateInv, GateTypes
<1>2. /\ card'[c].status = "running" /\ card'[c].who = who
      /\ \A d \in Cards : d # c => card'[d] = card[d]
  BY <1>1 DEF ClaimCard, CardRows
<1>3. PICK r : r = NewRun(who, proc[p].gated)
  OBVIOUS
<1>4. r.who = who /\ r.ended = FALSE
  BY <1>3 DEF NewRun
<1>5. runs'[c] = Append(runs[c], r) /\ \A d \in Cards : d # c => runs'[d] = runs[d]
  BY <1>1, <1>3 DEF ClaimCard
<1>6. /\ Len(runs'[c]) = Len(runs[c]) + 1 /\ runs'[c][Len(runs[c]) + 1] = r
      /\ \A n \in 1..Len(runs[c]) : runs'[c][n] = runs[c][n]
  BY <1>1, <1>5
<1>7. Chronicle(card[c], runs[c])'
  <2>1. \A n \in 1..Len(runs[c]) : runs'[c][n].who \in Profiles /\ runs'[c][n].ended
    BY <1>6 DEF HistoryInv, Chronicle
  <2>2. \A n \in 1..Len(runs'[c]) : n \in 1..Len(runs[c]) \/ n = Len(runs[c]) + 1
    BY <1>1, <1>6
  <2>3. ASSUME NEW n \in 1..Len(runs'[c])
        PROVE  runs'[c][n].who \in Profiles /\ (~runs'[c][n].ended <=> n = Len(runs'[c]))
    <3>1. CASE n \in 1..Len(runs[c])
      BY <1>1, <1>6, <2>1, <3>1
    <3>2. CASE n = Len(runs[c]) + 1
      BY <1>4, <1>6, <3>2
    <3>3. QED
      BY <2>2, <3>1, <3>2
  <2>4. QED
    BY <1>1, <1>2, <1>6, <2>3 DEF Chronicle
<1>8. \A d \in Cards : d # c => Chronicle(card[d], runs[d])'
  BY <1>2, <1>5 DEF HistoryInv
<1>9. CoreMayClaim'
  <2>1. Core \in Procs /\ proc'[p].pc = "spawn" /\ \A q \in Procs : q # p => proc'[q] = proc[q]
    BY <1>1 DEF ClaimCard, Procs, Attempts
  <2>2. CASE p = Core
    BY <2>1, <2>2 DEF CoreMayClaim
  <2>3. CASE p # Core
    <3>1. proc'[Core] = proc[Core]
      BY <2>1, <2>3
    <3>2. proc[Core].pc \in {"look", "claim"} => proc[Core].card \in Cards /\ proc[Core].card # c
      BY <2>1, <2>3 DEF GateInv, GateTypes
    <3>3. QED
      BY <1>2, <1>5, <3>1, <3>2 DEF HistoryInv, CoreMayClaim
  <2>4. QED
    BY <2>2, <2>3
<1>10. QED
  BY <1>7, <1>8, <1>9 DEF HistoryInv

\* An attempt that stops or goes on keeps the core's card.
LEMMA CoreKeeps ==
    ASSUME GateInv, NEW p \in Procs,
           Stop(p) \/ Goto(p, "claim") \/ Goto(p, "record")
             \/ proc' = [proc EXCEPT ![p].pc = "claim", ![p].gated = TRUE] \/ UNCHANGED proc,
           proc[p].pc = "look" \/ Stop(p) \/ Goto(p, "record") \/ UNCHANGED proc
    PROVE  CoreKeepsCard
<1>1. proc \in [Procs -> Attempts] /\ Core \in Procs
  BY DEF GateInv, GateTypes, Procs
<1>2. QED
  BY <1>1 DEF Stop, Goto, Idle, Attempts, CoreKeepsCard

\* The gate, the claims and the passes (CoreLooks, EdgeLooks, Admit, CoreClaims, EdgeClaims).
LEMMA HistoryOfAttempts ==
    ASSUME GateInv, HistoryInv,
           \/ CoreLooks \/ CoreClaims
           \/ \E p \in Procs : EdgeLooks(p) \/ Admit(p) \/ EdgeClaims(p)
    PROVE  HistoryInv'
<1>1. /\ card \in [Cards -> CardRows] /\ runs \in [Cards -> Seq(RunRows)] /\ proc \in [Procs -> Attempts]
      /\ Core \in Procs
  BY DEF GateInv, GateTypes, Procs
<1>2. CASE CoreLooks
  <2>1. CoreKeepsCard /\ UNCHANGED <<card, runs>>
    BY <1>1, <1>2 DEF CoreLooks, CoreKeepsCard
  <2>2. QED
    BY <2>1, HistoryStays
<1>3. CASE CoreClaims
  <2>1. PICK c : c = proc[Core].card
    OBVIOUS
  <2>2. c \in Cards /\ card[c].status = "ready" /\ card[c].who \in Profiles /\ Len(runs[c]) < MaxRuns
    BY <1>1, <1>3, <2>1 DEF CoreClaims, At, GateInv, GateTypes, CoreHasCard, HistoryInv, CoreMayClaim
  <2>3. ClaimCard(Core, c, card[c].who)
    BY <1>3, <2>1 DEF CoreClaims
  <2>4. QED
    BY <1>1, <2>2, <2>3, RunBegins
<1>4. ASSUME NEW p \in Procs, EdgeLooks(p) PROVE HistoryInv'
  <2>1. PICK b \in {BoardOf[c] : c \in Cards}, found \in BOOLEAN :
          /\ card' = [c \in Cards |->
               IF found /\ c \in Drifted(b) THEN [card[c] EXCEPT !.bound = TRUE] ELSE card[c]]
          /\ proc' = [proc EXCEPT ![p] = [pc |-> "look", card |-> First(Pending(b)), gated |-> FALSE]]
    BY <1>4 DEF EdgeLooks
  <2>2. p # Core /\ UNCHANGED runs
    BY <1>4, AdmissionAssumption DEF EdgeLooks
  <2>3. CoreKeepsCard
    BY <1>1, <2>1, <2>2 DEF CoreKeepsCard
  <2>4. \A row \in CardRows : /\ [row EXCEPT !.bound = TRUE].who = row.who
                              /\ [row EXCEPT !.bound = TRUE].status = row.status
    BY DEF CardRows
  <2>5. \A c \in Cards : card'[c].status = card[c].status /\ card'[c].who = card[c].who
    BY <1>1, <2>1, <2>4
  <2>6. QED
    BY <2>2, <2>3, <2>5, HistoryStays
<1>5. ASSUME NEW p \in Procs, Admit(p) PROVE HistoryInv'
  <2>1. proc[p].pc = "look" /\ UNCHANGED card
    BY <1>5 DEF Admit, At
  <2>2. PICK c \in Cards : c = proc[p].card
    BY <2>1 DEF GateInv, GateTypes
  <2>3. CoreKeepsCard
    BY <1>5, <2>1, CoreKeeps DEF Admit
  <2>4. CASE UNCHANGED runs
    BY <2>1, <2>3, <2>4, HistoryStays
  <2>5. CASE runs' = Quiesce(c).runs /\ runs' # runs
    <3>1. PICK n : n = LatestPid(c)
      OBVIOUS
    <3>2. n # 0 /\ runs' = [runs EXCEPT ![c][n].live = FALSE]
      BY <2>5, <3>1 DEF Quiesce
    <3>3. n \in 1..Len(runs[c])
      BY <3>1, <3>2, LatestPidIsRow
    <3>4. PICK r : r = [runs[c][n] EXCEPT !.live = FALSE]
      OBVIOUS
    <3>5. r \in RunRows /\ r.who = runs[c][n].who /\ r.ended = runs[c][n].ended
      <4>1. runs[c][n] \in RunRows
        BY <1>1, <3>3
      <4>2. QED
        BY <3>4, <4>1 DEF RunRows
    <3>6. runs' = [runs EXCEPT ![c][n] = r]
      BY <3>2, <3>4
    <3>7. QED
      BY <2>1, <2>3, <3>3, <3>5, <3>6, RunKeeps
  <2>6. QED
    BY <1>5, <2>2, <2>4, <2>5 DEF Admit
<1>6. ASSUME NEW p \in Procs, EdgeClaims(p) PROVE HistoryInv'
  <2>1. p \in Edges /\ p # Core
    BY <1>6, AdmissionAssumption DEF EdgeClaims
  <2>2. PICK b : b = BoardOf[proc[p].card]
    OBVIOUS
  <2>3. PICK S : S = IF proc[p].gated THEN Pending(b) \intersect {proc[p].card} ELSE Pending(b)
    OBVIOUS
  <2>4. CASE Stop(p) /\ UNCHANGED <<card, runs>>
    BY <2>4, CoreKeeps, HistoryStays
  <2>5. CASE /\ BoardFree(p, b) /\ S # {} /\ Len(runs[First(S)]) < MaxRuns
             /\ ClaimCard(p, First(S), IF card[First(S)].who = Reserved THEN Default ELSE card[First(S)].who)
    <3>1. PICK c \in Cards : c = First(S) /\ c \in Pending(b)
      BY <2>3, <2>5, FirstIsIn DEF Pending
    <3>2. BoardOf[c] = b /\ card[c].status = "ready" /\ card[c].who \in Profiles \union {Reserved}
      BY <1>1, <3>1 DEF Pending, CardRows
    <3>3. PICK who \in Profiles : who = IF card[c].who = Reserved THEN Default ELSE card[c].who
      BY <3>2, AdmissionAssumption
    <3>4. ~(proc[Core].pc \in {"look", "claim"} /\ proc[Core].card = c)
      <4>1. ~HoldsBoard(Core, b)
        BY <1>1, <2>1, <2>5 DEF BoardFree
      <4>2. c # NoCard
        BY AdmissionAssumption DEF NoCard
      <4>3. QED
        BY <3>2, <4>1, <4>2 DEF HoldsBoard
    <3>5. ClaimCard(p, c, who) /\ Len(runs[c]) < MaxRuns
      BY <2>5, <3>1, <3>3
    <3>6. QED
      BY <3>2, <3>4, <3>5, RunBegins
  <2>6. QED
    BY <1>6, <2>2, <2>3, <2>4, <2>5 DEF EdgeClaims
<1>7. QED
  BY <1>2, <1>3, <1>4, <1>5, <1>6

\* Workers that come up, are recorded, leave or die (Spawn, Record, WorkerExits, WorkerDies).
LEMMA HistoryOfWorkers ==
    ASSUME GateInv, HistoryInv,
           \/ \E p \in Procs : Spawn(p) \/ Record(p)
           \/ \E c \in Cards : WorkerExits(c) \/ WorkerDies(c)
    PROVE  HistoryInv'
<1>1. /\ runs \in [Cards -> Seq(RunRows)]
      /\ \A r \in RunRows : /\ [r EXCEPT !.live = TRUE] \in RunRows /\ [r EXCEPT !.live = TRUE].who = r.who
                            /\ [r EXCEPT !.live = TRUE].ended = r.ended
      /\ \A r \in RunRows : /\ [r EXCEPT !.live = FALSE] \in RunRows /\ [r EXCEPT !.live = FALSE].who = r.who
                            /\ [r EXCEPT !.live = FALSE].ended = r.ended
      /\ \A r \in RunRows : /\ [r EXCEPT !.pid = TRUE] \in RunRows /\ [r EXCEPT !.pid = TRUE].who = r.who
                            /\ [r EXCEPT !.pid = TRUE].ended = r.ended
  BY DEF GateInv, GateTypes, RunRows
<1>2. ASSUME NEW p \in Procs, Spawn(p) \/ Record(p) PROVE HistoryInv'
  <2>1. proc[p].pc \in {"spawn", "record"} /\ UNCHANGED card /\ (Goto(p, "record") \/ Stop(p))
    BY <1>2 DEF Spawn, Record, At
  <2>2. CoreKeepsCard
    BY <2>1, CoreKeeps
  <2>3. PICK c \in Cards : c = proc[p].card /\ Running(c)
    BY <2>1, ClaimProperties DEF Spawning
  <2>4. PICK n \in 1..Len(runs[c]) : n = Len(runs[c]) /\ Current(c) = runs[c][n] /\ Current(c) \in RunRows
    BY <2>3, CurrentProperties DEF Current
  <2>5. CASE runs' = [runs EXCEPT ![c][n] = [Current(c) EXCEPT !.live = TRUE]]
    BY <1>1, <2>1, <2>2, <2>4, <2>5, RunKeeps
  <2>6. CASE runs' = [runs EXCEPT ![c][n] = [Current(c) EXCEPT !.pid = TRUE]]
    BY <1>1, <2>1, <2>2, <2>4, <2>6, RunKeeps
  <2>7. QED
    BY <1>2, <2>3, <2>4, <2>5, <2>6 DEF Spawn, Record, SetCurrent
<1>3. ASSUME NEW c \in Cards, WorkerExits(c) \/ WorkerDies(c) PROVE HistoryInv'
  <2>1. UNCHANGED <<card, proc>>
    BY <1>3 DEF WorkerExits, WorkerDies
  <2>2. CoreKeepsCard
    BY <2>1 DEF CoreKeepsCard
  <2>3. PICK n \in 1..Len(runs[c]) : runs' = [runs EXCEPT ![c][n].live = FALSE]
    <3>1. CASE WorkerExits(c)
      BY <3>1 DEF WorkerExits
    <3>2. CASE WorkerDies(c)
      BY <3>2, CurrentProperties DEF WorkerDies, SetCurrent, Running, Current
    <3>3. QED
      BY <1>3, <3>1, <3>2
  <2>4. runs[c][n] \in RunRows
    BY <1>1
  <2>5. PICK r \in RunRows :
          r = [runs[c][n] EXCEPT !.live = FALSE] /\ r.who = runs[c][n].who /\ r.ended = runs[c][n].ended
    BY <1>1, <2>4
  <2>6. runs' = [runs EXCEPT ![c][n] = r]
    BY <2>3, <2>5
  <2>7. QED
    BY <2>1, <2>2, <2>5, <2>6, RunKeeps
<1>4. QED
  BY <1>2, <1>3

\* Claims that are given back (Release).
LEMMA HistoryOfRelease ==
    ASSUME GateInv, HistoryInv, NEW c \in Cards, Running(c), NEW who \in Profiles \union {Reserved},
           Release(c, who), UNCHANGED proc \/ \E p \in Procs : Stop(p)
    PROVE  HistoryInv'
<1>1. CoreKeepsCard
  BY CoreKeeps DEF CoreKeepsCard
<1>2. card'[c].status # "running" /\ \A d \in Cards : d # c => card'[d] = card[d]
  BY ReleaseProperties DEF Running
<1>3. PICK r \in RunRows :
        runs' = [runs EXCEPT ![c][Len(runs[c])] = r] /\ r.who = Current(c).who /\ r.ended
  BY ReleaseProperties
<1>4. QED
  BY <1>1, <1>2, <1>3, RunEnds

\* Runs that end, and cards that are asked for again (SpawnBlocked, SpawnFails, RecordFails,
\* WorkerEnds, CoreNotices, Reclaim, Rework).
LEMMA HistoryOfEnds ==
    ASSUME GateInv, HistoryInv,
           \/ \E p \in Procs : SpawnBlocked(p) \/ SpawnFails(p) \/ RecordFails(p)
           \/ \E c \in Cards : WorkerEnds(c) \/ CoreNotices(c) \/ Reclaim(c) \/ Rework(c)
    PROVE  HistoryInv'
<1>1. card \in [Cards -> CardRows] /\ runs \in [Cards -> Seq(RunRows)]
  BY DEF GateInv, GateTypes
<1>2. \A c \in Cards : card[c].who \in Profiles \union {Reserved}
  BY <1>1 DEF CardRows
<1>3. ASSUME NEW p \in Procs, SpawnBlocked(p) \/ SpawnFails(p) PROVE HistoryInv'
  <2>1. proc[p].pc = "spawn" /\ Stop(p)
    BY <1>3 DEF SpawnBlocked, SpawnFails, At
  <2>2. PICK c \in Cards : c = proc[p].card /\ Running(c)
    BY <2>1, ClaimProperties DEF Spawning
  <2>3. PICK who \in Profiles \union {Reserved} : Release(c, who)
    BY <1>2, <1>3, <2>2 DEF SpawnBlocked, SpawnFails
  <2>4. QED
    BY <2>1, <2>2, <2>3, HistoryOfRelease
<1>4. ASSUME NEW p \in Procs, RecordFails(p) PROVE HistoryInv'
  <2>1. proc[p].pc = "record" /\ Stop(p)
    BY <1>4 DEF RecordFails, At
  <2>2. PICK c \in Cards : c = proc[p].card /\ Running(c)
    BY <2>1, ClaimProperties DEF Spawning
  <2>3. PICK n \in 1..Len(runs[c]) : n = Len(runs[c])
    BY <2>2, CurrentProperties
  <2>4. PICK old \in RunRows : old = Current(c) /\ old = runs[c][n]
    BY <2>2, <2>3, CurrentProperties DEF Current
  <2>5. PICK r : r = [[old EXCEPT !.pid = TRUE] EXCEPT !.ended = TRUE]
    OBVIOUS
  <2>6. r \in RunRows /\ r.who = old.who /\ r.ended
    BY <2>4, <2>5 DEF RunRows
  <2>7. runs' = [runs EXCEPT ![c][n] = r]
    <3>1. runs' = [runs EXCEPT ![c][n].pid = TRUE, ![c][n].ended = TRUE]
      BY <1>4, <2>2, <2>3 DEF RecordFails
    <3>2. QED
      BY <1>1, <2>4, <2>5, <3>1
  <2>8. card'[c].status # "running" /\ \A d \in Cards : d # c => card'[d] = card[d]
    <3>1. card' = [card EXCEPT ![c].status = "ready", ![c].who = Reserved]
      BY <1>4, <2>2 DEF RecordFails
    <3>2. PICK row \in CardRows : row = card[c]
      BY <1>1
    <3>3. PICK new : new = [[row EXCEPT !.status = "ready"] EXCEPT !.who = Reserved]
      OBVIOUS
    <3>4. new.status = "ready"
      BY <3>3 DEF CardRows
    <3>5. card' = [card EXCEPT ![c] = new]
      BY <1>1, <3>1, <3>2, <3>3
    <3>6. QED
      BY <1>1, <3>4, <3>5
  <2>9. CoreKeepsCard
    BY <2>1, CoreKeeps
  <2>10. QED
    BY <2>2, <2>3, <2>4, <2>6, <2>7, <2>8, <2>9, RunEnds
<1>5. ASSUME NEW c \in Cards, WorkerEnds(c) PROVE HistoryInv'
  <2>1. Running(c) /\ UNCHANGED proc
    BY <1>5 DEF WorkerEnds, Running
  <2>2. PICK old \in RunRows : old = Current(c) /\ old = runs[c][Len(runs[c])]
    BY <2>1, CurrentProperties DEF Current
  <2>3. PICK r : r = [old EXCEPT !.ended = TRUE]
    OBVIOUS
  <2>4. r \in RunRows /\ r.who = old.who /\ r.ended
    BY <2>2, <2>3 DEF RunRows
  <2>5. runs' = [runs EXCEPT ![c][Len(runs[c])] = r]
    BY <1>5, <2>2, <2>3 DEF WorkerEnds, EndRun
  <2>6. card'[c].status # "running" /\ \A d \in Cards : d # c => card'[d] = card[d]
    BY <1>1, <1>5 DEF WorkerEnds, CardRows
  <2>7. CoreKeepsCard
    BY <2>1 DEF CoreKeepsCard
  <2>8. QED
    BY <2>1, <2>2, <2>4, <2>5, <2>6, <2>7, RunEnds
<1>6. ASSUME NEW c \in Cards, CoreNotices(c) \/ Reclaim(c) PROVE HistoryInv'
  <2>1. Running(c) /\ UNCHANGED proc /\ Release(c, card[c].who)
    BY <1>6 DEF CoreNotices, Abandoned, Reclaim, Running
  <2>2. QED
    BY <1>2, <2>1, HistoryOfRelease
<1>7. ASSUME NEW c \in Cards, Rework(c) PROVE HistoryInv'
  <2>1. UNCHANGED <<runs, proc>> /\ card[c].status = "done"
    BY <1>7 DEF Rework
  <2>2. /\ card'[c].status = "ready"
        /\ \A d \in Cards : d # c => card'[d] = card[d]
    <3>1. PICK row : row = [card[c] EXCEPT !.status = "ready", !.who = Reserved, !.rework = TRUE]
      OBVIOUS
    <3>2. row.status = "ready"
      BY <1>1, <3>1 DEF CardRows
    <3>3. card' = [card EXCEPT ![c] = row]
      BY <1>7, <3>1 DEF Rework
    <3>4. QED
      BY <1>1, <3>2, <3>3
  <2>3. \A d \in Cards : Chronicle(card[d], runs[d])'
    BY <2>1, <2>2 DEF HistoryInv, Chronicle
  <2>4. CoreMayClaim'
    <3>1. CoreKeepsCard
      BY <2>1 DEF CoreKeepsCard
    <3>2. proc'[Core].pc \in {"look", "claim"} => proc'[Core].card # c
      BY <2>1, <3>1, CoreCard
    <3>3. QED
      BY <2>1, <2>2, <3>1, <3>2, CoreCard DEF CoreMayClaim
  <2>5. QED
    BY <2>3, <2>4 DEF HistoryInv
<1>8. QED
  BY <1>3, <1>4, <1>5, <1>6, <1>7

\* The boards begin with cards that have no run.
LEMMA HistoryInitially == Init => HistoryInv
<1>1. SUFFICES ASSUME Init PROVE HistoryInv
  OBVIOUS
<1>2. GateInv /\ MaxRuns \in Nat
  BY <1>1, GateInitially, AdmissionAssumption
<1>3. \A c \in Cards : Len(runs[c]) = 0 /\ card[c].status # "running"
  <2>1. runs = [c \in Cards |-> <<>>]
    BY <1>1 DEF Init
  <2>2. card \in [Cards -> [status : {"ready"}, who : Profiles, rework : {FALSE}, bound : {TRUE}]
                           \union [status : {"ready"}, who : {Reserved}, rework : {TRUE}, bound : BOOLEAN]]
    BY <1>1 DEF Init
  <2>3. QED
    BY <2>1, <2>2
<1>4. \A c \in Cards : Chronicle(card[c], runs[c])
  BY <1>2, <1>3 DEF Chronicle
<1>5. proc[Core].pc = "idle"
  BY <1>1 DEF Init, Procs, Idle
<1>6. QED
  BY <1>4, <1>5 DEF HistoryInv, CoreMayClaim

\* Every step keeps the history of the cards.
LEMMA HistoryStep == GateInv /\ HistoryInv /\ [Next]_vars => HistoryInv'
<1>1. SUFFICES ASSUME GateInv, HistoryInv, [Next]_vars PROVE HistoryInv'
  OBVIOUS
<1>2. CASE UNCHANGED vars
  <2>1. UNCHANGED <<card, runs, proc>>
    BY <1>2 DEF vars
  <2>2. QED
    BY <1>1, <2>1, HistoryStays DEF CoreKeepsCard
<1>3. CASE CoreLooks \/ CoreClaims
  BY <1>1, <1>3, HistoryOfAttempts
<1>4. ASSUME NEW p \in Procs, EdgeLooks(p) \/ Steps(p) PROVE HistoryInv'
  BY <1>1, <1>4, HistoryOfAttempts, HistoryOfWorkers, HistoryOfEnds DEF Steps
<1>5. ASSUME NEW p \in Procs, AdmitFails(p) \/ GateUnreadable(p) \/ Crash(p) PROVE HistoryInv'
  <2>1. Stop(p) /\ UNCHANGED <<card, runs>>
    BY <1>5 DEF AdmitFails, GateUnreadable, Crash
  <2>2. QED
    BY <1>1, <2>1, CoreKeeps, HistoryStays
<1>6. ASSUME NEW p \in Procs, SpawnFails(p) \/ RecordFails(p) PROVE HistoryInv'
  BY <1>1, <1>6, HistoryOfEnds
<1>7. ASSUME NEW c \in Cards, WorkerExits(c) \/ WorkerDies(c) PROVE HistoryInv'
  BY <1>1, <1>7, HistoryOfWorkers
<1>8. ASSUME NEW c \in Cards, WorkerEnds(c) \/ CoreNotices(c) \/ Reclaim(c) \/ Rework(c) PROVE HistoryInv'
  BY <1>1, <1>8, HistoryOfEnds
<1>9. ASSUME NEW w \in Profiles, Flip(w) PROVE HistoryInv'
  <2>1. PICK k : runs' = [c \in Cards |-> [n \in 1..Len(runs[c]) |->
             IF runs[c][n].who = w /\ k = "cloud" THEN [runs[c][n] EXCEPT !.slipped = TRUE]
             ELSE runs[c][n]]]
    BY <1>9 DEF Flip
  <2>2. \A r \in RunRows : /\ [r EXCEPT !.slipped = TRUE].who = r.who
                           /\ [r EXCEPT !.slipped = TRUE].ended = r.ended
    BY DEF RunRows
  <2>3. ASSUME NEW c \in Cards
        PROVE  /\ Len(runs'[c]) = Len(runs[c])
               /\ \A n \in 1..Len(runs[c]) : /\ runs'[c][n].who = runs[c][n].who
                                             /\ runs'[c][n].ended = runs[c][n].ended
    <3>1. /\ runs[c] \in Seq(RunRows) /\ Len(runs[c]) \in Nat
          /\ \A n \in 1..Len(runs[c]) : runs[c][n] \in RunRows
      BY <1>1 DEF GateInv, GateTypes
    <3>2. runs'[c] = [n \in 1..Len(runs[c]) |->
             IF runs[c][n].who = w /\ k = "cloud" THEN [runs[c][n] EXCEPT !.slipped = TRUE]
             ELSE runs[c][n]]
      BY <2>1
    <3>3. QED
      BY <2>2, <3>1, <3>2
  <2>4. UNCHANGED <<card, proc>>
    BY <1>9 DEF Flip
  <2>5. QED
    BY <1>1, <2>3, <2>4, HistoryStays DEF CoreKeepsCard
<1>10. QED
  BY <1>1, <1>2, <1>3, <1>4, <1>5, <1>6, <1>7, <1>8, <1>9 DEF Next

\* The rows of a board and of its runs keep their shape: a card has one open run while it is
\* running and none otherwise, that run is its last, and no more than MaxRuns are begun.
THEOREM BoardsKeepShape == Spec => []TypeOK
<1>1. GateInv /\ HistoryInv => TypeOK
  <2>1. SUFFICES ASSUME GateInv, HistoryInv PROVE TypeOK
    OBVIOUS
  <2>2. /\ card \in [Cards -> CardRows] /\ runs \in [Cards -> Seq(RunRows)] /\ proc \in [Procs -> Attempts]
    BY <2>1 DEF GateInv, GateTypes
  <2>3. ASSUME NEW c \in Cards, NEW n \in 1..Len(runs[c])
        PROVE  runs[c][n] \in RunRow
    <3>1. runs[c][n] \in RunRows /\ runs[c][n].who \in Profiles
      BY <2>1, <2>2 DEF HistoryInv, Chronicle
    <3>2. QED
      BY <3>1 DEF RunRow, RunRows
  <2>4. \A c \in Cards : /\ card[c].status \in {"ready", "running", "done"}
                         /\ card[c].who \in Profiles \union {Reserved}
    BY <2>2 DEF CardRows
  <2>5. \A c \in Cards :
          /\ Len(runs[c]) <= MaxRuns
          /\ \A n \in 1..Len(runs[c]) : ~runs[c][n].ended <=> n = Len(runs[c]) /\ card[c].status = "running"
          /\ card[c].status = "running" => card[c].who \in Profiles
    BY <2>1 DEF HistoryInv, Chronicle
  <2>6. \A p \in Procs : proc[p].pc \in {"idle", "look", "claim", "spawn", "record"}
    BY <2>2 DEF Attempts, Pcs
  <2>7. QED
    BY <2>3, <2>4, <2>5, <2>6 DEF TypeOK
<1>2. QED
  BY GateInitially, GateStep, HistoryInitially, HistoryStep, <1>1, PTL DEF Spec

-----------------------------------------------------------------------------
(* The inductive invariant of the alerts                                    *)

Files == [keys : SUBSET A!Gens, active : SUBSET A!Scopes]
SenderRows == [pc : {"idle", "pass", "send", "persist"}, todo : SUBSET Boards, failed : BOOLEAN,
               seen : SUBSET Boards, keys : SUBSET A!Gens, active : SUBSET A!Scopes, mem : Files]

\* A pass knows nothing of the file yet, and a blocked card's incident has a number.
AlertTypes ==
    /\ changes \in Nat /\ changes <= MaxChanges /\ losses \in Nat /\ overlaps \in Nat
    /\ gen \in [Boards -> Nat] /\ \A b \in Boards : gen[b] <= changes
    /\ open \subseteq A!Incident /\ \A b \in Boards : A!Blocked(b) \in open => gen[b] # 0
    /\ file \in Files /\ sender \in [Senders -> SenderRows] /\ tells \in [A!Gens -> Nat]
    /\ \A p \in Senders : sender[p].pc = "pass" => sender[p].mem = A!EmptyFile

\* A process between its reading and its writing of the file.
Busy(p) == sender[p].pc \in {"send", "persist"}

\* Whatever the file or the memory of a process holds back was told.
KeysWereTold ==
    /\ \A k \in file.keys : tells[k] # 0
    /\ \A p \in Senders : Busy(p) => \A k \in sender[p].mem.keys : tells[k] # 0
    /\ \A p \in Senders : sender[p].pc = "persist" => \A k \in sender[p].keys : tells[k] # 0

\* As long as no two runs overlap, so was every scope.
ScopesWereTold ==
    overlaps = 0 =>
      /\ \A p, q \in Senders : Busy(p) /\ Busy(q) => p = q
      /\ file.active \subseteq told
      /\ \A p \in Senders : Busy(p) => sender[p].mem.active \subseteq told
      /\ \A p \in Senders : sender[p].pc = "persist" => sender[p].active \subseteq told

\* Who is about to tell a generation, and whether another run may come to tell it: when
\* neither the file nor a running process has it, or one that has not will rewrite the file.
Telling(k) == {p \in Senders : sender[p].pc = "send" /\ k \in A!NewKeys(p)}
Carries(p, k) == k \in sender[p].mem.keys \union sender[p].keys
Exposed(k) == \/ k \notin file.keys /\ \A p \in Senders : ~(Busy(p) /\ Carries(p, k))
              \/ \E p \in Senders : Busy(p) /\ ~Carries(p, k)
One(b) == IF b THEN 1 ELSE 0
Weight(k) == tells[k] + Cardinality(Telling(k)) + One(Exposed(k))

\* What was told, is being told and may be told again is paid for by a loss or an overlap.
TellsArePaid ==
    overlaps <= MaxOverlaps => \A k \in A!Gens : Weight(k) <= 1 + losses + overlaps

AlertsInv == AlertTypes /\ KeysWereTold /\ ScopesWereTold /\ TellsArePaid

-----------------------------------------------------------------------------
(* Lemmas on the alerts' data                                               *)

\* The senders are finitely many, and the bounds are numbers.
LEMMA SendersAreFinite ==
    /\ IsFiniteSet(Senders) /\ Wake \in Senders /\ NoBoard \notin Boards
    /\ MaxChanges \in Nat /\ MaxLosses \in Nat /\ MaxOverlaps \in Nat
<1>1. IsFiniteSet(Senders)
  BY AlertsAssumption DEF A!AlertsAssumption, A!IsFiniteSet, IsFiniteSet
<1>2. QED
  BY <1>1, AlertsAssumption DEF A!AlertsAssumption

\* Finitely many tell one generation.
LEMMA TellingIsFinite ==
    ASSUME NEW k
    PROVE  IsFiniteSet(Telling(k)) /\ Cardinality(Telling(k)) \in Nat
<1>1. Telling(k) \subseteq Senders
  BY DEF Telling
<1>2. IsFiniteSet(Telling(k))
  BY <1>1, SendersAreFinite, FS_Subset
<1>3. QED
  BY <1>2, FS_CardinalityType

\* What an idle process knows.
LEMMA IdleSender ==
    /\ A!Idle \in SenderRows /\ A!Idle.pc = "idle" /\ A!Idle.mem = A!EmptyFile
    /\ A!EmptyFile \in Files /\ A!EmptyFile.keys = {} /\ A!EmptyFile.active = {}
BY DEF A!Idle, A!EmptyFile, SenderRows, Files

\* What a pass over a board reports is a generation of it, and scopes.
LEMMA ReportIsTyped ==
    ASSUME AlertTypes, NEW b \in Boards
    PROVE  A!KeysOf(b) \subseteq A!Gens /\ A!ActiveOf(b) \subseteq A!Scopes
<1>1. ASSUME A!Blocked(b) \in open  PROVE gen[b] \in 1..MaxChanges
  BY <1>1, SendersAreFinite DEF AlertTypes
<1>2. A!KeysOf(b) \subseteq A!Gens
  BY <1>1 DEF A!KeysOf, A!Gens
<1>3. A!ActiveOf(b) \subseteq A!Scopes
  BY DEF A!ActiveOf, A!Scopes
<1>4. QED
  BY <1>2, <1>3

\* One process moves.
LEMMA OneMoves ==
    ASSUME AlertTypes, NEW p \in Senders, NEW r \in SenderRows, sender' = [sender EXCEPT ![p] = r]
    PROVE  /\ sender' \in [Senders -> SenderRows] /\ sender'[p] = r
           /\ \A q \in Senders : q # p => sender'[q] = sender[q]
BY DEF AlertTypes

\* Who tells a generation changes by the process that moves.
LEMMA TellingMoves ==
    ASSUME NEW p \in Senders, \A q \in Senders : q # p => sender'[q] = sender[q], NEW k
    PROVE  Cardinality(Telling(k)') + One(p \in Telling(k))
             = Cardinality(Telling(k)) + One(p \in Telling(k)')
<1>1. \A q \in Senders : q # p => (q \in Telling(k)' <=> q \in Telling(k))
  BY DEF Telling, A!NewKeys
<1>2. PICK others : others = Telling(k) \ {p}
  OBVIOUS
<1>3. others = Telling(k)' \ {p}
  BY <1>1, <1>2 DEF Telling
<1>4. IsFiniteSet(others) /\ Cardinality(others) \in Nat
  <2>1. others \subseteq Senders
    BY <1>2 DEF Telling
  <2>2. IsFiniteSet(others)
    BY <2>1, SendersAreFinite, FS_Subset
  <2>3. QED
    BY <2>2, FS_CardinalityType
<1>5. Cardinality(others \union {p}) = Cardinality(others) + 1
  <2>1. p \notin others
    BY <1>2
  <2>2. QED
    BY <1>4, <2>1, FS_AddElement
<1>6. Cardinality(Telling(k)) = Cardinality(others) + One(p \in Telling(k))
  <2>1. CASE p \in Telling(k)
    <3>1. Telling(k) = others \union {p}
      BY <1>2, <2>1
    <3>2. QED
      BY <1>5, <2>1, <3>1 DEF One
  <2>2. CASE p \notin Telling(k)
    <3>1. Telling(k) = others
      BY <1>2, <2>2
    <3>2. QED
      BY <1>4, <2>2, <3>1 DEF One
  <2>3. QED
    BY <2>1, <2>2
<1>7. Cardinality(Telling(k)') = Cardinality(others) + One(p \in Telling(k)')
  <2>1. CASE p \in Telling(k)'
    <3>1. Telling(k)' = others \union {p}
      BY <1>3, <2>1
    <3>2. QED
      BY <1>5, <2>1, <3>1 DEF One
  <2>2. CASE p \notin Telling(k)'
    <3>1. Telling(k)' = others
      BY <1>3, <2>2
    <3>2. QED
      BY <1>4, <2>2, <3>1 DEF One
  <2>3. QED
    BY <2>1, <2>2
<1>8. QED
  BY <1>4, <1>6, <1>7 DEF One

\* What is told more is paid for.
LEMMA PaidFor ==
    ASSUME AlertTypes, AlertTypes', TellsArePaid, overlaps' <= MaxOverlaps => overlaps <= MaxOverlaps,
           \A k \in A!Gens : overlaps <= MaxOverlaps =>
                                Weight(k)' + losses + overlaps <= Weight(k) + losses' + overlaps'
    PROVE  TellsArePaid'
<1>1. ASSUME NEW k \in A!Gens, overlaps' <= MaxOverlaps  PROVE Weight(k)' <= 1 + losses' + overlaps'
  <2>1. Weight(k) <= 1 + losses + overlaps /\ Weight(k)' + losses + overlaps <= Weight(k) + losses' + overlaps'
    BY <1>1 DEF TellsArePaid
  <2>2. Weight(k) \in Nat
    <3>1. tells[k] \in Nat /\ Cardinality(Telling(k)) \in Nat
      BY TellingIsFinite DEF AlertTypes
    <3>2. QED
      BY <3>1 DEF Weight, One
  <2>3. Weight(k)' \in Nat
    <3>1. tells'[k] \in Nat
      BY DEF AlertTypes
    <3>2. IsFiniteSet(Telling(k)')
      <4>1. Telling(k)' \subseteq Senders
        BY DEF Telling
      <4>2. QED
        BY <4>1, SendersAreFinite, FS_Subset
    <3>3. Cardinality(Telling(k)') \in Nat
      BY <3>2, FS_CardinalityType
    <3>4. QED
      BY <3>1, <3>3 DEF Weight, One
  <2>4. losses \in Nat /\ overlaps \in Nat /\ losses' \in Nat /\ overlaps' \in Nat
    BY DEF AlertTypes
  <2>5. QED
    BY <2>1, <2>2, <2>3, <2>4
<1>2. QED
  BY <1>1 DEF TellsArePaid

\* The weight of a generation, with the share of the process that moves apart.
LEMMA WeightMoves ==
    ASSUME AlertTypes, AlertTypes', NEW p \in Senders,
           \A q \in Senders : q # p => sender'[q] = sender[q], NEW k \in A!Gens
    PROVE  /\ Weight(k)' + tells[k] + One(p \in Telling(k)) + One(Exposed(k))
                = Weight(k) + tells'[k] + One(p \in Telling(k)') + One(Exposed(k)')
           /\ Weight(k) \in Nat /\ Weight(k)' \in Nat /\ tells[k] \in Nat /\ tells'[k] \in Nat
           /\ losses \in Nat /\ overlaps \in Nat /\ losses' \in Nat /\ overlaps' \in Nat
<1>1. PICK n \in Nat : n = Cardinality(Telling(k))
  BY TellingIsFinite
<1>2. PICK m \in Nat : m = Cardinality(Telling(k)')
  <2>1. Telling(k)' \subseteq Senders
    BY DEF Telling
  <2>2. IsFiniteSet(Telling(k)')
    BY <2>1, SendersAreFinite, FS_Subset
  <2>3. QED
    BY <2>2, FS_CardinalityType
<1>3. m + One(p \in Telling(k)) = n + One(p \in Telling(k)')
  BY <1>1, <1>2, TellingMoves
<1>4. Weight(k) = tells[k] + n + One(Exposed(k)) /\ Weight(k)' = tells'[k] + m + One(Exposed(k)')
  BY <1>1, <1>2 DEF Weight, One
<1>5. /\ tells[k] \in Nat /\ tells'[k] \in Nat
      /\ losses \in Nat /\ overlaps \in Nat /\ losses' \in Nat /\ overlaps' \in Nat
  BY DEF AlertTypes
<1>6. \A b \in BOOLEAN : One(b) \in {0, 1}
  BY DEF One
<1>7. One(p \in Telling(k)) \in {0, 1} /\ One(p \in Telling(k)') \in {0, 1}
      /\ One(Exposed(k)) \in {0, 1} /\ One(Exposed(k)') \in {0, 1}
  BY DEF One
<1>8. QED
  BY <1>3, <1>4, <1>5, <1>7

\* One process moves, and nothing else but the counts of losses and overlaps.
Moves(p, r) ==
    /\ sender' = [sender EXCEPT ![p] = r] /\ UNCHANGED <<gen, open, changes>>
    /\ losses' \in Nat /\ overlaps' \in Nat

\* The types after a process has moved.
LEMMA TypesMove ==
    ASSUME AlertTypes, NEW p \in Senders, NEW r \in SenderRows, Moves(p, r),
           r.pc = "pass" => r.mem = A!EmptyFile, file' \in Files, tells' \in [A!Gens -> Nat]
    PROVE  /\ AlertTypes' /\ sender'[p] = r
           /\ \A q \in Senders : q # p => sender'[q] = sender[q]
<1>1. /\ sender' \in [Senders -> SenderRows] /\ sender'[p] = r
      /\ \A q \in Senders : q # p => sender'[q] = sender[q]
  BY OneMoves DEF Moves
<1>2. QED
  BY <1>1 DEF AlertTypes, Moves

\* A process that has not read the file and does not read it disturbs nothing.
LEMMA StillStep ==
    ASSUME AlertsInv, NEW p \in Senders, NEW r \in SenderRows, Moves(p, r),
           r.pc \in {"idle", "pass"}, r.pc = "pass" => r.mem = A!EmptyFile, ~Busy(p),
           UNCHANGED <<file, tells, told, overlaps>>, losses <= losses'
    PROVE  AlertsInv'
<1>1. /\ AlertTypes' /\ sender'[p] = r
      /\ \A q \in Senders : q # p => sender'[q] = sender[q]
  BY TypesMove DEF AlertsInv, AlertTypes
<1>2. \A q \in Senders : Busy(q)' => Busy(q) /\ q # p
  BY <1>1 DEF Busy
<1>3. \A q \in Senders : Busy(q) => Busy(q)' /\ q # p
  BY <1>1 DEF Busy
<1>4. KeysWereTold'
  BY <1>1 DEF AlertsInv, KeysWereTold, Busy
<1>5. ScopesWereTold'
  BY <1>1 DEF AlertsInv, ScopesWereTold, Busy
<1>6. ASSUME NEW k \in A!Gens  PROVE Weight(k)' + losses + overlaps <= Weight(k) + losses' + overlaps'
  <2>1. Exposed(k)' <=> Exposed(k)
    <3>1. \A q \in Senders : Busy(q) => (Carries(q, k)' <=> Carries(q, k))
      BY <1>1, <1>3 DEF Carries
    <3>2. QED
      BY <1>2, <1>3, <3>1 DEF Exposed
  <2>2. p \notin Telling(k) /\ p \notin Telling(k)'
    BY <1>1 DEF Telling, Busy
  <2>3. One(Exposed(k)') = One(Exposed(k)) /\ One(Exposed(k)) \in {0, 1}
        /\ One(p \in Telling(k)) = 0 /\ One(p \in Telling(k)') = 0
    BY <2>1, <2>2 DEF One
  <2>4. QED
    BY <1>1, <2>3, WeightMoves DEF AlertsInv
<1>7. TellsArePaid'
  BY <1>1, <1>6, PaidFor DEF AlertsInv
<1>8. QED
  BY <1>1, <1>4, <1>5, <1>7 DEF AlertsInv

\* One telling counts once, for what is told.
LEMMA CountProperties ==
    ASSUME AlertTypes, NEW K
    PROVE  /\ A!Count(K) \in [A!Gens -> Nat]
           /\ \A k \in A!Gens : /\ tells[k] # 0 => A!Count(K)[k] # 0
                                /\ k \in K => A!Count(K)[k] # 0
                                /\ A!Count(K)[k] <= tells[k] + One(k \in K)
<1>1. tells \in [A!Gens -> Nat] /\ MaxLosses \in Nat /\ MaxOverlaps \in Nat
  BY SendersAreFinite DEF AlertTypes
<1>2. PICK cap \in Nat : cap = 1 + MaxLosses + MaxOverlaps /\ cap # 0
  BY <1>1
<1>3. A!Count(K) = [k \in A!Gens |-> IF k \in K /\ tells[k] <= cap THEN tells[k] + 1 ELSE tells[k]]
  BY <1>2 DEF A!Count
<1>4. ASSUME NEW k \in A!Gens
      PROVE  /\ A!Count(K)[k] \in Nat /\ (tells[k] # 0 => A!Count(K)[k] # 0)
             /\ (k \in K => A!Count(K)[k] # 0) /\ A!Count(K)[k] <= tells[k] + One(k \in K)
  <2>1. tells[k] \in Nat
    BY <1>1
  <2>2. CASE k \in K /\ tells[k] <= cap
    <3>1. A!Count(K)[k] = tells[k] + 1 /\ One(k \in K) = 1
      BY <1>3, <2>2 DEF One
    <3>2. QED
      BY <2>1, <3>1
  <2>3. CASE ~(k \in K /\ tells[k] <= cap)
    <3>1. A!Count(K)[k] = tells[k] /\ One(k \in K) \in {0, 1} /\ (k \in K => ~(tells[k] <= cap))
      BY <1>3, <2>3 DEF One
    <3>2. QED
      BY <1>2, <2>1, <3>1
  <2>4. QED
    BY <2>2, <2>3
<1>5. A!Count(K) \in [A!Gens -> Nat]
  BY <1>3, <1>4
<1>6. QED
  BY <1>4, <1>5

\* A process that has read the file and does not come to write it costs a loss, and may have
\* told what it was about to (SendFails, PersistFails, Crash).
LEMMA LossStep ==
    ASSUME AlertsInv, NEW p \in Senders, Moves(p, A!Idle), Busy(p),
           UNCHANGED <<file, overlaps>>, losses' = losses + 1,
           \/ UNCHANGED <<tells, told>>
           \/ /\ sender[p].pc = "send" /\ tells' = A!Count(A!NewKeys(p))
              /\ told' = told \union A!NewActive(p)
    PROVE  AlertsInv'
<1>1. /\ tells' \in [A!Gens -> Nat] /\ told \subseteq told'
      /\ \A k \in A!Gens : /\ tells[k] # 0 => tells'[k] # 0
                           /\ tells'[k] <= tells[k] + One(p \in Telling(k))
  <2>1. CASE UNCHANGED <<tells, told>>
    BY <2>1 DEF AlertsInv, AlertTypes, One
  <2>2. CASE /\ sender[p].pc = "send" /\ tells' = A!Count(A!NewKeys(p))
             /\ told' = told \union A!NewActive(p)
    <3>1. \A k \in A!Gens : p \in Telling(k) <=> k \in A!NewKeys(p)
      BY <2>2 DEF Telling
    <3>2. \A k \in A!Gens : One(p \in Telling(k)) = One(k \in A!NewKeys(p))
      BY <3>1 DEF One
    <3>3. QED
      BY <2>2, <3>2, CountProperties DEF AlertsInv
  <2>3. QED
    BY <2>1, <2>2
<1>2. /\ AlertTypes' /\ sender'[p] = A!Idle
      /\ \A q \in Senders : q # p => sender'[q] = sender[q]
  BY <1>1, TypesMove, IdleSender DEF AlertsInv, AlertTypes
<1>3. sender'[p].pc = "idle"
  BY <1>2, IdleSender
<1>4. \A q \in Senders : Busy(q)' => Busy(q) /\ q # p
  BY <1>2, <1>3 DEF Busy
<1>5. /\ file.keys \subseteq A!Gens
      /\ \A q \in Senders : sender[q].mem.keys \subseteq A!Gens /\ sender[q].keys \subseteq A!Gens
  BY DEF AlertsInv, AlertTypes, Files, SenderRows
<1>6. KeysWereTold'
  <2>1. \A k \in file'.keys : tells'[k] # 0
    BY <1>1, <1>5 DEF AlertsInv, KeysWereTold
  <2>2. \A q \in Senders : Busy(q)' => \A k \in sender'[q].mem.keys : tells'[k] # 0
    BY <1>1, <1>2, <1>4, <1>5 DEF AlertsInv, KeysWereTold
  <2>3. \A q \in Senders : sender'[q].pc = "persist" => \A k \in sender'[q].keys : tells'[k] # 0
    BY <1>1, <1>2, <1>3, <1>5 DEF AlertsInv, KeysWereTold
  <2>4. QED
    BY <2>1, <2>2, <2>3 DEF KeysWereTold, Busy
<1>7. ScopesWereTold'
  <2>1. SUFFICES ASSUME overlaps = 0
                 PROVE  /\ \A q, s \in Senders : Busy(q)' /\ Busy(s)' => q = s
                        /\ file'.active \subseteq told'
                        /\ \A q \in Senders : Busy(q)' => sender'[q].mem.active \subseteq told'
                        /\ \A q \in Senders : sender'[q].pc = "persist" => sender'[q].active \subseteq told'
    BY DEF ScopesWereTold, Busy
  <2>2. /\ \A q, s \in Senders : Busy(q) /\ Busy(s) => q = s
        /\ file.active \subseteq told
        /\ \A q \in Senders : Busy(q) => sender[q].mem.active \subseteq told
        /\ \A q \in Senders : sender[q].pc = "persist" => sender[q].active \subseteq told
    BY <2>1 DEF AlertsInv, ScopesWereTold
  <2>3. QED
    BY <1>1, <1>2, <1>3, <1>4, <2>2
<1>8. ASSUME NEW k \in A!Gens  PROVE Weight(k)' + losses + overlaps <= Weight(k) + losses' + overlaps'
  <2>1. /\ One(Exposed(k)') \in {0, 1} /\ One(Exposed(k)) \in {0, 1} /\ One(p \in Telling(k)) \in {0, 1}
    BY DEF One
  <2>2. One(p \in Telling(k)') = 0
    BY <1>3 DEF Telling, One
  <2>3. tells'[k] <= tells[k] + One(p \in Telling(k))
    BY <1>1
  <2>4. QED
    BY <1>2, <2>1, <2>2, <2>3, WeightMoves DEF AlertsInv
<1>9. TellsArePaid'
  BY <1>2, <1>8, PaidFor DEF AlertsInv
<1>10. QED
  BY <1>2, <1>6, <1>7, <1>9 DEF AlertsInv

\* Everything new goes out in one message (Send).
LEMMA SendStep ==
    ASSUME AlertsInv, NEW p \in Senders, A!Send(p)
    PROVE  AlertsInv'
<1>1. /\ sender[p].pc = "send" /\ tells' = A!Count(A!NewKeys(p)) /\ told' = told \union A!NewActive(p)
      /\ UNCHANGED <<gen, open, changes, file, losses, overlaps>>
  BY DEF A!Send, A!At, A!World
<1>2. PICK old \in SenderRows : old = sender[p]
  BY DEF AlertsInv, AlertTypes
<1>3. PICK r : r = [old EXCEPT !.pc = "persist"]
  OBVIOUS
<1>4. /\ r \in SenderRows /\ r.pc = "persist" /\ r.keys = old.keys /\ r.active = old.active
      /\ r.mem = old.mem
  BY <1>2, <1>3 DEF SenderRows
<1>5. Moves(p, r)
  BY <1>1, <1>2, <1>3 DEF A!Send, A!Set, Moves, AlertsInv, AlertTypes
<1>6. /\ tells' \in [A!Gens -> Nat]
      /\ \A k \in A!Gens : /\ tells[k] # 0 => tells'[k] # 0
                           /\ k \in A!NewKeys(p) => tells'[k] # 0
                           /\ tells'[k] <= tells[k] + One(k \in A!NewKeys(p))
  BY <1>1, CountProperties DEF AlertsInv
<1>7. /\ AlertTypes' /\ sender'[p] = r
      /\ \A q \in Senders : q # p => sender'[q] = sender[q]
  BY <1>1, <1>4, <1>5, <1>6, TypesMove DEF AlertsInv, AlertTypes
<1>8. \A q \in Senders : /\ Busy(q)' <=> Busy(q)
                         /\ sender'[q].keys = sender[q].keys /\ sender'[q].active = sender[q].active
                         /\ sender'[q].mem = sender[q].mem
                         /\ q # p => sender'[q].pc = sender[q].pc
  BY <1>1, <1>2, <1>4, <1>7 DEF Busy
<1>9. /\ file.keys \subseteq A!Gens
      /\ \A q \in Senders : sender[q].mem.keys \subseteq A!Gens /\ sender[q].keys \subseteq A!Gens
  BY DEF AlertsInv, AlertTypes, Files, SenderRows
<1>10. Busy(p)
  BY <1>1 DEF Busy
<1>11. KeysWereTold'
  <2>1. \A k \in file'.keys : tells'[k] # 0
    BY <1>1, <1>6, <1>9 DEF AlertsInv, KeysWereTold
  <2>2. \A q \in Senders : Busy(q)' => \A k \in sender'[q].mem.keys : tells'[k] # 0
    BY <1>6, <1>8, <1>9 DEF AlertsInv, KeysWereTold
  <2>3. \A k \in sender[p].keys : tells'[k] # 0
    BY <1>6, <1>9, <1>10 DEF A!NewKeys, AlertsInv, KeysWereTold
  <2>4. \A q \in Senders : sender'[q].pc = "persist" => \A k \in sender'[q].keys : tells'[k] # 0
    BY <1>6, <1>8, <1>9, <2>3 DEF AlertsInv, KeysWereTold
  <2>5. QED
    BY <2>1, <2>2, <2>4 DEF KeysWereTold, Busy
<1>12. ScopesWereTold'
  <2>1. CASE overlaps = 0
    <3>1. /\ \A q, s \in Senders : Busy(q) /\ Busy(s) => q = s
          /\ file.active \subseteq told
          /\ \A q \in Senders : Busy(q) => sender[q].mem.active \subseteq told
          /\ \A q \in Senders : sender[q].pc = "persist" => sender[q].active \subseteq told
      BY <2>1 DEF AlertsInv, ScopesWereTold
    <3>2. sender[p].active \subseteq told'
      BY <1>1, <1>10, <3>1 DEF A!NewActive
    <3>3. /\ \A q, s \in Senders : Busy(q)' /\ Busy(s)' => q = s
          /\ file'.active \subseteq told'
          /\ \A q \in Senders : Busy(q)' => sender'[q].mem.active \subseteq told'
          /\ \A q \in Senders : sender'[q].pc = "persist" => sender'[q].active \subseteq told'
      BY <1>1, <1>8, <3>1, <3>2
    <3>4. QED
      BY <3>3 DEF ScopesWereTold, Busy
  <2>2. CASE overlaps # 0
    BY <1>1, <2>2 DEF ScopesWereTold
  <2>3. QED
    BY <2>1, <2>2
<1>13. ASSUME NEW k \in A!Gens  PROVE Weight(k)' + losses + overlaps <= Weight(k) + losses' + overlaps'
  <2>1. Exposed(k)' <=> Exposed(k)
    BY <1>1, <1>8 DEF Exposed, Carries
  <2>2. One(Exposed(k)') = One(Exposed(k)) /\ One(Exposed(k)) \in {0, 1}
    BY <2>1 DEF One
  <2>3. p \notin Telling(k)' /\ (p \in Telling(k) <=> k \in A!NewKeys(p))
    BY <1>1, <1>4, <1>7 DEF Telling
  <2>4. /\ One(p \in Telling(k)') = 0 /\ One(p \in Telling(k)) = One(k \in A!NewKeys(p))
        /\ One(p \in Telling(k)) \in {0, 1}
    BY <2>3 DEF One
  <2>5. tells'[k] <= tells[k] + One(p \in Telling(k)) /\ losses' = losses /\ overlaps' = overlaps
    BY <1>1, <1>6, <2>4
  <2>6. QED
    BY <1>7, <2>2, <2>4, <2>5, WeightMoves DEF AlertsInv
<1>14. TellsArePaid'
  BY <1>1, <1>7, <1>13, PaidFor DEF AlertsInv
<1>15. QED
  BY <1>7, <1>11, <1>12, <1>14 DEF AlertsInv

\* The file is written from what the run read (Persist).
LEMMA PersistStep ==
    ASSUME AlertsInv, NEW p \in Senders, A!Persist(p)
    PROVE  AlertsInv'
<1>1. /\ sender[p].pc = "persist" /\ Moves(p, A!Idle)
      /\ UNCHANGED <<gen, open, changes, losses, overlaps, tells>>
  BY DEF A!Persist, A!At, A!World, A!Set, Moves, AlertsInv, AlertTypes
<1>2. PICK old \in SenderRows : old = sender[p]
  BY DEF AlertsInv, AlertTypes
<1>3. /\ file'.keys = old.mem.keys \union old.keys
      /\ file'.active = (old.mem.active \ A!Observed(p)) \union old.active
      /\ told' = told \ (A!Observed(p) \ old.active)
  BY <1>2 DEF A!Persist, A!NewKeys
<1>4. file' \in Files
  <2>1. file' = [keys |-> sender[p].mem.keys \union A!NewKeys(p),
                 active |-> (sender[p].mem.active \ A!Observed(p)) \union sender[p].active]
    BY DEF A!Persist
  <2>2. sender[p].mem.keys \union A!NewKeys(p) \in SUBSET A!Gens
    BY <1>2 DEF SenderRows, Files, A!NewKeys
  <2>3. (sender[p].mem.active \ A!Observed(p)) \union sender[p].active \in SUBSET A!Scopes
    BY <1>2 DEF SenderRows, Files
  <2>4. QED
    BY <2>1, <2>2, <2>3 DEF Files
<1>5. /\ AlertTypes' /\ sender'[p] = A!Idle
      /\ \A q \in Senders : q # p => sender'[q] = sender[q]
  BY <1>1, <1>4, TypesMove, IdleSender DEF AlertsInv, AlertTypes
<1>6. sender'[p].pc = "idle"
  BY <1>5, IdleSender
<1>7. Busy(p) /\ \A q \in Senders : Busy(q)' <=> Busy(q) /\ q # p
  BY <1>1, <1>5, <1>6 DEF Busy
<1>8. KeysWereTold'
  <2>1. \A k \in file'.keys : tells'[k] # 0
    BY <1>1, <1>2, <1>3, <1>7 DEF AlertsInv, KeysWereTold
  <2>2. \A q \in Senders : Busy(q)' => \A k \in sender'[q].mem.keys : tells'[k] # 0
    BY <1>1, <1>5, <1>7 DEF AlertsInv, KeysWereTold
  <2>3. \A q \in Senders : sender'[q].pc = "persist" => \A k \in sender'[q].keys : tells'[k] # 0
    BY <1>1, <1>5, <1>6 DEF AlertsInv, KeysWereTold
  <2>4. QED
    BY <2>1, <2>2, <2>3 DEF KeysWereTold, Busy
<1>9. ScopesWereTold'
  <2>1. CASE overlaps = 0
    <3>1. /\ \A q, s \in Senders : Busy(q) /\ Busy(s) => q = s
          /\ sender[p].mem.active \subseteq told /\ sender[p].active \subseteq told
      BY <1>1, <1>7, <2>1 DEF AlertsInv, ScopesWereTold
    <3>2. \A q \in Senders : ~Busy(q)'
      BY <1>7, <3>1
    <3>3. file'.active \subseteq told'
      BY <1>2, <1>3, <3>1
    <3>4. QED
      BY <3>2, <3>3 DEF ScopesWereTold, Busy
  <2>2. CASE overlaps # 0
    BY <1>1, <2>2 DEF ScopesWereTold
  <2>3. QED
    BY <2>1, <2>2
<1>10. ASSUME NEW k \in A!Gens  PROVE Weight(k)' + losses + overlaps <= Weight(k) + losses' + overlaps'
  <2>1. Exposed(k)' => Exposed(k)
    <3>1. \A q \in Senders : q # p => (Carries(q, k)' <=> Carries(q, k))
      BY <1>5 DEF Carries
    <3>2. k \notin file'.keys => ~Carries(p, k)
      BY <1>2, <1>3 DEF Carries
    <3>3. QED
      BY <1>7, <3>1, <3>2 DEF Exposed
  <2>2. One(Exposed(k)') <= One(Exposed(k)) /\ One(Exposed(k)) \in {0, 1} /\ One(Exposed(k)') \in {0, 1}
    BY <2>1 DEF One
  <2>3. One(p \in Telling(k)) = 0 /\ One(p \in Telling(k)') = 0
    BY <1>1, <1>6 DEF Telling, One
  <2>4. tells'[k] = tells[k] /\ losses' = losses /\ overlaps' = overlaps
    BY <1>1
  <2>5. QED
    BY <1>5, <2>2, <2>3, <2>4, WeightMoves DEF AlertsInv
<1>11. TellsArePaid'
  BY <1>1, <1>5, <1>10, PaidFor DEF AlertsInv
<1>12. QED
  BY <1>5, <1>8, <1>9, <1>11 DEF AlertsInv

\* A run that starts from the file, or from nothing when the file cannot be read, is one more
\* that will write it (Read).
LEMMA ReadStep ==
    ASSUME AlertsInv, NEW p \in Senders, NEW m \in Files, sender[p].pc = "pass",
           sender' = [sender EXCEPT ![p] = [[sender[p] EXCEPT !.pc = "send"] EXCEPT !.mem = m]],
           UNCHANGED <<gen, open, changes, file, tells, told>>,
           overlaps' = IF A!Between(p) /\ overlaps <= MaxOverlaps THEN overlaps + 1 ELSE overlaps,
           (m = file /\ losses' = losses) \/ (m = A!EmptyFile /\ losses' = losses + 1)
    PROVE  AlertsInv'
<1>1. PICK old \in SenderRows : old = sender[p] /\ old.pc = "pass"
  BY DEF AlertsInv, AlertTypes
<1>2. PICK r : r = [[old EXCEPT !.pc = "send"] EXCEPT !.mem = m]
  OBVIOUS
<1>3. /\ r \in SenderRows /\ r.pc = "send" /\ r.keys = old.keys /\ r.mem = m
  BY <1>1, <1>2 DEF SenderRows
<1>4. losses \in Nat /\ overlaps \in Nat /\ losses' \in Nat /\ overlaps' \in Nat /\ MaxOverlaps \in Nat
  BY SendersAreFinite DEF AlertsInv, AlertTypes
<1>5. Moves(p, r)
  BY <1>1, <1>2, <1>4 DEF Moves
<1>6. /\ AlertTypes' /\ sender'[p] = r
      /\ \A q \in Senders : q # p => sender'[q] = sender[q]
  BY <1>3, <1>5, TypesMove DEF AlertsInv, AlertTypes
<1>7. ~Busy(p) /\ \A q \in Senders : Busy(q)' <=> Busy(q) \/ q = p
  BY <1>1, <1>3, <1>6 DEF Busy
<1>8. A!Between(p) <=> \E q \in Senders : Busy(q)
  BY <1>7 DEF A!Between, Busy
<1>9. m.keys \subseteq file.keys /\ m.active \subseteq file.active
  BY IdleSender
<1>10. KeysWereTold'
  <2>1. \A k \in file'.keys : tells'[k] # 0
    BY DEF AlertsInv, KeysWereTold
  <2>2. \A q \in Senders : Busy(q)' => \A k \in sender'[q].mem.keys : tells'[k] # 0
    BY <1>3, <1>6, <1>7, <1>9 DEF AlertsInv, KeysWereTold
  <2>3. \A q \in Senders : sender'[q].pc = "persist" => \A k \in sender'[q].keys : tells'[k] # 0
    BY <1>3, <1>6 DEF AlertsInv, KeysWereTold
  <2>4. QED
    BY <2>1, <2>2, <2>3 DEF KeysWereTold, Busy
<1>11. ScopesWereTold'
  <2>1. SUFFICES ASSUME overlaps' = 0
                 PROVE  /\ \A q, s \in Senders : Busy(q)' /\ Busy(s)' => q = s
                        /\ file'.active \subseteq told'
                        /\ \A q \in Senders : Busy(q)' => sender'[q].mem.active \subseteq told'
                        /\ \A q \in Senders : sender'[q].pc = "persist" => sender'[q].active \subseteq told'
    BY DEF ScopesWereTold, Busy
  <2>2. overlaps = 0 /\ ~A!Between(p)
    BY <1>4, <2>1
  <2>3. \A q \in Senders : ~Busy(q)
    BY <1>8, <2>2
  <2>4. file.active \subseteq told
    BY <2>2 DEF AlertsInv, ScopesWereTold
  <2>5. \A q \in Senders : Busy(q)' => q = p
    BY <1>7, <2>3
  <2>6. QED
    BY <1>3, <1>6, <1>9, <2>4, <2>5 DEF Busy
<1>12. overlaps' <= MaxOverlaps => overlaps <= MaxOverlaps
  BY <1>4
<1>13. ASSUME NEW k \in A!Gens, overlaps <= MaxOverlaps
       PROVE  Weight(k)' + losses + overlaps <= Weight(k) + losses' + overlaps'
  <2>1. p \notin Telling(k) /\ (p \in Telling(k)' <=> k \in old.keys /\ k \notin m.keys)
    BY <1>1, <1>3, <1>6 DEF Telling, A!NewKeys
  <2>2. Carries(p, k)' <=> k \in m.keys \/ k \in old.keys
    BY <1>3, <1>6 DEF Carries
  <2>3. \A q \in Senders : q # p => (Carries(q, k)' <=> Carries(q, k))
    BY <1>6 DEF Carries
  <2>4. /\ One(p \in Telling(k)) = 0 /\ One(p \in Telling(k)') \in {0, 1}
        /\ One(Exposed(k)) \in {0, 1} /\ One(Exposed(k)') \in {0, 1}
        /\ (One(p \in Telling(k)') = 1 <=> p \in Telling(k)')
        /\ (One(Exposed(k)) = 1 <=> Exposed(k)) /\ (One(Exposed(k)') = 1 <=> Exposed(k)')
    BY <2>1 DEF One
  <2>5. PICK lost \in {0, 1} : losses' = losses + lost /\ (lost = 0 => m = file)
    BY <1>4
  <2>6. CASE A!Between(p)
    <3>1. overlaps' = overlaps + 1
      BY <1>13, <2>6
    <3>2. lost = 0 /\ p \in Telling(k)' /\ Exposed(k)' => Exposed(k)
      <4>1. p \in Telling(k)' => Carries(p, k)' /\ Busy(p)'
        BY <1>7, <2>1, <2>2
      <4>2. p \in Telling(k)' /\ Exposed(k)' => \E q \in Senders : Busy(q)' /\ ~Carries(q, k)'
        BY <4>1 DEF Exposed, Busy
      <4>3. QED
        BY <1>7, <2>3, <4>1, <4>2 DEF Exposed
    <3>3. One(p \in Telling(k)') + One(Exposed(k)') <= One(Exposed(k)) + lost + 1
      BY <2>4, <2>5, <3>2
    <3>4. QED
      BY <1>4, <1>6, <2>4, <2>5, <3>1, <3>3, WeightMoves DEF AlertsInv
  <2>7. CASE ~A!Between(p)
    <3>1. \A q \in Senders : ~Busy(q) /\ (Busy(q)' <=> q = p)
      BY <1>7, <1>8, <2>7
    <3>2. Exposed(k) <=> k \notin file.keys
      BY <3>1 DEF Exposed
    <3>3. Exposed(k)' <=> ~Carries(p, k)'
      BY <1>9, <2>2, <3>1 DEF Exposed
    <3>4. /\ ~(p \in Telling(k)' /\ Exposed(k)')
          /\ lost = 0 /\ (p \in Telling(k)' \/ Exposed(k)') => Exposed(k)
      BY <2>1, <2>2, <2>5, <3>2, <3>3
    <3>5. One(p \in Telling(k)') + One(Exposed(k)') <= One(Exposed(k)) + lost
      BY <2>4, <2>5, <3>4
    <3>6. overlaps' = overlaps
      BY <2>7
    <3>7. QED
      BY <1>4, <1>6, <2>4, <2>5, <3>5, <3>6, WeightMoves DEF AlertsInv
  <2>8. QED
    BY <2>6, <2>7
<1>14. TellsArePaid'
  BY <1>6, <1>12, <1>13, PaidFor DEF AlertsInv
<1>15. QED
  BY <1>6, <1>10, <1>11, <1>14 DEF AlertsInv

\* An incident begins or ends (Change).
LEMMA ChangeStep ==
    ASSUME AlertsInv, A!Change
    PROVE  AlertsInv'
<1>1. /\ UNCHANGED <<file, sender, losses, overlaps, tells, told>>
      /\ changes < MaxChanges /\ changes' = changes + 1
  BY DEF A!Change
<1>2. PICK i \in A!Incident :
        /\ open' = IF i \in open THEN open \ {i} ELSE open \union {i}
        /\ gen' = IF i.kind = "blocked" /\ i \notin open
                  THEN [gen EXCEPT ![i.board] = @ + 1] ELSE gen
  BY DEF A!Change
<1>3. i.board \in Boards /\ \A b \in Boards : A!Blocked(b) = i => i.kind = "blocked" /\ i.board = b
  BY DEF A!Incident, A!Blocked
<1>4. /\ changes \in Nat /\ MaxChanges \in Nat /\ gen \in [Boards -> Nat]
      /\ \A b \in Boards : gen[b] <= changes /\ (A!Blocked(b) \in open => gen[b] # 0)
  BY SendersAreFinite DEF AlertsInv, AlertTypes
<1>5. /\ gen' \in [Boards -> Nat]
      /\ \A b \in Boards : /\ gen'[b] = gen[b] \/ gen'[b] = gen[b] + 1
                           /\ b = i.board /\ i.kind = "blocked" /\ i \notin open => gen'[b] = gen[b] + 1
  BY <1>2, <1>3, <1>4
<1>6. \A b \in Boards : gen'[b] <= changes'
  BY <1>1, <1>4, <1>5
<1>7. ASSUME NEW b \in Boards, A!Blocked(b) \in open'  PROVE gen'[b] # 0
  <2>1. CASE A!Blocked(b) \in open
    BY <1>4, <1>5, <2>1
  <2>2. CASE A!Blocked(b) \notin open
    <3>1. A!Blocked(b) = i
      BY <1>2, <1>7, <2>2
    <3>2. gen'[b] = gen[b] + 1
      BY <1>3, <1>5, <2>2, <3>1
    <3>3. QED
      BY <1>4, <3>2
  <2>3. QED
    BY <2>1, <2>2
<1>8. AlertTypes'
  <2>1. open' \subseteq A!Incident
    BY <1>2 DEF AlertsInv, AlertTypes
  <2>2. changes' \in Nat /\ changes' <= MaxChanges
    BY <1>1, <1>4
  <2>3. QED
    BY <1>1, <1>5, <1>6, <1>7, <2>1, <2>2 DEF AlertsInv, AlertTypes
<1>9. KeysWereTold' /\ ScopesWereTold'
  BY <1>1 DEF AlertsInv, KeysWereTold, ScopesWereTold, Busy
<1>10. TellsArePaid'
  BY <1>1 DEF AlertsInv, TellsArePaid, Weight, Telling, Exposed, Busy, Carries, A!NewKeys
<1>11. QED
  BY <1>8, <1>9, <1>10 DEF AlertsInv

\* A run begins over the boards it is for (Start).
LEMMA StartStep ==
    ASSUME AlertsInv, NEW p \in Senders, A!Start(p)
    PROVE  AlertsInv'
<1>1. /\ sender[p].pc = "idle" /\ UNCHANGED <<gen, open, changes, file, losses, overlaps, tells, told>>
  BY DEF A!Start, A!At, A!World
<1>2. PICK B \in SUBSET Boards :
        sender' = [sender EXCEPT ![p] = [[A!Idle EXCEPT !.pc = "pass"] EXCEPT !.todo = B]]
  <2>1. PICK B \in IF p = Wake THEN {Boards} ELSE {{b} : b \in Boards} :
          A!Set(p, [A!Idle EXCEPT !.pc = "pass", !.todo = B])
    BY DEF A!Start
  <2>2. B \in SUBSET Boards
    BY <2>1
  <2>3. [A!Idle EXCEPT !.pc = "pass", !.todo = B] = [[A!Idle EXCEPT !.pc = "pass"] EXCEPT !.todo = B]
    OBVIOUS
  <2>4. QED
    BY <2>1, <2>2, <2>3 DEF A!Set
<1>3. PICK r : r = [[A!Idle EXCEPT !.pc = "pass"] EXCEPT !.todo = B]
  OBVIOUS
<1>4. r \in SenderRows /\ r.pc = "pass" /\ r.mem = A!EmptyFile
  BY <1>3, IdleSender DEF SenderRows
<1>5. losses \in Nat /\ overlaps \in Nat
  BY DEF AlertsInv, AlertTypes
<1>6. Moves(p, r)
  BY <1>1, <1>2, <1>3, <1>5 DEF Moves
<1>7. ~Busy(p)
  BY <1>1 DEF Busy
<1>8. QED
  BY <1>1, <1>4, <1>5, <1>6, <1>7, StillStep

\* A pass over one board reports its incidents (Observe).
LEMMA ObserveStep ==
    ASSUME AlertsInv, NEW p \in Senders, A!Observe(p)
    PROVE  AlertsInv'
<1>1. /\ sender[p].pc = "pass" /\ UNCHANGED <<gen, open, changes, file, losses, overlaps, tells, told>>
  BY DEF A!Observe, A!At, A!World
<1>2. PICK old \in SenderRows : old = sender[p] /\ old.mem = A!EmptyFile /\ old.pc = "pass"
  BY <1>1 DEF AlertsInv, AlertTypes
<1>3. PICK b \in old.todo :
        sender' = [sender EXCEPT ![p] =
          [sender[p] EXCEPT !.todo = @ \ {b}, !.seen = @ \union {b}, !.keys = @ \union A!KeysOf(b),
                            !.active = @ \union A!ActiveOf(b)]]
  BY <1>2 DEF A!Observe, A!Set
<1>4. PICK r : r = [old EXCEPT !.todo = @ \ {b}, !.seen = @ \union {b}, !.keys = @ \union A!KeysOf(b),
                               !.active = @ \union A!ActiveOf(b)]
  OBVIOUS
<1>5. b \in Boards
  BY <1>2 DEF SenderRows
<1>6. A!KeysOf(b) \subseteq A!Gens /\ A!ActiveOf(b) \subseteq A!Scopes
  BY <1>5, ReportIsTyped DEF AlertsInv
<1>7. r \in SenderRows /\ r.pc = "pass" /\ r.mem = A!EmptyFile
  <2>1. PICK todo \in SUBSET Boards : todo = old.todo \ {b}
    BY DEF SenderRows
  <2>2. PICK seen \in SUBSET Boards : seen = old.seen \union {b}
    BY <1>5 DEF SenderRows
  <2>3. PICK keys \in SUBSET A!Gens : keys = old.keys \union A!KeysOf(b)
    BY <1>6 DEF SenderRows
  <2>4. PICK active \in SUBSET A!Scopes : active = old.active \union A!ActiveOf(b)
    BY <1>6 DEF SenderRows
  <2>5. r = [pc |-> old.pc, todo |-> todo, failed |-> old.failed, seen |-> seen, keys |-> keys,
             active |-> active, mem |-> old.mem]
    BY <1>4, <2>1, <2>2, <2>3, <2>4 DEF SenderRows
  <2>6. QED
    BY <1>2, <2>5 DEF SenderRows
<1>8. losses \in Nat /\ overlaps \in Nat
  BY DEF AlertsInv, AlertTypes
<1>9. Moves(p, r)
  BY <1>1, <1>2, <1>3, <1>4, <1>8 DEF Moves
<1>10. ~Busy(p)
  BY <1>1 DEF Busy
<1>11. QED
  BY <1>1, <1>7, <1>8, <1>9, <1>10, StillStep

\* A pass over one board fails (ObserveFails).
LEMMA ObserveFailsStep ==
    ASSUME AlertsInv, NEW p \in Senders, A!ObserveFails(p)
    PROVE  AlertsInv'
<1>1. /\ sender[p].pc = "pass" /\ UNCHANGED <<gen, open, changes, file, overlaps, tells, told>>
      /\ losses' = losses + 1
  BY DEF A!ObserveFails, A!At, A!World, A!Fault
<1>2. PICK old \in SenderRows : old = sender[p] /\ old.mem = A!EmptyFile /\ old.pc = "pass"
  BY <1>1 DEF AlertsInv, AlertTypes
<1>3. PICK b \in old.todo :
        sender' = [sender EXCEPT ![p] = IF p # Wake THEN A!Idle
                     ELSE [sender[p] EXCEPT !.todo = @ \ {b}, !.failed = TRUE]]
  BY <1>2 DEF A!ObserveFails, A!Set
<1>4. PICK s : s = [old EXCEPT !.todo = @ \ {b}, !.failed = TRUE]
  OBVIOUS
<1>5. s \in SenderRows /\ s.pc = "pass" /\ s.mem = A!EmptyFile
  <2>1. PICK todo \in SUBSET Boards : todo = old.todo \ {b}
    BY DEF SenderRows
  <2>2. s = [pc |-> old.pc, todo |-> todo, failed |-> TRUE, seen |-> old.seen, keys |-> old.keys,
             active |-> old.active, mem |-> old.mem]
    BY <1>4, <2>1 DEF SenderRows
  <2>3. QED
    BY <1>2, <2>2 DEF SenderRows
<1>6. PICK r : r = IF p # Wake THEN A!Idle ELSE s
  OBVIOUS
<1>7. r \in SenderRows /\ r.pc \in {"idle", "pass"} /\ r.mem = A!EmptyFile
  BY <1>5, <1>6, IdleSender
<1>8. losses \in Nat /\ overlaps \in Nat
  BY DEF AlertsInv, AlertTypes
<1>9. Moves(p, r)
  <2>1. sender' = [sender EXCEPT ![p] = r]
    BY <1>2, <1>3, <1>4, <1>6
  <2>2. losses' \in Nat /\ overlaps' \in Nat
    BY <1>1, <1>8
  <2>3. QED
    BY <1>1, <2>1, <2>2 DEF Moves
<1>10. ~Busy(p) /\ losses <= losses'
  BY <1>1, <1>8 DEF Busy
<1>11. QED
  BY <1>1, <1>7, <1>9, <1>10, StillStep

\* A run is requeued, or goes on to the file (Read).
LEMMA ReadsStep ==
    ASSUME AlertsInv, NEW p \in Senders, A!Read(p)
    PROVE  AlertsInv'
<1>1. /\ sender[p].pc = "pass" /\ UNCHANGED <<gen, open, changes, file, tells, told>>
  BY DEF A!Read, A!At, A!World
<1>2. losses \in Nat /\ overlaps \in Nat /\ file \in Files
  BY DEF AlertsInv, AlertTypes
<1>3. PICK old \in SenderRows : old = sender[p] /\ old.mem = A!EmptyFile
  BY <1>1 DEF AlertsInv, AlertTypes
<1>4. CASE A!Set(p, A!Idle) /\ UNCHANGED <<losses, overlaps>>
  <2>1. Moves(p, A!Idle)
    BY <1>1, <1>2, <1>4 DEF Moves, A!Set
  <2>2. ~Busy(p)
    BY <1>1 DEF Busy
  <2>3. QED
    BY <1>1, <1>2, <1>4, <2>1, <2>2, IdleSender, StillStep
<1>5. CASE /\ overlaps' = IF A!Between(p) /\ overlaps <= MaxOverlaps THEN overlaps + 1 ELSE overlaps
           /\ A!Set(p, [sender[p] EXCEPT !.pc = "send", !.mem = file]) /\ UNCHANGED losses
  <2>1. [old EXCEPT !.pc = "send", !.mem = file] = [[old EXCEPT !.pc = "send"] EXCEPT !.mem = file]
    BY DEF SenderRows
  <2>2. sender' = [sender EXCEPT ![p] = [[sender[p] EXCEPT !.pc = "send"] EXCEPT !.mem = file]]
    BY <1>3, <1>5, <2>1 DEF A!Set
  <2>3. QED
    BY <1>1, <1>2, <1>5, <2>2, ReadStep
<1>6. CASE /\ overlaps' = IF A!Between(p) /\ overlaps <= MaxOverlaps THEN overlaps + 1 ELSE overlaps
           /\ A!Set(p, [sender[p] EXCEPT !.pc = "send"]) /\ A!Fault
  <2>1. [old EXCEPT !.pc = "send"] = [[old EXCEPT !.pc = "send"] EXCEPT !.mem = A!EmptyFile]
    BY <1>3 DEF SenderRows
  <2>2. sender' = [sender EXCEPT ![p] = [[sender[p] EXCEPT !.pc = "send"] EXCEPT !.mem = A!EmptyFile]]
    BY <1>3, <1>6, <2>1 DEF A!Set
  <2>3. losses' = losses + 1
    BY <1>6 DEF A!Fault
  <2>4. QED
    BY <1>1, <1>6, <2>2, <2>3, ReadStep, IdleSender
<1>7. QED
  BY <1>4, <1>5, <1>6 DEF A!Read

\* A send or a write fails, or the process dies (SendFails, PersistFails, Crash).
LEMMA FailuresStep ==
    ASSUME AlertsInv, NEW p \in Senders, A!SendFails(p) \/ A!PersistFails(p) \/ A!Crash(p)
    PROVE  AlertsInv'
<1>1. /\ sender' = [sender EXCEPT ![p] = A!Idle] /\ UNCHANGED <<gen, open, changes, file, overlaps>>
      /\ losses' = losses + 1
  BY DEF A!SendFails, A!PersistFails, A!Crash, A!Set, A!World, A!Fault
<1>2. losses \in Nat /\ overlaps \in Nat
  BY DEF AlertsInv, AlertTypes
<1>3. Moves(p, A!Idle)
  BY <1>1, <1>2 DEF Moves
<1>4. \/ UNCHANGED <<tells, told>>
      \/ /\ sender[p].pc = "send" /\ tells' = A!Count(A!NewKeys(p))
         /\ told' = told \union A!NewActive(p)
  BY DEF A!SendFails, A!PersistFails, A!Crash, A!At
<1>5. CASE Busy(p)
  BY <1>1, <1>3, <1>4, <1>5, LossStep
<1>6. CASE ~Busy(p)
  <2>1. UNCHANGED <<tells, told>>
    BY <1>4, <1>6 DEF Busy
  <2>2. losses <= losses'
    BY <1>1, <1>2
  <2>3. QED
    BY <1>1, <1>3, <1>6, <2>1, <2>2, IdleSender, StillStep
<1>7. QED
  BY <1>5, <1>6

-----------------------------------------------------------------------------
(* No alert is lost to the file, and no incident is a storm                 *)

\* Nothing is open, recorded or told at first.
LEMMA AlertsInitially == A!Init => AlertsInv
<1>1. SUFFICES ASSUME A!Init PROVE AlertsInv
  OBVIOUS
<1>2. /\ gen = [b \in Boards |-> 0] /\ open = {} /\ file = A!EmptyFile
      /\ sender = [p \in Senders |-> A!Idle] /\ changes = 0 /\ losses = 0 /\ overlaps = 0
      /\ tells = [k \in A!Gens |-> 0] /\ told = {}
  BY <1>1 DEF A!Init
<1>3. \A p \in Senders : sender[p].pc = "idle" /\ ~Busy(p)
  BY <1>2, IdleSender DEF Busy
<1>4. AlertTypes
  BY <1>2, <1>3, IdleSender, SendersAreFinite DEF AlertTypes
<1>5. KeysWereTold /\ ScopesWereTold
  BY <1>2, <1>3, IdleSender DEF KeysWereTold, ScopesWereTold
<1>6. ASSUME NEW k \in A!Gens  PROVE Weight(k) = 1
  <2>1. Telling(k) = {}
    BY <1>3 DEF Telling
  <2>2. Cardinality(Telling(k)) = 0
    BY <2>1, FS_EmptySet
  <2>3. Exposed(k)
    BY <1>2, <1>3, IdleSender DEF Exposed
  <2>4. QED
    BY <1>2, <2>2, <2>3 DEF Weight, One
<1>7. TellsArePaid
  BY <1>2, <1>6 DEF TellsArePaid
<1>8. QED
  BY <1>4, <1>5, <1>7 DEF AlertsInv

\* Every step of a run, and every incident, keeps the invariant.
LEMMA AlertsStep == AlertsInv /\ [A!Next]_A!vars => AlertsInv'
<1>1. SUFFICES ASSUME AlertsInv, [A!Next]_A!vars PROVE AlertsInv'
  OBVIOUS
<1>2. CASE UNCHANGED A!vars
  <2>1. UNCHANGED <<gen, open, file, sender, changes, losses, overlaps, tells, told>>
    BY <1>2 DEF A!vars
  <2>2. AlertTypes' /\ KeysWereTold' /\ ScopesWereTold'
    BY <1>1, <2>1 DEF AlertsInv, AlertTypes, KeysWereTold, ScopesWereTold, Busy
  <2>3. TellsArePaid'
    BY <1>1, <2>1 DEF AlertsInv, TellsArePaid, Weight, Telling, Exposed, Busy, Carries, A!NewKeys
  <2>4. QED
    BY <2>2, <2>3 DEF AlertsInv
<1>3. ASSUME NEW p \in Senders, A!Start(p) PROVE AlertsInv'
  BY <1>1, <1>3, StartStep
<1>4. ASSUME NEW p \in Senders, A!Steps(p) PROVE AlertsInv'
  BY <1>1, <1>4, ObserveStep, ReadsStep, SendStep, PersistStep DEF A!Steps
<1>5. ASSUME NEW p \in Senders, A!ObserveFails(p) PROVE AlertsInv'
  BY <1>1, <1>5, ObserveFailsStep
<1>6. ASSUME NEW p \in Senders, A!SendFails(p) \/ A!PersistFails(p) \/ A!Crash(p) PROVE AlertsInv'
  BY <1>1, <1>6, FailuresStep
<1>7. CASE A!Change
  BY <1>1, <1>7, ChangeStep
<1>8. QED
  BY <1>1, <1>2, <1>3, <1>4, <1>5, <1>6, <1>7 DEF A!Next

\* However many intake processes overlap and whatever fails, what the deduplication file holds
\* back was told, and one generation is told no more often than once, once more for every loss
\* and once more for every run that read the file between another's reading and writing of it
\* (the operator attention of the intake: payload, send and persist_observer_state).
THEOREM AlertsKeepSound == A!Spec => []AlertsAreSound
<1>1. AlertsInv => AlertsAreSound
  <2> SUFFICES ASSUME AlertsInv PROVE AlertsAreSound
    OBVIOUS
  <2>1. \A k \in file.keys : k \in A!Gens /\ tells[k] \in Nat /\ tells[k] # 0
    BY DEF AlertsInv, AlertTypes, KeysWereTold, Files
  <2>2. A!RecordedWasTold
    BY <2>1 DEF A!RecordedWasTold, AlertsInv, ScopesWereTold
  <2>3. ASSUME NEW k \in A!Gens, overlaps <= MaxOverlaps  PROVE tells[k] <= 1 + losses + overlaps
    <3>1. /\ tells[k] \in Nat /\ Cardinality(Telling(k)) \in Nat /\ losses \in Nat /\ overlaps \in Nat
      BY TellingIsFinite DEF AlertsInv, AlertTypes
    <3>2. tells[k] + Cardinality(Telling(k)) + One(Exposed(k)) <= 1 + losses + overlaps
      BY <2>3 DEF AlertsInv, TellsArePaid, Weight
    <3>3. One(Exposed(k)) \in {0, 1}
      BY DEF One
    <3>4. QED
      BY <3>1, <3>2, <3>3
  <2>4. A!AlertsAreBounded
    BY <2>3 DEF A!AlertsAreBounded
  <2>5. QED
    BY <2>2, <2>4 DEF AlertsAreSound
<1>2. QED
  BY AlertsInitially, AlertsStep, <1>1, PTL DEF A!Spec
=============================================================================
