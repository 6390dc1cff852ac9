------------------------------ MODULE Admission ------------------------------
(***************************************************************************)
(* Worker admission across boards: the resource gate of the core           *)
(* dispatcher's claims and of the edge rework lane, the reaping of a       *)
(* superseded worker, the count of occupied slots, the claim, the          *)
(* workspace gate before the spawn and the rebinding of drifted cards.     *)
(* One resource of Capacity slots serves the profiles of Pool while their  *)
(* configuration names a local backend.  A run's worker is a process that  *)
(* may outlive its run; its PID is written after the spawn.                *)
(***************************************************************************)
EXTENDS Naturals, FiniteSets, Sequences

CONSTANTS Cards,      \* numbered in the order they were created
          BoardOf,    \* the board of each card
          Edges,      \* edge passes; the core dispatcher is one more process
          Core,
          Profiles, Pool, Default, \* who may work, who is limited, who reworks
          Reserved,   \* REWORK_RESERVED_ASSIGNEE
          Capacity,
          MaxRuns,    \* bound on the runs of a card
          MaxFaults,  \* bound on kills and failing calls
          MaxFlips    \* bound on edits of the profiles' configuration

ASSUME AdmissionAssumption ==
  /\ IsFiniteSet(Cards) /\ Cards \subseteq Nat \ {0} /\ Core \notin Edges
  /\ Pool \subseteq Profiles /\ Default \in Profiles /\ Reserved \notin Profiles
  /\ Capacity \in Nat \ {0} /\ MaxRuns \in Nat /\ MaxFaults \in Nat /\ MaxFlips \in Nat

VARIABLES card,     \* the rows of the boards' tasks
          runs,     \* their task_runs, with the processes behind them
          backend,  \* what each profile's configuration resolves to
          proc,     \* the progress of the core dispatcher and the edge passes
          faults, flips

vars == <<card, runs, backend, proc, faults, flips>>

Procs == Edges \union {Core}
NoCard == 0
Idle == [pc |-> "idle", card |-> NoCard, gated |-> FALSE]

(* Ordinary cards of a pooled profile, and cards done once with a pull     *)
(* request, whose next round the edge owns.                                *)
Init ==
  /\ card \in [Cards -> [status : {"ready"}, who : Profiles, rework : {FALSE}, bound : {TRUE}]
                        \union [status : {"ready"}, who : {Reserved}, rework : {TRUE}, bound : BOOLEAN]]
  /\ runs = [c \in Cards |-> <<>>]
  /\ backend = [w \in Profiles |-> "local"]
  /\ proc = [p \in Procs |-> Idle]
  /\ faults = 0 /\ flips = 0

RunRow == [who : Profiles, gated : BOOLEAN, \* the gate was passed for it
           pid : BOOLEAN,                   \* worker_pid is on record
           ended : BOOLEAN, live : BOOLEAN,
           slipped : BOOLEAN]               \* its profile is or went out of the pool

TypeOK ==
  /\ \A c \in Cards :
       /\ card[c].status \in {"ready", "running", "done"}
       /\ card[c].who \in Profiles \union {Reserved}
       /\ \A n \in 1..Len(runs[c]) :
            /\ runs[c][n] \in RunRow
            /\ ~runs[c][n].ended <=> n = Len(runs[c]) /\ card[c].status = "running"
       /\ Len(runs[c]) <= MaxRuns
       /\ card[c].status = "running" => card[c].who \in Profiles
  /\ \A p \in Procs : proc[p].pc \in {"idle", "look", "claim", "spawn", "record"}

-----------------------------------------------------------------------------
At(p, pc) == proc[p].pc = pc
Goto(p, pc) == proc' = [proc EXCEPT ![p].pc = pc]
Stop(p) == proc' = [proc EXCEPT ![p] = Idle]
Fault == faults < MaxFaults /\ faults' = faults + 1
World == <<backend, flips>>

\* _backend_matches: an unreadable configuration protects the slot.
Matches(who) == who \in Pool /\ backend[who] \in {"local", "unknown"}

\* The core releases the resource after its claim; a pass keeps it.
HoldsResource(p) ==
  /\ proc[p].gated
  /\ proc[p].pc \in IF p = Core THEN {"claim"} ELSE {"claim", "spawn", "record"}
\* _dispatch_tick_lock: the core takes it first, a pass after the gate.
HoldsBoard(p, b) ==
  /\ proc[p].card # NoCard /\ BoardOf[proc[p].card] = b
  /\ IF p = Core THEN proc[p].pc # "idle" ELSE proc[p].pc \in {"spawn", "record"}
BoardFree(p, b) == \A q \in Procs \ {p} : ~HoldsBoard(q, b)

Pending(b) ==
  {c \in Cards : BoardOf[c] = b /\ card[c].status = "ready" /\ card[c].rework}
First(S) == CHOOSE c \in S : \A d \in S : c <= d

Current(c) == runs[c][Len(runs[c])]
SetCurrent(c, r) == runs' = [runs EXCEPT ![c][Len(runs[c])] = r]
EndRun(c) == runs' = [runs EXCEPT ![c][Len(runs[c])].ended = TRUE]

\* _active_resource_workers: live recorded workers, and claims without a PID.
Reserving(c, R) == card[c].status = "running" /\ ~R[c][Len(R[c])].pid
Rows == Cards \X (1..MaxRuns)
(* Wrong on purpose: a claim whose worker is not up yet is not counted.    *)
WrongOccupied(R) ==
  {r \in Rows :
     /\ r[2] <= Len(R[r[1]]) /\ Matches(R[r[1]][r[2]].who)
     /\ R[r[1]][r[2]].pid /\ R[r[1]][r[2]].live}
(* Wrong on purpose: a recorded PID counts, whether it lives or not.       *)
WrongLiveness(R) ==
  {r \in Rows :
     /\ r[2] <= Len(R[r[1]]) /\ Matches(R[r[1]][r[2]].who)
     /\ R[r[1]][r[2]].pid \/ (r[2] = Len(R[r[1]]) /\ Reserving(r[1], R))}
Occupied(R) ==
  {r \in Rows :
     /\ r[2] <= Len(R[r[1]]) /\ Matches(R[r[1]][r[2]].who)
     /\ \/ R[r[1]][r[2]].pid /\ R[r[1]][r[2]].live
        \/ r[2] = Len(R[r[1]]) /\ Reserving(r[1], R)}

\* _latest_task_run: the newest run with a PID, 0 for none.
LatestPid(c) ==
  LET P == {n \in 1..Len(runs[c]) : runs[c][n].pid}
  IN IF P = {} THEN 0 ELSE CHOOSE n \in P : \A k \in P : k <= n

(* A superseded worker is terminated before its card is claimed again, an  *)
(* active one never.                                                       *)
Quiesce(c) ==
  LET n == LatestPid(c)
  IN IF n = 0 \/ ~runs[c][n].live THEN [ok |-> TRUE, runs |-> runs]
     ELSE IF ~runs[c][n].ended THEN [ok |-> FALSE, runs |-> runs]
     ELSE [ok |-> TRUE, runs |-> [runs EXCEPT ![c][n].live = FALSE]]

-----------------------------------------------------------------------------
(* The core dispatcher takes the board's lock and one of its ready cards.  *)
(* Nobody has the reserved name, so it passes over reserved cards; the     *)
(* respawn guard lets a valid rework through.                              *)
CoreLooks ==
  /\ At(Core, "idle")
  /\ \E c \in Cards :
       /\ card[c].status = "ready" /\ card[c].who \in Profiles /\ Len(runs[c]) < MaxRuns
       /\ BoardFree(Core, BoardOf[c])
       /\ proc' = [proc EXCEPT ![Core] = [pc |-> "look", card |-> c, gated |-> FALSE]]
  /\ UNCHANGED <<card, runs, World, faults>>

\* _drift_scan: implementation cards nobody has claimed, in a shared checkout.
Drifted(b) == {c \in Cards : BoardOf[c] = b /\ card[c].status = "ready" /\ ~card[c].bound}

(* A pass rebinds the board's drifted cards, unless their anchor is not to *)
(* be found, and takes the oldest pending rework.                          *)
EdgeLooks(p) ==
  /\ p \in Edges /\ At(p, "idle")
  /\ \E b \in {BoardOf[c] : c \in Cards} : \E found \in BOOLEAN :
       /\ Pending(b) # {} /\ Len(runs[First(Pending(b))]) < MaxRuns
       /\ ~found => faults < MaxFaults
       /\ faults' = IF found THEN faults ELSE faults + 1
       /\ card' = [c \in Cards |->
            IF found /\ c \in Drifted(b) THEN [card[c] EXCEPT !.bound = TRUE] ELSE card[c]]
       /\ proc' = [proc EXCEPT ![p] = [pc |-> "look", card |-> First(Pending(b)), gated |-> FALSE]]
  /\ UNCHANGED <<runs, World>>

(* The gate.  What no resource limits goes on without it; a held lock, an  *)
(* active or unverifiable old worker, or a full resource ends the attempt. *)
Admit(p) ==
  /\ At(p, "look")
  /\ \E c \in {proc[p].card} :
       \/ ~Matches(card[c].who) /\ Goto(p, "claim") /\ UNCHANGED runs
       \/ /\ Matches(card[c].who)
          /\ \/ /\ (\E q \in Procs : HoldsResource(q)) \/ ~Quiesce(c).ok
                /\ Stop(p) /\ UNCHANGED runs
             \/ /\ \A q \in Procs : ~HoldsResource(q)
                /\ Quiesce(c).ok /\ runs' = Quiesce(c).runs
                /\ IF Cardinality(Occupied(Quiesce(c).runs)) >= Capacity THEN Stop(p)
                   ELSE proc' = [proc EXCEPT ![p].pc = "claim", ![p].gated = TRUE]
  /\ UNCHANGED <<card, World, faults>>

(* The old worker cannot be verified or does not die, or a board cannot be *)
(* inspected.                                                              *)
AdmitFails(p) ==
  /\ At(p, "look") /\ Matches(card[proc[p].card].who) /\ Fault
  /\ Stop(p)
  /\ UNCHANGED <<card, runs, World>>

NewRun(who, gated) ==
  [who |-> who, gated |-> gated, pid |-> FALSE, ended |-> FALSE, live |-> FALSE,
   slipped |-> ~Matches(who)]
ClaimCard(p, c, who) ==
  /\ card' = [card EXCEPT ![c].status = "running", ![c].who = who]
  /\ runs' = [runs EXCEPT ![c] = Append(@, NewRun(who, proc[p].gated))]
  /\ proc' = [proc EXCEPT ![p].pc = "spawn", ![p].card = c]

CoreClaims ==
  /\ At(Core, "claim")
  /\ ClaimCard(Core, proc[Core].card, card[proc[Core].card].who)
  /\ UNCHANGED <<World, faults>>

(* The edge lane under the board's lock: one running card per board, the   *)
(* oldest pending rework read again (only the candidate, once gated), the  *)
(* reservation replaced by the default assignee.                           *)
EdgeClaims(p) ==
  /\ p \in Edges /\ At(p, "claim")
  /\ \E b \in {BoardOf[proc[p].card]} :
     \E S \in {IF proc[p].gated THEN Pending(b) \intersect {proc[p].card} ELSE Pending(b)} :
       IF /\ BoardFree(p, b) /\ S # {} /\ Len(runs[First(S)]) < MaxRuns
          /\ \A c \in Cards : BoardOf[c] = b => card[c].status # "running"
       THEN ClaimCard(p, First(S), IF card[First(S)].who = Reserved THEN Default ELSE card[First(S)].who)
       ELSE Stop(p) /\ UNCHANGED <<card, runs>>
  /\ UNCHANGED <<World, faults>>

Release(c, who) ==
  /\ card' = [card EXCEPT ![c].status = "ready", ![c].who = who]
  /\ EndRun(c)

(* The worker's process is created.  The core has no workspace gate.       *)
Spawn(p) ==
  /\ At(p, "spawn")
  /\ p = Core \/ card[proc[p].card].bound
  /\ SetCurrent(proc[p].card, [Current(proc[p].card) EXCEPT !.live = TRUE])
  /\ Goto(p, "record")
  /\ UNCHANGED <<card, World, faults>>

(* A shared checkout: the spawn is refused and the claim given back, with  *)
(* the assignee it was made for.                                           *)
SpawnBlocked(p) ==
  /\ p \in Edges /\ At(p, "spawn") /\ ~card[proc[p].card].bound
  /\ Release(proc[p].card, card[proc[p].card].who)
  /\ Stop(p)
  /\ UNCHANGED <<World, faults>>

(* The gate cannot read the row: the claim is left as it is.               *)
GateUnreadable(p) ==
  /\ p \in Edges /\ At(p, "spawn") /\ Fault
  /\ Stop(p)
  /\ UNCHANGED <<card, runs, World>>

(* The worker cannot be started: the run ends and the lane reserves the    *)
(* card again.                                                             *)
SpawnFails(p) ==
  /\ At(p, "spawn") /\ Fault
  /\ Release(proc[p].card, IF p = Core THEN card[proc[p].card].who ELSE Reserved)
  /\ Stop(p)
  /\ UNCHANGED World

(* _set_worker_pid, and the end of the attempt.                            *)
Record(p) ==
  /\ At(p, "record")
  /\ SetCurrent(proc[p].card, [Current(proc[p].card) EXCEPT !.pid = TRUE])
  /\ Stop(p)
  /\ UNCHANGED <<card, World, faults>>

(* The provenance of the spawn cannot be written: the run is ended while   *)
(* its worker lives on.                                                    *)
RecordFails(p) ==
  /\ p \in Edges /\ At(p, "record") /\ Fault
  /\ runs' = [runs EXCEPT ![proc[p].card][Len(runs[proc[p].card])].pid = TRUE,
                          ![proc[p].card][Len(runs[proc[p].card])].ended = TRUE]
  /\ card' = [card EXCEPT ![proc[p].card].status = "ready", ![proc[p].card].who = Reserved]
  /\ Stop(p)
  /\ UNCHANGED World

Crash(p) ==
  /\ ~At(p, "idle") /\ Fault
  /\ Stop(p)
  /\ UNCHANGED <<card, runs, World>>

-----------------------------------------------------------------------------
(* A worker ends its run and lingers, or dies; a maintainer asks for a     *)
(* round; the core notices a dead worker or an abandoned claim; an         *)
(* operator gives a running card back.                                     *)
WorkerEnds(c) ==
  /\ card[c].status = "running" /\ Current(c).live /\ Current(c).pid
  /\ card' = [card EXCEPT ![c].status = "done"]
  /\ EndRun(c)
  /\ UNCHANGED <<World, proc, faults>>

WorkerExits(c) ==
  /\ \E n \in 1..Len(runs[c]) :
       /\ runs[c][n].live /\ runs[c][n].ended
       /\ runs' = [runs EXCEPT ![c][n].live = FALSE]
  /\ UNCHANGED <<card, World, proc, faults>>

WorkerDies(c) ==
  /\ card[c].status = "running" /\ Current(c).live /\ Fault
  /\ SetCurrent(c, [Current(c) EXCEPT !.live = FALSE])
  /\ UNCHANGED <<card, World, proc>>

Abandoned(c) ==
  /\ card[c].status = "running"
  /\ \A p \in Procs : proc[p].card = c => ~(proc[p].pc \in {"spawn", "record"})
  /\ ~Current(c).pid \/ ~Current(c).live
CoreNotices(c) ==
  /\ Abandoned(c)
  /\ Release(c, card[c].who)
  /\ UNCHANGED <<World, proc, faults>>

Reclaim(c) ==
  /\ card[c].status = "running" /\ Current(c).pid /\ Fault
  /\ Release(c, card[c].who)
  /\ UNCHANGED <<World, proc>>

Rework(c) ==
  /\ card[c].status = "done" /\ Len(runs[c]) < MaxRuns
  /\ card' = [card EXCEPT ![c].status = "ready", ![c].who = Reserved, ![c].rework = TRUE]
  /\ UNCHANGED <<runs, World, proc, faults>>

(* An operator points a profile at another backend, or breaks its file.    *)
Flip(w) ==
  /\ flips < MaxFlips /\ flips' = flips + 1
  /\ \E k \in {"local", "cloud", "unknown"} \ {backend[w]} :
       /\ backend' = [backend EXCEPT ![w] = k]
       /\ runs' = [c \in Cards |-> [n \in 1..Len(runs[c]) |->
            IF runs[c][n].who = w /\ k = "cloud" THEN [runs[c][n] EXCEPT !.slipped = TRUE]
            ELSE runs[c][n]]]
  /\ UNCHANGED <<card, proc, faults>>

Steps(p) ==
  Admit(p) \/ EdgeClaims(p) \/ Spawn(p) \/ SpawnBlocked(p) \/ Record(p)

Next ==
  \/ CoreLooks \/ CoreClaims
  \/ \E p \in Procs :
       EdgeLooks(p) \/ Steps(p) \/ AdmitFails(p) \/ GateUnreadable(p) \/ SpawnFails(p)
         \/ RecordFails(p) \/ Crash(p)
  \/ \E c \in Cards :
       WorkerEnds(c) \/ WorkerExits(c) \/ WorkerDies(c) \/ CoreNotices(c) \/ Reclaim(c) \/ Rework(c)
  \/ \E w \in Profiles : Flip(w)

\* A claim is made; failing to make one is a step too.
Claims == CoreClaims \/ \E p \in Edges : EdgeClaims(p) /\ proc'[p].pc = "spawn"

(* Ticks and passes recur, a worker that is up comes to its end, and the   *)
(* core notices what was abandoned.  Those who keep finding each other's   *)
(* lock, which neither waits for, do so only for a while.                  *)
Fairness ==
  /\ WF_vars(CoreLooks) /\ SF_vars(Claims)
  /\ \A p \in Procs : WF_vars(Steps(p) \/ EdgeLooks(p))
  /\ WF_vars(\E c \in Cards : WorkerEnds(c) \/ WorkerExits(c) \/ CoreNotices(c))

Spec == Init /\ [][Next]_vars /\ Fairness

-----------------------------------------------------------------------------
\* A worker the boards know of, or a claim that waits for one.
Holds(c, n) == \/ runs[c][n].live /\ runs[c][n].pid
               \/ n = Len(runs[c]) /\ Reserving(c, runs)

(* However ticks, passes, kills and lingering workers interleave, no more  *)
(* than Capacity slots are held by what was admitted through the gate,     *)
(* unless the profile was pointed elsewhere while it worked.               *)
GateHolds ==
  Cardinality({r \in Rows : /\ r[2] <= Len(runs[r[1]]) /\ Holds(r[1], r[2])
                            /\ runs[r[1]][r[2]].gated /\ ~runs[r[1]][r[2]].slipped}) <= Capacity

(* A ready card does not wait for ever while nothing runs: not for a slot  *)
(* that an abandoned claim or a lingering worker holds, not for a lock, not *)
(* for a repair of its binding.                                            *)
SlotsAreUsed ==
  \A c \in Cards : []<>(card[c].status # "ready" \/ Len(runs[c]) = MaxRuns)

(* docs/EDGE_WORKER_RESOURCE_ADMISSION.md "prevents the edge-owned rework  *)
(* bypass from creating a worker when a configured shared resource is      *)
(* already occupied".                                                      *)
NoReworkBeyondCapacity ==
  [][\A p \in Edges : Spawn(p) /\ flips = 0 =>
       Cardinality(Occupied(runs)) <= Capacity]_vars
=============================================================================
