---------------------------- MODULE WakesProofs ----------------------------
(***************************************************************************)
(* Proofs about the ways a run is woken: LeaseController and               *)
(* CompletionWake, whose names MCWakes has, and the delayed wake of        *)
(* IntakePlane, whose names MCIntakePlane has.  They hold for every number *)
(* of triggers, retries, restarts, cards, replays, completions, scopes,    *)
(* delays and threads.                                                     *)
(***************************************************************************)
EXTENDS MCWakes, MCIntakePlane, SequencesExt, SequenceTheorems, FiniteSetTheorems, WellFoundedInduction, TLAPS

-----------------------------------------------------------------------------
(* The lease controller                                                     *)

\* Nothing is known of a trigger before it arrives.
FutureIsBlank ==
    \A l \in Leases : l > newest =>
        threads[l].pc = "none" /\ l \notin settled /\ l \notin paused

\* What is settled is over: no thread and no restart goes on with it.
SettledIsOver ==
    /\ \A l \in Leases : threads[l].pc # "none" => l \notin settled
    /\ file.lease \in Leases => (file.status = "pending" <=> file.lease \notin settled)

\* Where an accepted pause is remembered until its lease ends.
PauseIsNoted ==
    file.lease \in paused => file.status \in {"paused", "failed"} \/ (file.status = "pending" /\ file.pause)

\* The threads' part of TypeOK.
ThreadRows == [pc : {"none", "start", "call", "wait", "report"}, tries : 0..BusyRetries,
               outcome : {"none", "ok", "refused", "ambiguous"}]

LeaseInv ==
    /\ TypeOK
    /\ job.kind = "intake" => job.lease \in Leases
    /\ FutureIsBlank
    /\ LockHasHolder
    /\ FileIsNewest
    /\ SettledIsOver
    /\ PauseIsNoted

\* What every step of the lease controller keeps, action by action.
LEMMA LeaseStep ==
    ASSUME LeaseInv, [Next]_vars
    PROVE  LeaseInv'
<1> USE DEF LeaseInv, TypeOK, FutureIsBlank, LockHasHolder, FileIsNewest, SettledIsOver, PauseIsNoted
<1> USE LeaseAssumption DEF Leases, NoLease, Statuses
<1>1. CASE Trigger
  <2> DEFINE n == newest + 1
             started == Thread("start", 0, "none")
  <2>1. /\ newest \in Nat /\ n \in Leases /\ newest' = n /\ n > newest
        /\ file' = File(n, "pending", FALSE)
        /\ threads' = [threads EXCEPT ![n] = started]
        /\ owed' = owed \union {n}
        /\ UNCHANGED <<trigger, job, settled, paused, restarts>>
    BY <1>1 DEF Trigger
  <2>2. threads'[n] = started /\ \A l \in Leases : l # n => threads'[l] = threads[l]
    BY <2>1
  <2>3. TypeOK'
    BY <2>1 DEF File, Thread
  <2>4. FutureIsBlank' /\ LockHasHolder' /\ SettledIsOver'
    BY <2>1, <2>2, <2>3 DEF File, Thread
  <2>5. QED
    BY <2>1, <2>3, <2>4 DEF File
<1>2. ASSUME NEW l \in Leases, Pause(l)
      PROVE  LeaseInv'
  <2>1. CASE PauseQueued(l)
    <3>1. /\ file' = [file EXCEPT !.pause = TRUE]
          /\ file.lease = l /\ file.status = "pending"
      BY <2>1 DEF PauseQueued
    <3>2. file' \in [lease : Leases \union {NoLease}, status : Statuses, pause : BOOLEAN]
      BY <3>1
    <3>3. file'.lease = l /\ file'.status = "pending" /\ file'.pause = TRUE
      BY <3>1
    <3>4. /\ paused' = paused \union {l}
          /\ UNCHANGED <<threads, trigger, job, newest, settled, owed, restarts>>
      BY <1>2 DEF Pause
    <3>5. TypeOK'
      BY <3>2, <3>4
    <3>6. LockHasHolder'
      BY <3>4
    <3>7. FutureIsBlank' /\ FileIsNewest'
      <4>1. newest = l /\ newest' = newest /\ file'.lease = l
        BY <3>1, <3>3, <3>4
      <4>2. paused' = paused \union {l} /\ UNCHANGED <<threads, settled>> /\ l \in Nat
        BY <3>4
      <4>3. FutureIsBlank
        OBVIOUS
      <4> HIDE DEF LeaseInv, TypeOK, LockHasHolder, SettledIsOver, PauseIsNoted
      <4>4. QED
        BY <4>1, <4>2, <4>3
    <3>8. SettledIsOver'
      <4>1. SettledIsOver /\ UNCHANGED <<threads, settled>> /\ file'.lease = file.lease /\ file'.status = file.status
        BY <3>1, <3>3, <3>4
      <4> HIDE DEF LeaseInv, Leases, TypeOK
      <4>2. QED
        BY <4>1
    <3>9. PauseIsNoted'
      BY <3>3
    <3>10. QED
      BY <3>4, <3>5, <3>6, <3>7, <3>8, <3>9
  <2>2. CASE PauseActive(l)
    <3>1. file' \in [lease : {l}, status : {"paused"}, pause : {FALSE}] /\ file.lease = l /\ l \in settled
      BY <2>2 DEF PauseActive, File
    <3>2. QED
      BY <1>2, <3>1 DEF Pause
  <2>3. QED
    BY <1>2, <2>1, <2>2 DEF Pause
<1>3. ASSUME NEW l \in Leases, Lock(l)
      PROVE  LeaseInv'
  BY <1>3 DEF Lock, Thread
<1>4. ASSUME NEW l \in Leases, IntakeStarts(l)
      PROVE  LeaseInv'
  <2>1. /\ threads[l].pc = "call" /\ job' = Running("intake", l) /\ owed' = {}
        /\ UNCHANGED <<file, trigger, newest, settled, paused, restarts>>
    BY <1>4 DEF IntakeStarts
  <2>2. threads'[l].pc = "wait" /\ \A k \in Leases : k # l => threads'[k] = threads[k]
    BY <1>4 DEF IntakeStarts
  <2>3. TypeOK'
    <3>1. job' \in [kind : {"none", "intake", "edge"}, lease : Leases \union {NoLease}]
      BY <2>1 DEF Running
    <3>2. threads[l] \in ThreadRows /\ threads \in [Leases -> ThreadRows]
      BY DEF ThreadRows
    <3>3. [threads[l] EXCEPT !.pc = "wait"] \in ThreadRows
      <4> HIDE DEF LeaseInv, Leases
      <4> QED
        BY <3>2 DEF ThreadRows
    <3>4. threads' \in [Leases -> ThreadRows]
      <4> HIDE DEF LeaseInv, Leases, ThreadRows
      <4> QED
        BY <1>4, <3>2, <3>3 DEF IntakeStarts
    <3>5. QED
      BY <2>1, <3>1, <3>4 DEF ThreadRows
  <2>4. FutureIsBlank' /\ LockHasHolder' /\ SettledIsOver'
    BY <2>1, <2>2
  <2>5. QED
    BY <2>1, <2>3, <2>4 DEF Running
<1>5. ASSUME NEW l \in Leases, ActuatorBusy(l)
      PROVE  LeaseInv'
  <2>1. CASE RetriesLeft(l) /\ threads' = [threads EXCEPT ![l].tries = @ + 1] /\ UNCHANGED trigger
    <3>1. /\ threads[l].pc = "call" /\ threads[l].tries + 1 \in 0..BusyRetries
          /\ UNCHANGED <<file, trigger, job, newest, settled, paused, owed, restarts>>
      BY <1>5, <2>1 DEF ActuatorBusy, RetriesLeft
    <3>2. PICK r : r = [threads[l] EXCEPT !.tries = @ + 1]
      OBVIOUS
    <3>3. r \in ThreadRows /\ r.pc = threads[l].pc /\ threads \in [Leases -> ThreadRows]
      BY <3>1, <3>2 DEF ThreadRows
    <3>4. threads' \in [Leases -> ThreadRows] /\ \A k \in Leases : threads'[k].pc = threads[k].pc
      <4> HIDE DEF LeaseInv, Leases, ThreadRows
      <4> QED
        BY <2>1, <3>2, <3>3
    <3>5. TypeOK'
      BY <3>1, <3>4 DEF ThreadRows
    <3>6. FutureIsBlank' /\ LockHasHolder' /\ SettledIsOver'
      BY <3>1, <3>4
    <3>7. QED
      BY <3>1, <3>5, <3>6
  <2>2. CASE threads' = [threads EXCEPT ![l] = Thread("report", 0, "refused")] /\ trigger' = NoLease
    BY <1>5, <2>2 DEF ActuatorBusy, Thread
  <2>3. QED
    BY <1>5, <2>1, <2>2 DEF ActuatorBusy
<1>6. ASSUME NEW l \in Leases, Report(l)
      PROVE  LeaseInv'
  <2> USE DEF Ends, OwedAfter, Current, NoThread
  <2>1. CASE ReportSuperseded(l) \/ ReportAmbiguous(l)
    <3>1. /\ threads[l].pc = "report"
          /\ threads' = [threads EXCEPT ![l] = NoThread]
          /\ owed' \in SUBSET Leases
          /\ UNCHANGED <<file, trigger, job, newest, settled, paused, restarts>>
      BY <2>1 DEF ReportSuperseded, ReportAmbiguous
    <3>2. QED
      BY <3>1
  <2>2. CASE ReportOutcome(l)
    <3>1. /\ file.lease = l /\ l \notin settled /\ file.status = "pending" /\ newest = l
          /\ file' = File(l, Outcome(l), FALSE)
          /\ threads' = [threads EXCEPT ![l] = NoThread]
          /\ settled' = settled \union {l}
          /\ trigger # l
      BY <2>2 DEF ReportOutcome
    <3>2. Outcome(l) \in {"failed", "paused", "active"} /\ (file.pause => Outcome(l) # "active")
      BY DEF Outcome
    <3>3. TypeOK'
      BY <2>2, <3>1, <3>2 DEF ReportOutcome, File
    <3>4. FutureIsBlank' /\ LockHasHolder' /\ SettledIsOver' /\ PauseIsNoted'
      BY <2>2, <3>1, <3>2, <3>3 DEF ReportOutcome, File
    <3>5. QED
      BY <2>2, <3>1, <3>3, <3>4 DEF ReportOutcome, File
  <2>3. QED
    BY <1>6, <2>1, <2>2 DEF Report
<1>7. ASSUME NEW l \in Leases, CallRaises(l)
      PROVE  LeaseInv'
  BY <1>7 DEF CallRaises, Thread
<1>8. CASE IntakeEnds
  <2>1. job.lease \in Leases /\ job' = Free
    BY <1>8 DEF IntakeEnds
  <2>2. CASE threads[job.lease].pc = "wait"
    <3>1. PICK outcome \in {"ok", "refused"} :
             threads' = [threads EXCEPT ![job.lease] = Thread("report", 0, outcome)]
      BY <1>8, <2>2 DEF IntakeEnds
    <3>2. trigger = job.lease /\ trigger' = NoLease
      BY <1>8, <2>1, <2>2 DEF IntakeEnds
    <3>3. QED
      BY <1>8, <2>1, <2>2, <3>1, <3>2 DEF IntakeEnds, Thread, Free, Running
  <2>3. CASE threads[job.lease].pc # "wait"
    BY <1>8, <2>1, <2>3 DEF IntakeEnds, Free, Running
  <2>4. QED
    BY <2>2, <2>3
<1>9. CASE EdgeStarts \/ EdgeEnds
  <2>1. job' \in [kind : {"none", "edge"}, lease : {NoLease}]
    BY <1>9 DEF EdgeStarts, EdgeEnds, Free, Running
  <2>2. UNCHANGED <<file, threads, trigger, newest, settled, paused, owed, restarts>>
    BY <1>9 DEF EdgeStarts, EdgeEnds
  <2>3. QED
    BY <2>1, <2>2
<1>10. CASE Restart
  BY <1>10 DEF Restart, Resumable, Thread, NoThread
<1>11. CASE UNCHANGED vars
  BY <1>11 DEF vars
<1>12. QED
  BY <1>1, <1>2, <1>3, <1>4, <1>5, <1>6, <1>7, <1>8, <1>9, <1>10, <1>11 DEF Next, ThreadStep

\* The invariant holds of an empty lease file.
LEMMA LeaseInitially == Init => LeaseInv
BY LeaseAssumption DEF Init, LeaseInv, TypeOK, FutureIsBlank, LockHasHolder, FileIsNewest, SettledIsOver,
   PauseIsNoted, Leases, NoLease, Statuses, File, Free, Running, NoThread

\* LeaseInv holds of every behaviour; TypeOK and LockHasHolder are among its conjuncts.
THEOREM LeasesKeepOrder == Spec => [](TypeOK /\ LockHasHolder)
<1>1. LeaseInv => TypeOK /\ LockHasHolder
  BY DEF LeaseInv
<1>2. QED
  BY <1>1, LeaseInitially, LeaseStep, PTL DEF Spec

\* The file tells the truth about the newest trigger, whatever threads, delayed pauses
\* and restarts of the controller come between (_trigger_intake_in_background, _pause).
THEOREM LeaseFileIsSound == Spec => []FileIsSound
<1>1. LeaseInv => FileIsSound
  BY DEF LeaseInv, FileIsSound, PauseSticks, PauseIsNoted
<1>2. QED
  BY <1>1, LeaseInitially, LeaseStep, PTL DEF Spec

\* No step starts an intake run for a lease whose outcome is in the file already, a
\* restart of the controller included (_resume_pending_trigger_on_startup).
THEOREM RecordedRunsOnce == Spec => RecordedNeverReplayed
<1> DEFINE Fresh == job' # job /\ job'.kind = "intake" => job'.lease \notin settled
<1>1. ASSUME LeaseInv, [Next]_vars
      PROVE  [Fresh]_vars
  <2>1. ASSUME NEW l \in Leases, IntakeStarts(l)
        PROVE  Fresh
    BY <1>1, <2>1 DEF IntakeStarts, Running, LeaseInv, SettledIsOver
  <2>2. ASSUME NEW l \in Leases,
               Pause(l) \/ Lock(l) \/ ActuatorBusy(l) \/ Report(l) \/ CallRaises(l)
        PROVE  UNCHANGED job
    BY <2>2 DEF Pause, Lock, ActuatorBusy, Report, ReportSuperseded, ReportAmbiguous, ReportOutcome, CallRaises
  <2>3. CASE Trigger \/ Restart
    BY <2>3 DEF Trigger, Restart
  <2>4. CASE IntakeEnds \/ EdgeStarts \/ EdgeEnds
    BY <2>4 DEF IntakeEnds, EdgeStarts, EdgeEnds, Free, Running
  <2>5. QED
    BY <1>1, <2>1, <2>2, <2>3, <2>4 DEF Next, ThreadStep
<1>2. QED
  BY <1>1, LeaseInitially, LeaseStep, PTL DEF Spec, RecordedNeverReplayed

-----------------------------------------------------------------------------
(* The safety wake of a completion                                          *)

Phases == {"idle", "check", "wait", "pass", "recheck", "look", "forget"}
CallerType == [pc : Phases, task : Cards \union {W!NoCard}, event : 0..MaxEvents,
               again : BOOLEAN, listed : SUBSET W!Events]

WakeTypes ==
    /\ card \in [Cards -> {"running", "done", "review"}]
    /\ log \in Seq(Cards) /\ Len(log) <= MaxEvents
    /\ tries \in [W!Events -> 0..MaxReplays]
    /\ replayed \in [W!Events -> Nat]
    /\ caller \in [W!Callers -> CallerType]

\* The event the safety wake is about to replay.
Looking(e) == caller[W!Gateway].pc = "look" /\ caller[W!Gateway].event = e

\* A replay is counted before it is made, so what was replayed was counted.
ReplaysAreCounted ==
    \A e \in W!Events : replayed[e] + (IF Looking(e) THEN 1 ELSE 0) <= tries[e]

\* An event whose card is projected, or that is none yet, has no replays to its name, and
\* so its count may be forgotten.
ProjectedHasNone ==
    \A e \in W!Events : e > Len(log) \/ card[log[e]] # "done" => replayed[e] = 0

\* What the safety wake looks at, and listed, are events.
ListedAreEvents ==
    /\ W!At(W!Gateway, "look") => caller[W!Gateway].event \in 1..Len(log)
    /\ caller[W!Gateway].listed \subseteq 1..Len(log)

WakeInv == WakeTypes /\ ReplaysAreCounted /\ ProjectedHasNone /\ ListedAreEvents

\* What most steps do to the callers: the gateway, if it moves, does not get to look at
\* an event, and lists nothing new.
Harmless ==
    /\ caller' \in [W!Callers -> CallerType]
    /\ \/ caller'[W!Gateway] = caller[W!Gateway]
       \/ /\ caller'[W!Gateway].pc # "look"
          /\ caller'[W!Gateway].listed \subseteq caller[W!Gateway].listed

\* One process that changes to a typed record, does not begin to look and lists nothing new is harmless.
LEMMA Changed ==
    ASSUME WakeInv, NEW p \in W!Callers, NEW r \in CallerType,
           caller' = [caller EXCEPT ![p] = r],
           r.pc # "look", r.listed \subseteq caller[p].listed
    PROVE  Harmless
BY DEF Harmless, WakeInv, WakeTypes

\* Going to another phase is harmless.
LEMMA GoesIsHarmless ==
    ASSUME WakeInv, NEW p \in W!Callers, NEW pc \in Phases \ {"look"}, W!Goes(p, pc)
    PROVE  Harmless
<1>1. caller[p] \in CallerType
  BY DEF WakeInv, WakeTypes
<1>2. [caller[p] EXCEPT !.pc = pc] \in CallerType
  BY <1>1 DEF CallerType
<1>3. caller' = [caller EXCEPT ![p] = [caller[p] EXCEPT !.pc = pc]]
  BY DEF W!Goes
<1>4. QED
  BY <1>1, <1>2, <1>3, Changed DEF CallerType

\* So is ending: an observer becomes idle, the gateway goes on to forget.
LEMMA EndsIsHarmless ==
    ASSUME WakeInv, NEW p \in W!Callers, W!Ends(p)
    PROVE  Harmless
<1>1. caller[p] \in CallerType /\ 0 \in 0..MaxEvents
  BY WakesAssumption DEF WakeInv, WakeTypes, W!WakeAssumption
<1>2. CASE p = W!Gateway
  <2> DEFINE r == [caller[p] EXCEPT !.pc = "forget", !.task = W!NoCard, !.event = 0, !.again = FALSE]
  <2>1. r \in CallerType
    BY <1>1 DEF CallerType, Phases
  <2>2. r.pc # "look" /\ r.listed = caller[p].listed
    BY <1>1 DEF CallerType
  <2>3. caller' = [caller EXCEPT ![p] = r]
    BY <1>2 DEF W!Ends
  <2>4. QED
    BY <2>1, <2>2, <2>3, Changed
<1>3. CASE p # W!Gateway
  <2>1. W!Idle \in CallerType /\ W!Idle.pc # "look" /\ W!Idle.listed \subseteq caller[p].listed
    BY <1>1 DEF CallerType, Phases, W!Idle
  <2>2. caller' = [caller EXCEPT ![p] = W!Idle]
    BY <1>3 DEF W!Ends
  <2>3. QED
    BY <2>1, <2>2, Changed
<1>4. QED
  BY <1>2, <1>3

\* So is running into the deadline.
LEMMA TimedOutIsHarmless ==
    ASSUME WakeInv, NEW p \in W!Callers, W!TimedOut(p)
    PROVE  Harmless
BY GoesIsHarmless, EndsIsHarmless DEF W!TimedOut, Phases

\* Harmless steps that touch neither cards nor log nor counts keep the invariant.
LEMMA HarmlessKeeps ==
    ASSUME WakeInv, Harmless, UNCHANGED <<card, log, tries, replayed>>
    PROVE  WakeInv'
<1>1. WakeTypes'
  BY DEF WakeInv, WakeTypes, Harmless
<1>2. \A e \in W!Events : Looking(e)' => Looking(e)
  BY DEF Harmless, Looking
<1>3. ReplaysAreCounted'
  BY <1>2 DEF WakeInv, WakeTypes, ReplaysAreCounted
<1>4. ProjectedHasNone' /\ ListedAreEvents'
  BY DEF WakeInv, Harmless, ProjectedHasNone, ListedAreEvents, W!At
<1>5. QED
  BY <1>1, <1>3, <1>4 DEF WakeInv

\* A pass that concludes only ever gives replays back.
LEMMA ConcludesKeeps ==
    ASSUME WakeInv, Harmless, NEW S \in SUBSET Cards, W!Concludes(S), UNCHANGED tries
    PROVE  WakeInv'
<1>1. /\ card' = [c \in Cards |-> IF c \in S THEN W!Concluded(c) ELSE card[c]]
      /\ replayed' = [e \in W!Events |->
             IF e <= Len(log) /\ card'[log[e]] # "done" THEN 0 ELSE replayed[e]]
      /\ UNCHANGED log
  BY DEF W!Concludes, W!board
<1>2. card' \in [Cards -> {"running", "done", "review"}]
  BY <1>1 DEF W!Concluded, WakeInv, WakeTypes
<1>3. \A e \in W!Events : replayed'[e] \in Nat /\ replayed'[e] <= replayed[e]
  BY <1>1 DEF WakeInv, WakeTypes
<1>4. WakeTypes'
  BY <1>1, <1>2, <1>3 DEF WakeInv, WakeTypes, Harmless
<1>5. \A e \in W!Events : Looking(e)' => Looking(e)
  BY DEF Harmless, Looking
<1>6. ReplaysAreCounted'
  BY <1>3, <1>5 DEF WakeInv, WakeTypes, ReplaysAreCounted
<1>7. ProjectedHasNone'
  <2>1. ASSUME NEW e \in W!Events, e > Len(log) \/ card'[log[e]] # "done"
        PROVE  replayed'[e] = 0
    BY <1>1, <2>1 DEF WakeInv, WakeTypes, ProjectedHasNone, W!Events
  <2>2. QED
    BY <1>1, <2>1 DEF ProjectedHasNone
<1>8. ListedAreEvents'
  BY <1>1 DEF WakeInv, Harmless, ListedAreEvents, W!At
<1>9. QED
  BY <1>4, <1>6, <1>7, <1>8 DEF WakeInv

\* Every step of the observers, the actuator and the waiting gateway keeps the invariant.
LEMMA CallerSteps ==
    ASSUME WakeInv, NEW p \in W!Callers,
           W!Step(p) \/ W!Expires(p) \/ W!PassFails(p) \/ W!WakeFails(p)
    PROVE  WakeInv'
<1> USE DEF W!board
<1>1. CASE W!Check(p) \/ W!Enter(p)
  <2>1. Harmless
    BY <1>1, GoesIsHarmless, EndsIsHarmless DEF W!Check, W!Enter, Phases
  <2>2. QED
    BY <1>1, <2>1, HarmlessKeeps DEF W!Check, W!Enter
<1>2. CASE W!Leave(p)
  BY <1>2, EndsIsHarmless, ConcludesKeeps DEF W!Leave
<1>3. CASE W!Recheck(p)
  <2>1. CASE caller' = [caller EXCEPT ![p].pc = "wait", ![p].again = TRUE]
    <3> DEFINE r == [caller[p] EXCEPT !.pc = "wait", !.again = TRUE]
    <3>1. caller[p] \in CallerType
      BY DEF WakeInv, WakeTypes
    <3>2. r \in CallerType /\ r.pc = "wait" /\ r.listed = caller[p].listed
      BY <3>1 DEF CallerType, Phases
    <3>3. caller' = [caller EXCEPT ![p] = r]
      BY <2>1, <3>1 DEF WakeInv, WakeTypes, CallerType
    <3>4. QED
      BY <1>3, <3>2, <3>3, Changed, HarmlessKeeps DEF W!Recheck
  <2>2. CASE W!Ends(p)
    BY <1>3, <2>2, EndsIsHarmless, HarmlessKeeps DEF W!Recheck
  <2>3. QED
    BY <1>3, <2>1, <2>2 DEF W!Recheck
<1>4. CASE W!Expires(p)
  BY <1>4, TimedOutIsHarmless, HarmlessKeeps DEF W!Expires
<1>5. CASE W!PassFails(p)
  <2>1. Harmless
    BY <1>5, EndsIsHarmless, TimedOutIsHarmless DEF W!PassFails
  <2>2. QED
    BY <1>5, <2>1, ConcludesKeeps DEF W!PassFails
<1>6. CASE W!WakeFails(p)
  BY <1>6, EndsIsHarmless, HarmlessKeeps DEF W!WakeFails
<1>7. QED
  BY <1>1, <1>2, <1>3, <1>4, <1>5, <1>6 DEF W!Step

\* An idle process is typed and lists no event.
LEMMA IdleIsTyped == W!Idle \in CallerType /\ W!Idle.pc = "idle" /\ W!Idle.listed = {}
BY WakesAssumption DEF CallerType, Phases, W!Idle, W!WakeAssumption

\* Every step of the safety wake keeps the invariant: only Look counts a replay, and it pays for it from the events
\* it lists; Forget drops the counts of projected events only.
LEMMA SafetyWakeSteps ==
    ASSUME WakeInv, W!Tick \/ W!Look \/ W!Forget \/ W!LookFails \/ W!Restart
    PROVE  WakeInv'
<1> USE DEF W!board
<1> DEFINE G == W!Gateway
<1>0. G \in W!Callers /\ caller[G] \in CallerType /\ 1..Len(log) \subseteq W!Events
      /\ MaxReplays \in Nat /\ MaxEvents \in Nat /\ Len(log) \in Nat
  BY WakesAssumption DEF WakeInv, WakeTypes, W!Callers, W!Events, W!WakeAssumption
<1>1. CASE W!Tick
  <2>1. PICK e \in W!Stranded :
           /\ tries[e] < MaxReplays
           /\ tries' = [tries EXCEPT ![e] = @ + 1]
           /\ caller' = [caller EXCEPT ![G] = [pc |-> "look", task |-> log[e], event |-> e,
                                               again |-> FALSE, listed |-> W!Stranded]]
    BY <1>1 DEF W!Tick, W!Counted
  <2>2. /\ W!Stranded \subseteq 1..Len(log) /\ W!At(G, "idle")
        /\ UNCHANGED <<card, log, replayed>>
    BY <1>1 DEF W!Tick, W!Stranded
  <2>3. e \in W!Events /\ e \in 1..Len(log) /\ e \in 0..MaxEvents /\ log[e] \in Cards
    BY <1>0, <2>1, <2>2 DEF WakeInv, WakeTypes, W!Events
  <2>4. tries' \in [W!Events -> 0..MaxReplays]
    BY <1>0, <2>1, <2>3 DEF WakeInv, WakeTypes
  <2>5. caller' \in [W!Callers -> CallerType]
    BY <1>0, <2>1, <2>2, <2>3 DEF WakeInv, WakeTypes, CallerType, Phases
  <2>6. WakeTypes'
    BY <2>2, <2>4, <2>5 DEF WakeInv, WakeTypes
  <2>7. /\ caller'[G].event = e /\ caller'[G].listed = W!Stranded
        /\ \A d \in W!Events : ~Looking(d)
    BY <1>0, <2>1, <2>2 DEF WakeInv, WakeTypes, Looking, W!At
  <2>8. ReplaysAreCounted'
    BY <1>0, <2>1, <2>2, <2>3, <2>7 DEF WakeInv, WakeTypes, ReplaysAreCounted, Looking
  <2>9. ProjectedHasNone' /\ ListedAreEvents'
    BY <2>2, <2>3, <2>7 DEF WakeInv, ProjectedHasNone, ListedAreEvents
  <2>10. QED
    BY <2>6, <2>8, <2>9 DEF WakeInv
<1>2. CASE W!Look
  <2> DEFINE e == caller[G].event
  <2>1. /\ W!At(G, "look") /\ e \in W!Events /\ e \in 1..Len(log)
        /\ UNCHANGED <<card, log>>
    BY <1>0, <1>2 DEF W!Look, WakeInv, ListedAreEvents
  <2>2. Looking(e)
    BY <2>1 DEF Looking, W!At
  <2>3. CASE W!Eligible(log[e])
    <3>1. /\ W!Goes(G, "check") /\ UNCHANGED tries
          /\ replayed' = [replayed EXCEPT ![e] = @ + 1]
      BY <1>2, <2>3 DEF W!Look
    <3>2. Harmless /\ ~(caller'[G].pc = "look")
      BY <1>0, <3>1, GoesIsHarmless DEF Phases, W!Goes, CallerType, WakeInv, WakeTypes
    <3>3. WakeTypes'
      BY <2>1, <3>1, <3>2 DEF WakeInv, WakeTypes, Harmless
    <3>4. ReplaysAreCounted'
      BY <2>1, <2>2, <3>1, <3>2 DEF WakeInv, WakeTypes, ReplaysAreCounted, Looking
    <3>5. ProjectedHasNone'
      BY <2>1, <2>3, <3>1 DEF WakeInv, WakeTypes, ProjectedHasNone, W!Eligible
    <3>6. ListedAreEvents'
      BY <2>1, <3>2 DEF WakeInv, ListedAreEvents, Harmless, W!At
    <3>7. QED
      BY <3>3, <3>4, <3>5, <3>6 DEF WakeInv
  <2>4. CASE ~W!Eligible(log[e])
    <3>1. /\ caller' = [caller EXCEPT ![G] = W!Idle] /\ UNCHANGED replayed
          /\ tries' = [tries EXCEPT ![e] = 0]
      BY <1>2, <2>4 DEF W!Look
    <3>2. Harmless /\ ~(caller'[G].pc = "look")
      BY <1>0, <3>1, IdleIsTyped, Changed DEF WakeInv, WakeTypes
    <3>3. WakeTypes'
      BY <1>0, <2>1, <3>1, <3>2 DEF WakeInv, WakeTypes, Harmless
    <3>4. replayed[e] = 0
      BY <2>1, <2>4 DEF WakeInv, ProjectedHasNone, W!Eligible
    <3>5. ReplaysAreCounted'
      BY <2>1, <3>1, <3>2, <3>4 DEF WakeInv, WakeTypes, ReplaysAreCounted, Looking
    <3>6. ProjectedHasNone' /\ ListedAreEvents'
      BY <2>1, <3>1, <3>2 DEF WakeInv, ProjectedHasNone, ListedAreEvents, Harmless, W!At
    <3>7. QED
      BY <3>3, <3>5, <3>6 DEF WakeInv
  <2>5. QED
    BY <2>3, <2>4
<1>3. CASE W!Forget
  <2>1. /\ caller' = [caller EXCEPT ![G] = W!Idle] /\ UNCHANGED <<card, log, replayed>>
        /\ tries' = [e \in W!Events |->
               IF e \in caller[G].listed /\ ~W!Eligible(log[e]) THEN 0 ELSE tries[e]]
    BY <1>3 DEF W!Forget
  <2>2. Harmless /\ ~(caller'[G].pc = "look")
    BY <1>0, <2>1, IdleIsTyped, Changed DEF WakeInv, WakeTypes
  <2>3. WakeTypes'
    BY <1>0, <2>1, <2>2 DEF WakeInv, WakeTypes, Harmless
  <2>4. \A e \in W!Events : tries'[e] = tries[e] \/ (tries'[e] = 0 /\ replayed[e] = 0)
    BY <2>1 DEF WakeInv, ProjectedHasNone, W!Eligible
  <2>5. ReplaysAreCounted'
    BY <2>1, <2>2, <2>4 DEF WakeInv, WakeTypes, ReplaysAreCounted, Looking
  <2>6. ProjectedHasNone' /\ ListedAreEvents'
    BY <2>1, <2>2 DEF WakeInv, ProjectedHasNone, ListedAreEvents, Harmless, W!At
  <2>7. QED
    BY <2>3, <2>5, <2>6 DEF WakeInv
<1>4. CASE W!LookFails
  <2>1. Harmless
    BY <1>0, <1>4, IdleIsTyped, Changed DEF WakeInv, WakeTypes, W!LookFails
  <2>2. QED
    BY <1>4, <2>1, HarmlessKeeps DEF W!LookFails
<1>5. CASE W!Restart
  <2>1. /\ tries' = [e \in W!Events |-> 0] /\ replayed' = [e \in W!Events |-> 0]
        /\ caller' = [caller EXCEPT ![G] = W!Idle] /\ UNCHANGED <<card, log>>
    BY <1>5 DEF W!Restart
  <2>2. Harmless /\ ~(caller'[G].pc = "look")
    BY <1>0, <2>1, IdleIsTyped, Changed DEF WakeInv, WakeTypes
  <2>3. WakeTypes'
    BY <1>0, <2>1, <2>2 DEF WakeInv, WakeTypes, Harmless
  <2>4. ReplaysAreCounted' /\ ProjectedHasNone'
    BY <2>1, <2>2 DEF ReplaysAreCounted, ProjectedHasNone, Looking
  <2>5. ListedAreEvents'
    BY <2>1, <2>2 DEF WakeInv, ListedAreEvents, Harmless, W!At
  <2>6. QED
    BY <2>3, <2>4, <2>5 DEF WakeInv
<1>6. QED
  BY <1>1, <1>2, <1>3, <1>4, <1>5

\* So does what happens to the cards: completing a card writes a fresh event, which nobody has replayed yet.
LEMMA WorldSteps ==
    ASSUME WakeInv,
           (\E c \in Cards : W!Complete(c) \/ W!Rework(c) \/ W!Merge(c)) \/ W!Webhook \/ W!Age
    PROVE  WakeInv'
<1> USE DEF W!board
<1>0. MaxEvents \in Nat /\ Len(log) \in Nat /\ W!Events = 1..MaxEvents
  BY WakesAssumption DEF WakeInv, WakeTypes, W!Events, W!WakeAssumption
<1>1. ASSUME NEW c \in Cards, W!Complete(c)
      PROVE  WakeInv'
  <2>1. /\ card[c] = "running" /\ Len(log) < MaxEvents /\ caller[c].pc = "idle"
        /\ card' = [card EXCEPT ![c] = "done"]
        /\ log' = Append(log, c)
        /\ UNCHANGED <<tries, replayed>>
        /\ c \in W!Callers
    BY <1>1 DEF W!Complete, W!Callers
  <2>2. Harmless
    <3>1. CASE UNCHANGED caller
      BY <3>1 DEF Harmless, WakeInv, WakeTypes
    <3>2. CASE caller' = [caller EXCEPT ![c] = [W!Idle EXCEPT !.pc = "check", !.task = c]]
      <4>1. /\ [W!Idle EXCEPT !.pc = "check", !.task = c] \in CallerType
            /\ [W!Idle EXCEPT !.pc = "check", !.task = c].pc = "check"
            /\ [W!Idle EXCEPT !.pc = "check", !.task = c].listed = {}
        BY <1>0, IdleIsTyped DEF CallerType, Phases, W!Idle
      <4>2. QED
        BY <2>1, <3>2, <4>1, Changed
    <3>3. QED
      BY <1>1, <3>1, <3>2 DEF W!Complete
  <2>3. /\ log' \in Seq(Cards) /\ Len(log') = Len(log) + 1
        /\ \A e \in 1..Len(log) : log'[e] = log[e]
        /\ log'[Len(log')] = c
    BY <2>1 DEF WakeInv, WakeTypes
  <2>4. WakeTypes'
    BY <1>0, <2>1, <2>2, <2>3 DEF WakeInv, WakeTypes, Harmless
  <2>5. ReplaysAreCounted'
    BY <2>1, <2>2 DEF WakeInv, WakeTypes, ReplaysAreCounted, Harmless, Looking
  <2>6. ProjectedHasNone'
    <3>1. ASSUME NEW e \in W!Events, e > Len(log') \/ card'[log'[e]] # "done"
          PROVE  replayed'[e] = 0
      <4>1. CASE e > Len(log)
        BY <2>1, <4>1 DEF WakeInv, ProjectedHasNone
      <4>2. CASE e \in 1..Len(log)
        BY <1>0, <2>1, <2>3, <3>1, <4>2 DEF WakeInv, WakeTypes, ProjectedHasNone
      <4>3. QED
        BY <1>0, <4>1, <4>2
    <3>2. QED
      BY <3>1 DEF ProjectedHasNone
  <2>7. ListedAreEvents'
    BY <1>0, <2>2, <2>3 DEF WakeInv, ListedAreEvents, Harmless, W!At
  <2>8. QED
    BY <2>4, <2>5, <2>6, <2>7 DEF WakeInv
<1>2. ASSUME NEW c \in Cards, W!Rework(c)
      PROVE  WakeInv'
  <2>1. /\ card[c] = "review" /\ card' = [card EXCEPT ![c] = "running"]
        /\ UNCHANGED <<log, tries, caller, replayed>>
    BY <1>2 DEF W!Rework
  <2>2. WakeTypes' /\ ReplaysAreCounted' /\ ListedAreEvents'
    BY <2>1 DEF WakeInv, WakeTypes, ReplaysAreCounted, ListedAreEvents, Looking, W!At
  <2>3. ProjectedHasNone'
    BY <2>1 DEF WakeInv, WakeTypes, ProjectedHasNone, W!Events
  <2>4. QED
    BY <2>2, <2>3 DEF WakeInv
<1>3. ASSUME NEW c \in Cards, W!Merge(c) \/ W!Age
      PROVE  WakeInv'
  BY <1>3 DEF W!Merge, W!Age, WakeInv, WakeTypes, ReplaysAreCounted, ProjectedHasNone, ListedAreEvents,
              Looking, W!At
<1>4. CASE W!Webhook
  BY <1>4, GoesIsHarmless, HarmlessKeeps DEF W!Webhook, W!Callers, Phases
<1>5. QED
  BY <1>1, <1>2, <1>3, <1>4, WakesAssumption DEF W!WakeAssumption

\* The invariant is inductive.
LEMMA WakeStep ==
    ASSUME WakeInv, [W!Next]_W!vars
    PROVE  WakeInv'
<1>1. CASE UNCHANGED W!vars
  BY <1>1 DEF W!vars, WakeInv, WakeTypes, ReplaysAreCounted, ProjectedHasNone, ListedAreEvents, Looking, W!At
<1>2. QED
  BY <1>1, CallerSteps, SafetyWakeSteps, WorldSteps DEF W!Next

\* The invariant holds before any card is completed.
LEMMA WakeInitially == W!Init => WakeInv
<1> SUFFICES ASSUME W!Init  PROVE WakeInv
  OBVIOUS
<1>1. MaxEvents \in Nat /\ MaxReplays \in Nat
  BY WakesAssumption DEF W!WakeAssumption
<1>2. WakeTypes
  BY <1>1, IdleIsTyped DEF W!Init, WakeTypes
<1>3. W!Gateway \in W!Callers
  BY DEF W!Callers
<1>4. QED
  BY <1>1, <1>2, <1>3, IdleIsTyped
     DEF W!Init, WakeInv, WakeTypes, ReplaysAreCounted, ProjectedHasNone, ListedAreEvents, Looking, W!At, W!Events

\* However replays fail, and whatever passes, workers and restarts come between, a gateway
\* process replays a completion at most MaxReplays times before its card is projected
\* (_record_attempt, _forget_event).
THEOREM ReplaysBounded == W!Spec => []ReplaysAreBounded
<1>1. ASSUME WakeInv
      PROVE  ReplaysAreBounded
  <2>1. ASSUME NEW e \in W!Events
        PROVE  replayed[e] <= MaxReplays
    <3>1. replayed[e] \in Nat /\ tries[e] \in 0..MaxReplays /\ MaxReplays \in Nat
      BY <1>1, WakesAssumption DEF WakeInv, WakeTypes, W!WakeAssumption
    <3>2. replayed[e] + (IF Looking(e) THEN 1 ELSE 0) <= tries[e]
      BY <1>1 DEF WakeInv, ReplaysAreCounted
    <3>3. QED
      BY <3>1, <3>2
  <2>2. QED
    BY <2>1 DEF ReplaysAreBounded, W!ReplaysAreBounded
<1>2. QED
  BY <1>1, WakeInitially, WakeStep, PTL DEF W!Spec

\* A set of numbers that is not empty has a least one.
LEMMA LeastExists ==
    ASSUME NEW S, S \subseteq Nat, S # {}
    PROVE  \E x \in S : \A y \in S : x <= y
<1>1. PICK R : R = OpToRel(<, Nat)
  OBVIOUS
<1>2. IsWellFoundedOn(R, Nat)
  BY <1>1, NatLessThanWellFounded
<1>3. PICK x \in S : \A y \in S : ~ (<<y, x>> \in R)
  BY <1>2, WFMin
<1>4. \A y \in S : ~(y < x)
  BY <1>1, <1>3 DEF OpToRel
<1>5. QED
  BY <1>3, <1>4

\* What taking one item out of a sequence leaves of it.
LEMMA RemoveAtProperties ==
    ASSUME NEW S, NEW s \in Seq(S), NEW i \in 1..Len(s)
    PROVE  /\ RemoveAt(s, i) \in Seq(S) /\ Len(RemoveAt(s, i)) = Len(s) - 1
           /\ \A n \in 1..(Len(s) - 1) : RemoveAt(s, i)[n] = IF n < i THEN s[n] ELSE s[n + 1]
<1> DEFINE a == SubSeq(s, 1, i - 1)
           b == SubSeq(s, i + 1, Len(s))
<1>1. a \in Seq(S) /\ Len(a) = i - 1 /\ \A n \in 1..(i - 1) : a[n] = s[n]
  BY SubSeqProperties
<1>2. b \in Seq(S) /\ Len(b) = Len(s) - i /\ \A n \in 1..(Len(s) - i) : b[n] = s[i + n]
  BY SubSeqProperties
<1>3. RemoveAt(s, i) = a \o b
  BY DEF RemoveAt
<1> HIDE DEF a, b
<1>4. /\ a \o b \in Seq(S) /\ Len(a \o b) = Len(a) + Len(b)
      /\ \A k \in 1..(Len(a) + Len(b)) : (a \o b)[k] = IF k <= Len(a) THEN a[k] ELSE b[k - Len(a)]
  BY <1>1, <1>2, ConcatProperties
<1>5. ASSUME NEW n \in 1..(Len(s) - 1)
      PROVE  (a \o b)[n] = IF n < i THEN s[n] ELSE s[n + 1]
  <2>1. CASE n < i
    BY <2>1, <1>1, <1>2, <1>4
  <2>2. CASE ~(n < i)
    <3>1. n - Len(a) \in 1..(Len(s) - i) /\ i + (n - Len(a)) = n + 1
      BY <1>1, <2>2
    <3>2. n \in 1..(Len(a) + Len(b)) /\ ~(n <= Len(a))
      BY <1>1, <1>2, <2>2
    <3>3. (a \o b)[n] = b[n - Len(a)]
      BY <1>4, <3>2
    <3>4. b[n - Len(a)] = s[n + 1]
      BY <1>2, <3>1
    <3>6. (a \o b)[n] = s[n + 1]
      BY <3>3, <3>4
    <3>7. QED
      BY <2>2, <3>6, Zenon
  <2>3. QED
    BY <2>1, <2>2, Zenon
<1>6. Len(s) \in Nat /\ Len(a) + Len(b) = Len(s) - 1
  BY <1>1, <1>2
<1>7. RemoveAt(s, i) \in Seq(S) /\ Len(RemoveAt(s, i)) = Len(s) - 1
  BY <1>3, <1>4, <1>6
<1>8. QED
  BY <1>3, <1>5, <1>7, Zenon

-----------------------------------------------------------------------------
(* The delayed wake of the scopes, the instance P of IntakePlane             *)

TimerRows == [pc : P!Busy \union {"off", "again"}, left : Nat]
HandlerRows == [pc : {"off", "read", "decide", "wake"}, at : Nat]
Places == {"absent", "queued", "claimed", "parked", "done"}
Stores == [queue : Seq(P!Scopes), place : [P!Scopes -> Places],
           due : [P!Scopes -> Nat], tries : [P!Scopes -> Nat]]

TimerTypes ==
    /\ deadline \in Nat \union {NoDeadline} /\ current \in Threads
    /\ timers \in [Threads -> TimerRows] /\ missed \in BOOLEAN

\* The current thread sleeps until the deadline; a thread that has woken is the current one,
\* and as its deadline has come no hint makes another thread the current one.
Awake == {"read", "decide", "wake", "clear", "move"}
CurrentSleeps == timers[current].pc = "sleep" => deadline = timers[current].left
AwakeIsCurrent == \A k \in Threads : timers[k].pc \in Awake => k = current /\ deadline = 0

TimerInv == TimerTypes /\ P!DeadlineHasThread /\ CurrentSleeps /\ AwakeIsCurrent

PlaneTypes ==
    /\ chains \in [Chains -> HandlerRows] /\ starter \in HandlerRows /\ ticker \in {"idle", "wake"}
    /\ wakes \in Nat
    /\ run \in [pc : {"idle", "claim", "work"}, scope : P!Scopes \union {P!NoScope}]
    /\ run.pc = "work" => run.scope \in P!Scopes

\* In a plane that is never down and where no wait runs out, nothing is overdue.
AllIsWell == health = "up" /\ overdue = {}

\* The queue holds each queued scope once, and the run that works holds the only claim.
Queued == {s \in P!Scopes : store.place[s] = "queued"}
QueueIsPlaces ==
    /\ \A s \in P!Scopes : s \in Queued <=> \E n \in 1..Len(store.queue) : store.queue[n] = s
    /\ \A m, n \in 1..Len(store.queue) : store.queue[m] = store.queue[n] => m = n
ClaimIsRuns ==
    \A s \in P!Scopes : store.place[s] = "claimed" <=> run.pc = "work" /\ run.scope = s

QueueInv == store \in Stores /\ QueueIsPlaces /\ ClaimIsRuns

\* Who will read the queue, who will start a run that claims, who is about to schedule a
\* wake after t seconds, and whether the wake scheduled comes then.
Reading ==
    \/ \E c \in Chains : chains[c].pc = "read"
    \/ starter.pc = "read"
    \/ \E k \in Threads : timers[k].pc = "read"
Coming ==
    \/ wakes > 0 \/ run.pc = "claim" \/ ticker = "wake" \/ starter.pc = "wake"
    \/ \E c \in Chains : chains[c].pc = "wake"
    \/ \E k \in Threads : timers[k].pc = "wake"
Deciding(t) ==
    \/ \E c \in Chains : chains[c].pc = "decide" /\ chains[c].at = t
    \/ starter.pc = "decide" /\ starter.at = t
    \/ \E k \in Threads : timers[k].pc \in {"decide", "move", "again"} /\ timers[k].left = t
Sleeping(t) == timers[current].pc = "sleep" /\ deadline = t

\* A scope is due in t seconds.
Due(t) == \E s \in Queued : store.due[s] = t

\* Every queued scope is seen to: the run at work ends with a reading, a run to come finds
\* a scope that is due, or somebody sleeps no longer than the scope has to wait, or will
\* schedule that for a scope that is still queued.
Slept(s) == \E t \in Nat : t <= store.due[s] /\ (Sleeping(t) \/ (Deciding(t) /\ Due(t)))
Covered(s) == run.pc = "work" \/ Reading \/ (Coming /\ Due(0)) \/ Slept(s)
QueueIsCovered == ~missed => \A s \in Queued : Covered(s)

PlaneInv == TimerInv /\ PlaneTypes /\ AllIsWell /\ QueueInv /\ QueueIsCovered

\* What the theorem assumes of the plane: no call fails and no wait runs out.
CallsWork == ~Outages /\ ~WaitsLong

-----------------------------------------------------------------------------
(* The timer                                                                 *)

\* A hint keeps the timer's part of the invariant: the thread it starts, or is coalesced
\* into, sleeps no longer than the hint says, unless that thread slept no more.
LEMMA StartKeeps ==
    ASSUME TimerTypes, P!DeadlineHasThread, CurrentSleeps, NoDeadline \notin Nat,
           NEW ts \in [Threads -> TimerRows], NEW d \in Nat, P!StartTimer(d, ts),
           \A k \in Threads : ts[k].pc \notin Awake
    PROVE  /\ current' \in Threads /\ timers' \in [Threads -> TimerRows] /\ deadline' = d
           /\ P!DeadlineHasThread' /\ CurrentSleeps' /\ AwakeIsCurrent' /\ Sleeping(d)'
           /\ \A k \in Threads : ts[k].pc # "off" => timers'[k] = ts[k]
<1>1. PICK k \in Threads : /\ ts[k].pc = "off"
                         /\ timers' = [ts EXCEPT ![k] = P!Timer("sleep", d)]
                         /\ current' = k /\ deadline' = d
  BY DEF P!StartTimer
<1>2. P!Timer("sleep", d) \in TimerRows /\ P!Timer("sleep", d).pc = "sleep" /\ P!Timer("sleep", d).left = d
  BY DEF P!Timer, TimerRows, P!Busy
<1>3. timers' \in [Threads -> TimerRows] /\ timers'[k] = P!Timer("sleep", d)
      /\ \A j \in Threads : j # k => timers'[j] = ts[j]
  BY <1>1, <1>2
<1>4. P!DeadlineHasThread' /\ CurrentSleeps' /\ Sleeping(d)'
  BY <1>1, <1>2, <1>3 DEF P!DeadlineHasThread, CurrentSleeps, Sleeping, P!Busy
<1>5. AwakeIsCurrent'
  BY <1>1, <1>2, <1>3 DEF AwakeIsCurrent, Awake
<1>6. QED
  BY <1>1, <1>3, <1>4, <1>5

\* Whoever schedules a wake keeps the timer's part of the invariant and what was slept on.
LEMMA ScheduleKeeps ==
    ASSUME TimerInv, NoDeadline \notin Nat, NEW d \in Nat, P!Schedule(d)
    PROVE  /\ TimerInv' /\ (missed => missed')
           /\ missed' \/ \E t \in Nat : t <= d /\ Sleeping(t)'
           /\ \A t \in Nat : Sleeping(t) => \E u \in Nat : u <= t /\ Sleeping(u)'
           /\ \A k \in Threads : timers[k].pc # "off" => timers'[k] = timers[k]
<1>1. CASE P!Coalesce(d) /\ UNCHANGED timers
  <2>1. /\ deadline \in Nat /\ deadline <= d /\ UNCHANGED <<deadline, current, timers>>
        /\ missed' = (missed \/ timers[current].pc # "sleep")
    BY <1>1 DEF P!Coalesce, P!Coalesced, TimerInv, TimerTypes
  <2>2. TimerInv'
    BY <2>1 DEF TimerInv, TimerTypes, P!DeadlineHasThread, CurrentSleeps, AwakeIsCurrent
  <2>3. missed' \/ Sleeping(deadline)'
    BY <2>1 DEF Sleeping
  <2>4. \A t \in Nat : Sleeping(t) => Sleeping(t)'
    BY <2>1 DEF Sleeping
  <2>5. missed' \/ \E t \in Nat : t <= d /\ Sleeping(t)'
    BY <2>1, <2>3
  <2>6. \A t \in Nat : Sleeping(t) => \E u \in Nat : u <= t /\ Sleeping(u)'
    BY <2>4
  <2>7. QED
    BY <2>1, <2>2, <2>5, <2>6
<1>2. CASE ~P!Coalesced(d) /\ P!StartTimer(d, timers) /\ UNCHANGED missed
  <2>1. deadline = NoDeadline \/ (deadline \in Nat /\ deadline > d)
    BY <1>2 DEF P!Coalesced, TimerInv, TimerTypes
  <2>2. \A k \in Threads : timers[k].pc \notin Awake
    BY <2>1 DEF TimerInv, AwakeIsCurrent
  <2>3. /\ current' \in Threads /\ timers' \in [Threads -> TimerRows] /\ deadline' = d
        /\ P!DeadlineHasThread' /\ CurrentSleeps' /\ AwakeIsCurrent' /\ Sleeping(d)'
        /\ \A k \in Threads : timers[k].pc # "off" => timers'[k] = timers[k]
    BY <1>2, <2>2, StartKeeps DEF TimerInv, TimerTypes
  <2>4. TimerInv'
    BY <1>2, <2>3 DEF TimerInv, TimerTypes
  <2>5. \A t \in Nat : Sleeping(t) => d <= t
    BY <2>1 DEF Sleeping
  <2>6. QED
    BY <1>2, <2>3, <2>4, <2>5
<1>3. QED
  BY <1>1, <1>2 DEF P!Schedule

-----------------------------------------------------------------------------
(* Who sees to the queue                                                     *)

\* A reading, a claim at work or a run to come with a scope that is due sees to every
\* queued scope.
LEMMA SeenTo ==
    ASSUME \/ run'.pc = "work" \/ Reading' \/ (Coming' /\ Due(0)')
    PROVE  QueueIsCovered'
BY DEF QueueIsCovered, Covered

\* Nothing of it changes, or it passes from one to the next, while the store stays.
LEMMA Keeps ==
    ASSUME QueueIsCovered, UNCHANGED store, missed => missed',
           run.pc = "work" => run'.pc = "work",
           Reading => Reading',
           Coming /\ Due(0) => Coming',
           \A t \in Nat : Sleeping(t) => \E u \in Nat : u <= t /\ Sleeping(u)',
           \A t \in Nat : Deciding(t) /\ Due(t) =>
               \/ Deciding(t)'
               \/ missed' \/ \E u \in Nat : u <= t /\ Sleeping(u)'
               \/ t = 0 /\ Coming',
           store \in Stores
    PROVE  QueueIsCovered'
<1> SUFFICES ASSUME ~missed', NEW s \in P!Scopes, s \in Queued'
             PROVE  Covered(s)'
  BY DEF QueueIsCovered, Queued
<1>1. s \in Queued /\ Covered(s) /\ store.due[s] \in Nat /\ store'.due[s] = store.due[s]
  BY DEF QueueIsCovered, Queued, Stores
<1>2. \A t : Due(t) <=> Due(t)'
  BY DEF Due, Queued
<1>3. CASE run.pc = "work" \/ Reading \/ (Coming /\ Due(0))
  BY <1>2, <1>3 DEF Covered
<1>4. CASE Slept(s)
  <2>1. PICK t \in Nat : t <= store.due[s] /\ (Sleeping(t) \/ (Deciding(t) /\ Due(t)))
    BY <1>4 DEF Slept
  <2>2. CASE \E u \in Nat : u <= t /\ Sleeping(u)'
    <3>1. PICK u \in Nat : u <= t /\ Sleeping(u)'
      BY <2>2
    <3>2. u <= store'.due[s]
      BY <1>1, <2>1, <3>1
    <3>3. QED
      BY <3>1, <3>2 DEF Covered, Slept
  <2>3. CASE Deciding(t)' /\ Due(t)
    BY <1>1, <1>2, <2>1, <2>3 DEF Covered, Slept
  <2>4. CASE t = 0 /\ Coming' /\ Due(t)
    BY <1>2, <2>4 DEF Covered
  <2>5. QED
    BY <2>1, <2>2, <2>3, <2>4
<1>5. QED
  BY <1>1, <1>3, <1>4 DEF Covered

\* What the queue says of its earliest scope.
LEMMA EarliestIs ==
    ASSUME NoDeadline \notin Nat, store \in Stores, QueueIsPlaces
    PROVE  /\ Queued = {} => P!Earliest(store) = NoDeadline
           /\ Queued # {} => /\ P!Earliest(store) \in Nat /\ P!Earliest(store) # NoDeadline
                             /\ Due(P!Earliest(store))
                             /\ \A s \in Queued : P!Earliest(store) <= store.due[s]
<1> DEFINE dues == {store.due[store.queue[n]] : n \in 1..Len(store.queue)}
<1>1. \A n \in 1..Len(store.queue) : store.queue[n] \in P!Scopes
  BY ElementOfSeq DEF Stores
<1>2. \A s \in Queued : store.due[s] \in dues
  BY DEF QueueIsPlaces, Queued
<1>3. \A d \in dues : d \in Nat /\ Due(d)
  BY <1>1 DEF QueueIsPlaces, Due, Stores
<1>4. P!Earliest(store) =
          IF dues = {} THEN NoDeadline ELSE CHOOSE d \in dues : \A e \in dues : d <= e
  BY DEF P!Earliest
<1> HIDE DEF dues
<1>5. CASE dues = {}
  BY <1>2, <1>4, <1>5
<1>6. CASE dues # {}
  <2>1. \E d \in dues : \A e \in dues : d <= e
    <3>1. dues \subseteq Nat
      BY <1>3
    <3>2. QED
      BY <1>6, <3>1, LeastExists
  <2>2. P!Earliest(store) \in dues /\ \A e \in dues : P!Earliest(store) <= e
    BY <1>4, <1>6, <2>1
  <2>3. Queued # {}
    BY <1>3, <2>2 DEF Due
  <2>4. QED
    BY <1>2, <1>3, <2>2, <2>3
<1>7. QED
  BY <1>5, <1>6

\* Who has read the queue will decide on its earliest scope, if there is one.
LEMMA ReadCovers ==
    ASSUME NoDeadline \notin Nat, store \in Stores, QueueIsPlaces, UNCHANGED store,
           \A t \in Nat : t = P!Earliest(store) => Deciding(t)'
    PROVE  QueueIsCovered'
<1> SUFFICES ASSUME NEW s \in P!Scopes, s \in Queued'
             PROVE  Covered(s)'
  BY DEF QueueIsCovered, Queued
<1>1. s \in Queued /\ store'.due[s] = store.due[s]
  BY DEF Queued
<1>2. PICK t \in Nat : t = P!Earliest(store) /\ Due(t) /\ t <= store.due[s]
  BY <1>1, EarliestIs
<1>3. Deciding(t)' /\ Due(t)'
  BY <1>2 DEF Due, Queued
<1>4. QED
  BY <1>1, <1>2, <1>3 DEF Covered, Slept

-----------------------------------------------------------------------------
(* The operations on the store                                               *)

\* Nothing is overdue: recovering changes nothing.
LEMMA NothingToRecover ==
    ASSUME AllIsWell
    PROVE  P!Recovered = {store}
BY DEF AllIsWell, P!Recovered

\* A scope joins the end of the queue.
LEMMA AppendKeeps ==
    ASSUME store \in Stores, QueueIsPlaces, NEW e \in P!Scopes, store.place[e] # "queued",
           store'.queue = Append(store.queue, e), store' \in Stores,
           \A s \in P!Scopes : store'.place[s] = IF s = e THEN "queued" ELSE store.place[s]
    PROVE  QueueIsPlaces'
<1>1. /\ store.queue \in Seq(P!Scopes) /\ Len(store.queue) \in Nat
      /\ Len(store'.queue) = Len(store.queue) + 1
      /\ \A n \in 1..Len(store.queue) : store'.queue[n] = store.queue[n]
      /\ store'.queue[Len(store.queue) + 1] = e
  BY DEF Stores
<1>2. \A n \in 1..Len(store.queue) : store.queue[n] \in Queued
  <2>1. \A n \in 1..Len(store.queue) : store.queue[n] \in P!Scopes
    BY <1>1, ElementOfSeq
  <2>2. QED
    BY <2>1 DEF QueueIsPlaces
<1>3. \A n \in 1..Len(store.queue) : store.queue[n] # e
  BY <1>2 DEF Queued
<1>4. \A n \in 1..Len(store'.queue) : n \in 1..Len(store.queue) \/ n = Len(store.queue) + 1
  BY <1>1
<1>5. \A m, n \in 1..Len(store'.queue) : store'.queue[m] = store'.queue[n] => m = n
  BY <1>1, <1>3, <1>4 DEF QueueIsPlaces
<1>6. ASSUME NEW s \in P!Scopes
      PROVE  s \in Queued' <=> \E n \in 1..Len(store'.queue) : store'.queue[n] = s
  <2>1. CASE s = e
    <3>1. Len(store.queue) + 1 \in 1..Len(store'.queue)
      BY <1>1
    <3>2. QED
      BY <1>1, <2>1, <3>1 DEF Queued
  <2>2. CASE s # e
    <3>1. s \in Queued' <=> s \in Queued
      BY <2>2 DEF Queued
    <3>2. s \in Queued <=> \E n \in 1..Len(store.queue) : store.queue[n] = s
      BY DEF QueueIsPlaces
    <3>3. (\E n \in 1..Len(store.queue) : store.queue[n] = s)
              <=> \E n \in 1..Len(store'.queue) : store'.queue[n] = s
      BY <1>1, <1>4, <2>2
    <3>4. QED
      BY <3>1, <3>2, <3>3, Zenon
  <2>3. QED
    BY <2>1, <2>2
<1>7. QED
  BY <1>5, <1>6 DEF QueueIsPlaces

\* The scope of an accepted webhook or of the safety tick is queued and due.
LEMMA Puts ==
    ASSUME QueueInv, NEW e \in P!Scopes, store.place[e] = "absent",
           store' = P!Put(store, e), UNCHANGED run
    PROVE  QueueInv' /\ Due(0)'
<1>1. /\ store' \in Stores /\ store'.queue = Append(store.queue, e) /\ store'.due[e] = 0
      /\ \A s \in P!Scopes : store'.place[s] = IF s = e THEN "queued" ELSE store.place[s]
  BY DEF QueueInv, P!Put, Stores, Places
<1>2. QueueIsPlaces'
  BY <1>1, AppendKeeps DEF QueueInv
<1>3. ClaimIsRuns'
  BY <1>1 DEF QueueInv, ClaimIsRuns
<1>4. Due(0)'
  BY <1>1 DEF Due, Queued
<1>5. QED
  BY <1>1, <1>2, <1>3, <1>4 DEF QueueInv

\* The scope of an ack leaves the store's books.
LEMMA Finishes ==
    ASSUME QueueInv, PlaneTypes, run.pc = "work", run.scope \in P!Scopes,
           store' = P!Finish(store, run.scope), run' = P!Idle
    PROVE  QueueInv'
<1>1. store.place[run.scope] = "claimed"
  BY DEF QueueInv, ClaimIsRuns
<1>2. /\ store' \in Stores /\ store'.queue = store.queue
      /\ store'.place[run.scope] \in {"absent", "done"}
      /\ \A s \in P!Scopes : s # run.scope => store'.place[s] = store.place[s]
  BY DEF QueueInv, P!Finish, Stores, Places
<1>3. \A s \in P!Scopes : s \in Queued' <=> s \in Queued
  BY <1>1, <1>2 DEF Queued
<1>4. QueueIsPlaces'
  BY <1>2, <1>3 DEF QueueInv, QueueIsPlaces
<1>5. ClaimIsRuns'
  BY <1>2 DEF QueueInv, ClaimIsRuns, P!Idle
<1>6. QED
  BY <1>2, <1>4, <1>5 DEF QueueInv

\* The scope of a requeue joins the end of the queue or is parked.
LEMMA GivesBack ==
    ASSUME QueueInv, PlaneTypes, run.pc = "work", run.scope \in P!Scopes, NEW d \in Nat,
           store' = P!GiveBack(store, run.scope, d), run' = P!Idle
    PROVE  QueueInv'
<1> DEFINE e == run.scope
<1>1. store.place[e] = "claimed"
  BY DEF QueueInv, ClaimIsRuns
<1>2. /\ store' \in Stores /\ store'.place[e] \in {"parked", "queued"}
      /\ store'.queue = IF store'.place[e] = "queued" THEN Append(store.queue, e) ELSE store.queue
      /\ \A s \in P!Scopes : s # e => store'.place[s] = store.place[s]
  <2>1. CASE P!Spent(store, e)
    BY <2>1 DEF QueueInv, P!GiveBack, Stores, Places
  <2>2. CASE ~P!Spent(store, e)
    BY <2>2 DEF QueueInv, P!GiveBack, Stores, Places
  <2>3. QED
    BY <2>1, <2>2
<1> HIDE DEF e
<1>3. QueueIsPlaces'
  <2>1. CASE store'.place[e] = "queued"
    BY <1>1, <1>2, <2>1, AppendKeeps DEF QueueInv, e
  <2>2. CASE store'.place[e] = "parked"
    <3>1. \A s \in P!Scopes : s \in Queued' <=> s \in Queued
      BY <1>1, <1>2, <2>2 DEF Queued
    <3>2. QED
      BY <1>2, <2>2, <3>1 DEF QueueInv, QueueIsPlaces
  <2>3. QED
    BY <1>2, <2>1, <2>2
<1>4. ClaimIsRuns'
  BY <1>2 DEF QueueInv, ClaimIsRuns, P!Idle, e
<1>5. QED
  BY <1>2, <1>3, <1>4 DEF QueueInv

\* The scope a run claims leaves the queue.
LEMMA Takes ==
    ASSUME QueueInv, run.pc = "claim", NEW n \in 1..Len(store.queue),
           store' = P!Take(store, n), run' = [pc |-> "work", scope |-> store.queue[n]]
    PROVE  QueueInv' /\ run'.scope \in P!Scopes
<1> DEFINE e == store.queue[n]
           q == RemoveAt(store.queue, n)
<1>1. /\ store.queue \in Seq(P!Scopes) /\ Len(store.queue) \in Nat
      /\ q \in Seq(P!Scopes) /\ Len(q) = Len(store.queue) - 1
      /\ \A m \in 1..(Len(store.queue) - 1) : q[m] = IF m < n THEN store.queue[m] ELSE store.queue[m + 1]
  <2>1. store.queue \in Seq(P!Scopes)
    BY DEF QueueInv, Stores
  <2>2. QED
    BY <2>1, RemoveAtProperties, LenProperties, Zenon
<1>2. e \in P!Scopes /\ store.place[e] = "queued"
  <2>1. e \in P!Scopes
    BY <1>1, ElementOfSeq
  <2>2. QED
    BY <2>1 DEF QueueInv, QueueIsPlaces, Queued
<1> HIDE DEF q
<1>3. /\ store' \in Stores /\ store'.queue = q
      /\ \A s \in P!Scopes : store'.place[s] = IF s = e THEN "claimed" ELSE store.place[s]
  BY <1>1, <1>2 DEF QueueInv, P!Take, P!RemoveAt, RemoveAt, Stores, Places, q
<1>4. \A m, l \in 1..Len(store.queue) : store.queue[m] = store.queue[l] => m = l
  BY DEF QueueInv, QueueIsPlaces
<1>5. \A m, l \in 1..Len(q) : q[m] = q[l] => m = l
  BY <1>1, <1>4
<1>6. ASSUME NEW s \in P!Scopes
      PROVE  s \in Queued' <=> \E m \in 1..Len(q) : q[m] = s
  <2>1. s \in Queued' <=> s \in Queued /\ s # e
    BY <1>3 DEF Queued
  <2>2. s \in Queued <=> \E m \in 1..Len(store.queue) : store.queue[m] = s
    BY DEF QueueInv, QueueIsPlaces
  <2>3. ASSUME NEW m \in 1..Len(store.queue), store.queue[m] = s, s # e
        PROVE  \E l \in 1..Len(q) : q[l] = s
    <3>1. m # n
      BY <2>3
    <3>2. CASE m < n
      <4>1. m \in 1..Len(q) /\ m \in 1..(Len(store.queue) - 1)
        BY <1>1, <3>2
      <4>2. q[m] = s
        BY <1>1, <2>3, <3>2, <4>1
      <4>3. QED
        BY <4>1, <4>2
    <3>3. CASE m > n
      <4>1. m - 1 \in 1..Len(q) /\ ~(m - 1 < n) /\ (m - 1) + 1 = m
        BY <1>1, <3>3
      <4>2. q[m - 1] = s
        BY <1>1, <2>3, <4>1
      <4>3. QED
        BY <4>1, <4>2
    <3>4. QED
      BY <1>1, <3>1, <3>2, <3>3
  <2>4. ASSUME NEW l \in 1..Len(q), q[l] = s
        PROVE  s # e /\ \E m \in 1..Len(store.queue) : store.queue[m] = s
    <3> DEFINE m == IF l < n THEN l ELSE l + 1
    <3>1. m \in 1..Len(store.queue) /\ m # n /\ store.queue[m] = s
      BY <1>1, <2>4
    <3>2. QED
      BY <1>4, <3>1
  <2>5. QED
    BY <2>1, <2>2, <2>3, <2>4
<1>7. QueueIsPlaces'
  BY <1>3, <1>5, <1>6 DEF QueueIsPlaces
<1>8. ClaimIsRuns'
  BY <1>2, <1>3 DEF QueueInv, ClaimIsRuns
<1>9. QED
  BY <1>2, <1>3, <1>7, <1>8 DEF QueueInv

-----------------------------------------------------------------------------
(* The steps                                                                 *)

\* No step of the timer.
LEMMA TimerStays ==
    ASSUME TimerInv, UNCHANGED P!timerVars
    PROVE  TimerInv'
BY DEF TimerInv, TimerTypes, P!DeadlineHasThread, CurrentSleeps, AwakeIsCurrent, P!timerVars

\* No operation on the store, and the run goes on.
LEMMA QueueStays ==
    ASSUME QueueInv, UNCHANGED <<store, run>>
    PROVE  QueueInv'
BY DEF QueueInv, QueueIsPlaces, Queued, ClaimIsRuns

\* The handler thread that goes on to the row h is the only one that changed.
LEMMA ChainRows ==
    ASSUME PlaneTypes, NEW c \in Chains, NEW h \in HandlerRows, chains' = [chains EXCEPT ![c] = h]
    PROVE  /\ chains' \in [Chains -> HandlerRows] /\ chains'[c] = h
           /\ \A b \in Chains : b # c => chains'[b] = chains[b]
BY DEF PlaneTypes

\* A row of a handler thread or of the startup recovery.
LEMMA HandlerIs ==
    ASSUME NEW pc \in {"off", "read", "decide", "wake"}, NEW at \in Nat
    PROVE  P!Handler(pc, at) \in HandlerRows /\ P!Handler(pc, at).pc = pc /\ P!Handler(pc, at).at = at
BY DEF P!Handler, HandlerRows

\* The scope of an accepted webhook is due, and its handler is about to wake a run.
LEMMA WebhookStep ==
    ASSUME CallsWork, PlaneInv, NEW c \in Chains, NEW e \in Events, P!Webhook(c, e)
    PROVE  PlaneInv'
<1>1. /\ store' = P!Put(store, e) /\ overdue' = {} /\ store.place[e] = "absent" /\ e \in P!Scopes
      /\ chains' = [chains EXCEPT ![c] = P!Handler("wake", 0)]
      /\ UNCHANGED <<deadline, current, timers, missed, ticker, starter, wakes, run, health, reboots>>
  BY NothingToRecover DEF PlaneInv, P!Webhook, P!StoreOp, P!RunUnchanged, P!timerVars, P!Scopes
<1>2. P!Handler("wake", 0) \in HandlerRows /\ P!Handler("wake", 0).pc = "wake"
  BY HandlerIs
<1>3. chains' \in [Chains -> HandlerRows] /\ chains'[c].pc = "wake"
  BY <1>1, <1>2, ChainRows DEF PlaneInv
<1>4. QueueInv' /\ Due(0)'
  BY <1>1, Puts DEF PlaneInv
<1>5. Coming'
  BY <1>3 DEF Coming
<1>6. TimerInv'
  BY <1>1, TimerStays DEF PlaneInv, P!timerVars
<1>7. PlaneTypes' /\ AllIsWell'
  BY <1>1, <1>3 DEF PlaneInv, PlaneTypes, AllIsWell
<1>8. QED
  BY <1>4, <1>5, <1>6, <1>7, SeenTo DEF PlaneInv

\* A handler reads the queue: it will decide on the earliest scope, if there is one.
LEMMA ChainReadStep ==
    ASSUME CallsWork, PlaneInv, NEW c \in Chains, P!ChainRead(c)
    PROVE  PlaneInv'
<1> DEFINE t == P!Earliest(store)
           h == IF t = NoDeadline THEN P!Gone ELSE P!Handler("decide", t)
<1>1. /\ store' = store /\ overdue' = {} /\ chains' = [chains EXCEPT ![c] = h]
      /\ UNCHANGED <<deadline, current, timers, missed, ticker, starter, wakes, run, health, reboots>>
  BY NothingToRecover DEF PlaneInv, P!ChainRead, P!StoreOp, P!RunUnchanged, P!timerVars
<1>2. NoDeadline \notin Nat /\ (t = NoDeadline \/ t \in Nat)
  BY EarliestIs, PlaneAssumptions DEF PlaneInv, QueueInv, P!TimerAssumption
<1>3. h \in HandlerRows /\ (t # NoDeadline => h.pc = "decide" /\ h.at = t)
  BY <1>2, HandlerIs DEF P!Gone
<1> HIDE DEF h
<1>4. chains' \in [Chains -> HandlerRows] /\ chains'[c] = h
  BY <1>1, <1>3, ChainRows DEF PlaneInv
<1>5. \A u \in Nat : u = P!Earliest(store) => Deciding(u)'
  BY <1>2, <1>3, <1>4 DEF Deciding
<1>6. QueueIsCovered'
  BY <1>1, <1>2, <1>5, ReadCovers DEF PlaneInv, QueueInv
<1>7. TimerInv' /\ QueueInv'
  BY <1>1, TimerStays, QueueStays DEF PlaneInv, P!timerVars
<1>8. PlaneTypes' /\ AllIsWell'
  BY <1>1, <1>4 DEF PlaneInv, PlaneTypes, AllIsWell
<1>9. QED
  BY <1>6, <1>7, <1>8 DEF PlaneInv

\* A handler schedules a wake or is about to wake a run itself.
LEMMA ChainDecideStep ==
    ASSUME CallsWork, PlaneInv, NEW c \in Chains, P!ChainDecide(c)
    PROVE  PlaneInv'
<1> DEFINE at == chains[c].at
<1>1. /\ chains[c].pc = "decide" /\ chains[c] \in HandlerRows /\ at \in Nat
      /\ UNCHANGED <<store, overdue, ticker, starter, wakes, run, health, reboots>>
  BY DEF PlaneInv, PlaneTypes, HandlerRows, P!ChainDecide, P!RunUnchanged
<1>2. QueueInv' /\ AllIsWell'
  BY <1>1, QueueStays DEF PlaneInv, AllIsWell
<1>3. CASE at > 0 /\ P!Schedule(at) /\ chains' = [chains EXCEPT ![c] = P!Gone]
  <2>1. /\ TimerInv' /\ (missed => missed')
        /\ missed' \/ \E t \in Nat : t <= at /\ Sleeping(t)'
        /\ \A t \in Nat : Sleeping(t) => \E u \in Nat : u <= t /\ Sleeping(u)'
        /\ \A k \in Threads : timers[k].pc # "off" => timers'[k] = timers[k]
    BY <1>1, <1>3, ScheduleKeeps, PlaneAssumptions DEF PlaneInv, P!TimerAssumption
  <2>2. /\ chains' \in [Chains -> HandlerRows]
        /\ \A b \in Chains : b # c => chains'[b] = chains[b]
    BY <1>3, HandlerIs, ChainRows DEF PlaneInv, P!Gone
  <2>3. Reading => Reading'
    BY <1>1, <2>1, <2>2 DEF Reading
  <2>4. Coming => Coming'
    BY <1>1, <2>1, <2>2 DEF Coming
  <2>5. ASSUME NEW t \in Nat, Deciding(t)
        PROVE  Deciding(t)' \/ missed' \/ \E u \in Nat : u <= t /\ Sleeping(u)'
    BY <1>1, <2>1, <2>2, <2>5 DEF Deciding
  <2>6. QueueIsCovered'
    BY <1>1, <2>1, <2>3, <2>4, <2>5, Keeps DEF PlaneInv, QueueInv
  <2>7. PlaneTypes'
    BY <1>1, <2>2 DEF PlaneInv, PlaneTypes
  <2>8. QED
    BY <1>2, <2>1, <2>6, <2>7 DEF PlaneInv
<1>4. CASE at = 0 /\ chains' = [chains EXCEPT ![c] = P!Handler("wake", 0)] /\ UNCHANGED P!timerVars
  <2>1. /\ chains' \in [Chains -> HandlerRows] /\ chains'[c].pc = "wake"
        /\ \A b \in Chains : b # c => chains'[b] = chains[b]
    <3>1. P!Handler("wake", 0) \in HandlerRows /\ P!Handler("wake", 0).pc = "wake"
      BY HandlerIs
    <3>2. QED
      BY <1>4, <3>1, ChainRows DEF PlaneInv
  <2>2. UNCHANGED <<deadline, current, timers, missed>> /\ TimerInv'
    BY <1>4, TimerStays DEF PlaneInv, P!timerVars
  <2>3. Reading => Reading'
    BY <1>1, <2>1, <2>2 DEF Reading
  <2>4. Coming'
    BY <2>1 DEF Coming
  <2>5. \A t \in Nat : Deciding(t) => Deciding(t)' \/ (t = 0 /\ Coming')
    BY <1>1, <1>4, <2>1, <2>2, <2>4 DEF Deciding
  <2>6. \A t \in Nat : Sleeping(t) => Sleeping(t)'
    BY <2>2 DEF Sleeping
  <2>7. QueueIsCovered'
    BY <1>1, <2>2, <2>3, <2>4, <2>5, <2>6, Keeps DEF PlaneInv, QueueInv
  <2>8. PlaneTypes'
    BY <1>1, <2>1 DEF PlaneInv, PlaneTypes
  <2>9. QED
    BY <1>2, <2>2, <2>7, <2>8 DEF PlaneInv
<1>5. QED
  BY <1>3, <1>4 DEF P!ChainDecide

\* A plane that is up: a wake sent is a wake to come.
LEMMA WakeComes ==
    ASSUME CallsWork, PlaneTypes, AllIsWell, P!Wake
    PROVE  wakes' \in Nat /\ wakes' > 0
BY PlaneAssumptions DEF CallsWork, P!PlaneAssumption, PlaneTypes, AllIsWell, P!Wake

\* A handler wakes a run.
LEMMA ChainWakeStep ==
    ASSUME CallsWork, PlaneInv, NEW c \in Chains, P!ChainWake(c)
    PROVE  PlaneInv'
<1>1. /\ chains[c].pc = "wake" /\ chains' = [chains EXCEPT ![c] = P!Gone] /\ P!Wake
      /\ UNCHANGED <<deadline, current, timers, missed, store, overdue, ticker, starter, run, health, reboots>>
  BY DEF P!ChainWake, P!RunUnchanged, P!timerVars
<1>2. wakes' \in Nat /\ wakes' > 0
  BY <1>1, WakeComes DEF PlaneInv
<1>3. /\ chains' \in [Chains -> HandlerRows] /\ \A b \in Chains : b # c => chains'[b] = chains[b]
  <2>1. P!Gone \in HandlerRows
    BY HandlerIs DEF P!Gone
  <2>2. QED
    BY <1>1, <2>1, ChainRows DEF PlaneInv
<1>4. Coming' /\ (Reading => Reading')
  BY <1>1, <1>2, <1>3 DEF Coming, Reading
<1>5. \A t \in Nat : (Deciding(t) => Deciding(t)') /\ (Sleeping(t) => Sleeping(t)')
  BY <1>1, <1>3 DEF Deciding, Sleeping
<1>6. QueueIsCovered'
  BY <1>1, <1>4, <1>5, Keeps DEF PlaneInv, QueueInv
<1>7. TimerInv' /\ QueueInv'
  BY <1>1, TimerStays, QueueStays DEF PlaneInv, P!timerVars
<1>8. PlaneTypes' /\ AllIsWell'
  BY <1>1, <1>2, <1>3 DEF PlaneInv, PlaneTypes, AllIsWell
<1>9. QED
  BY <1>6, <1>7, <1>8 DEF PlaneInv

\* The safety tick queues its scope, which is due, or changes nothing of the store.
LEMMA SafetyTickStep ==
    ASSUME CallsWork, PlaneInv, P!SafetyTick
    PROVE  PlaneInv'
<1>1. /\ store' = IF store.place[Safety] = "absent" THEN P!Put(store, Safety) ELSE store
      /\ overdue' = {} /\ ticker = "idle" /\ Safety \in P!Scopes
      /\ ticker' = IF store.place[Safety] \in {"claimed", "parked"} THEN "idle" ELSE "wake"
      /\ UNCHANGED <<deadline, current, timers, missed, chains, starter, wakes, run, health, reboots>>
  BY NothingToRecover DEF PlaneInv, P!SafetyTick, P!StoreOp, P!RunUnchanged, P!timerVars, P!Scopes
<1>2. TimerInv'
  BY <1>1, TimerStays DEF PlaneInv, P!timerVars
<1>3. PlaneTypes' /\ AllIsWell'
  BY <1>1 DEF PlaneInv, PlaneTypes, AllIsWell
<1>4. CASE store.place[Safety] = "absent"
  <2>1. QueueInv' /\ Due(0)'
    BY <1>1, <1>4, Puts DEF PlaneInv
  <2>2. Coming'
    BY <1>1, <1>4 DEF Coming
  <2>3. QED
    BY <1>2, <1>3, <2>1, <2>2, SeenTo DEF PlaneInv
<1>5. CASE store.place[Safety] # "absent"
  <2>1. UNCHANGED store /\ QueueInv'
    BY <1>1, <1>5, QueueStays DEF PlaneInv
  <2>2. (Coming => Coming') /\ (Reading => Reading')
    BY <1>1 DEF Coming, Reading
  <2>3. \A t \in Nat : (Deciding(t) => Deciding(t)') /\ (Sleeping(t) => Sleeping(t)')
    BY <1>1 DEF Deciding, Sleeping
  <2>4. QueueIsCovered'
    BY <1>1, <2>1, <2>2, <2>3, Keeps DEF PlaneInv, QueueInv
  <2>5. QED
    BY <1>2, <1>3, <2>1, <2>4 DEF PlaneInv
<1>6. QED
  BY <1>4, <1>5

\* The safety tick or the startup recovery wakes a run.
LEMMA OtherWakeStep ==
    ASSUME CallsWork, PlaneInv, P!SafetyWake \/ P!StartupWake
    PROVE  PlaneInv'
<1>1. /\ P!Wake /\ ticker' \in {"idle", "wake"} /\ starter' \in HandlerRows
      /\ starter.pc # "wake" => UNCHANGED starter
      /\ starter.pc = "wake" => starter' = starter \/ starter' = P!Gone
      /\ UNCHANGED <<deadline, current, timers, missed, store, overdue, chains, run, health, reboots>>
  BY HandlerIs DEF P!SafetyWake, P!StartupWake, P!RunUnchanged, P!timerVars, PlaneInv, PlaneTypes, P!Gone
<1>2. wakes' \in Nat /\ wakes' > 0
  BY <1>1, WakeComes DEF PlaneInv
<1>3. Coming' /\ (Reading => Reading')
  BY <1>1, <1>2 DEF Coming, Reading
<1>4. \A t \in Nat : (Deciding(t) => Deciding(t)') /\ (Sleeping(t) => Sleeping(t)')
  BY <1>1 DEF Deciding, Sleeping
<1>5. QueueIsCovered'
  BY <1>1, <1>3, <1>4, Keeps DEF PlaneInv, QueueInv
<1>6. TimerInv' /\ QueueInv'
  BY <1>1, TimerStays, QueueStays DEF PlaneInv, P!timerVars
<1>7. PlaneTypes' /\ AllIsWell'
  BY <1>1, <1>2 DEF PlaneInv, PlaneTypes, AllIsWell
<1>8. QED
  BY <1>5, <1>6, <1>7 DEF PlaneInv

\* The startup recovery reads the queue, like a handler.
LEMMA StartupReadStep ==
    ASSUME CallsWork, PlaneInv, P!StartupRead
    PROVE  PlaneInv'
<1> DEFINE t == P!Earliest(store)
<1>1. /\ store' = store /\ overdue' = {}
      /\ starter' = IF t = NoDeadline THEN P!Gone ELSE P!Handler("decide", t)
      /\ UNCHANGED <<deadline, current, timers, missed, ticker, chains, wakes, run, health, reboots>>
  BY NothingToRecover DEF PlaneInv, P!StartupRead, P!StoreOp, P!RunUnchanged, P!timerVars
<1>2. NoDeadline \notin Nat /\ (t = NoDeadline \/ t \in Nat)
  BY EarliestIs, PlaneAssumptions DEF PlaneInv, QueueInv, P!TimerAssumption
<1>3. starter' \in HandlerRows /\ (t # NoDeadline => starter'.pc = "decide" /\ starter'.at = t)
  BY <1>1, <1>2, HandlerIs DEF P!Gone
<1>4. \A u \in Nat : u = P!Earliest(store) => Deciding(u)'
  BY <1>2, <1>3 DEF Deciding
<1>5. QueueIsCovered'
  BY <1>1, <1>2, <1>4, ReadCovers DEF PlaneInv, QueueInv
<1>6. TimerInv' /\ QueueInv'
  BY <1>1, TimerStays, QueueStays DEF PlaneInv, P!timerVars
<1>7. PlaneTypes' /\ AllIsWell'
  BY <1>1, <1>3 DEF PlaneInv, PlaneTypes, AllIsWell
<1>8. QED
  BY <1>5, <1>6, <1>7 DEF PlaneInv

\* The startup recovery schedules a wake or is about to wake a run itself.
LEMMA StartupDecideStep ==
    ASSUME CallsWork, PlaneInv, P!StartupDecide
    PROVE  PlaneInv'
<1> DEFINE at == starter.at
<1>1. /\ starter.pc = "decide" /\ at \in Nat
      /\ UNCHANGED <<store, overdue, ticker, chains, wakes, run, health, reboots>>
  BY DEF PlaneInv, PlaneTypes, HandlerRows, P!StartupDecide, P!RunUnchanged
<1>2. QueueInv' /\ AllIsWell'
  BY <1>1, QueueStays DEF PlaneInv, AllIsWell
<1>3. CASE at > 0 /\ P!Schedule(at) /\ starter' = P!Gone
  <2>1. /\ TimerInv' /\ (missed => missed')
        /\ missed' \/ \E t \in Nat : t <= at /\ Sleeping(t)'
        /\ \A t \in Nat : Sleeping(t) => \E u \in Nat : u <= t /\ Sleeping(u)'
        /\ \A k \in Threads : timers[k].pc # "off" => timers'[k] = timers[k]
    BY <1>1, <1>3, ScheduleKeeps, PlaneAssumptions DEF PlaneInv, P!TimerAssumption
  <2>2. starter' \in HandlerRows
    BY <1>3, HandlerIs DEF P!Gone
  <2>3. Reading => Reading'
    BY <1>1, <2>1 DEF Reading
  <2>4. Coming => Coming'
    BY <1>1, <2>1 DEF Coming
  <2>5. ASSUME NEW t \in Nat, Deciding(t)
        PROVE  Deciding(t)' \/ missed' \/ \E u \in Nat : u <= t /\ Sleeping(u)'
    BY <1>1, <2>1, <2>5 DEF Deciding
  <2>6. QueueIsCovered'
    BY <1>1, <2>1, <2>3, <2>4, <2>5, Keeps DEF PlaneInv, QueueInv
  <2>7. PlaneTypes'
    BY <1>1, <2>2 DEF PlaneInv, PlaneTypes
  <2>8. QED
    BY <1>2, <2>1, <2>6, <2>7 DEF PlaneInv
<1>4. CASE at = 0 /\ starter' = P!Handler("wake", 0) /\ UNCHANGED P!timerVars
  <2>1. starter' \in HandlerRows /\ starter'.pc = "wake"
    BY <1>4, HandlerIs
  <2>2. UNCHANGED <<deadline, current, timers, missed>> /\ TimerInv'
    BY <1>4, TimerStays DEF PlaneInv, P!timerVars
  <2>3. Reading => Reading'
    BY <1>1, <2>2 DEF Reading
  <2>4. Coming'
    BY <2>1 DEF Coming
  <2>5. \A t \in Nat : Deciding(t) => Deciding(t)' \/ (t = 0 /\ Coming')
    BY <1>1, <1>4, <2>2, <2>4 DEF Deciding
  <2>6. \A t \in Nat : Sleeping(t) => Sleeping(t)'
    BY <2>2 DEF Sleeping
  <2>7. QueueIsCovered'
    BY <1>1, <2>2, <2>3, <2>4, <2>5, <2>6, Keeps DEF PlaneInv, QueueInv
  <2>8. PlaneTypes'
    BY <1>1, <2>1 DEF PlaneInv, PlaneTypes
  <2>9. QED
    BY <1>2, <2>2, <2>7, <2>8 DEF PlaneInv
<1>5. QED
  BY <1>3, <1>4 DEF P!StartupDecide

\* A timer thread goes on to the row h: it was awake already or its time has come, and the
\* deadline is cleared only by the current thread, which then is not awake any more.
LEMMA ThreadGoesOn ==
    ASSUME TimerInv, NEW k \in Threads, NEW h \in TimerRows, timers' = [timers EXCEPT ![k] = h],
           UNCHANGED current, missed' \in BOOLEAN, h.pc # "sleep",
           deadline' = deadline \/ (k = current /\ deadline' = NoDeadline),
           k = current /\ deadline' # NoDeadline => h.pc \in P!Busy,
           h.pc \in Awake => k = current /\ deadline = 0 /\ UNCHANGED deadline
    PROVE  /\ TimerInv' /\ timers'[k] = h
           /\ \A j \in Threads : j # k => timers'[j] = timers[j]
<1>1. /\ timers' \in [Threads -> TimerRows] /\ timers'[k] = h
      /\ \A j \in Threads : j # k => timers'[j] = timers[j]
  BY DEF TimerInv, TimerTypes
<1>2. TimerTypes'
  BY <1>1 DEF TimerInv, TimerTypes
<1>3. P!DeadlineHasThread' /\ CurrentSleeps'
  BY <1>1 DEF TimerInv, TimerTypes, P!DeadlineHasThread, CurrentSleeps
<1>4. AwakeIsCurrent'
  BY <1>1 DEF TimerInv, AwakeIsCurrent
<1>5. QED
  BY <1>1, <1>2, <1>3, <1>4 DEF TimerInv

\* A row of a timer thread.
LEMMA TimerIs ==
    ASSUME NEW pc \in P!Busy \union {"off", "again"}, NEW left \in Nat
    PROVE  P!Timer(pc, left) \in TimerRows /\ P!Timer(pc, left).pc = pc /\ P!Timer(pc, left).left = left
BY DEF P!Timer, TimerRows

\* What the steps of the timer threads leave alone.
LEMMA PlaneStays ==
    ASSUME PlaneInv, UNCHANGED <<store, overdue, chains, ticker, starter, run, health, reboots>>,
           wakes' \in Nat
    PROVE  PlaneTypes' /\ AllIsWell' /\ QueueInv'
BY QueueStays DEF PlaneInv, PlaneTypes, AllIsWell

\* A timer thread reads the queue, like a handler.
LEMMA TimerReadsStep ==
    ASSUME CallsWork, PlaneInv, NEW k \in Threads, P!TimerReads(k)
    PROVE  PlaneInv'
<1> DEFINE t == P!Earliest(store)
           h == IF t = NoDeadline THEN P!Timer("clear", 0) ELSE P!Timer("decide", t)
<1>1. /\ store' = store /\ overdue' = {} /\ timers[k].pc = "read" /\ timers' = [timers EXCEPT ![k] = h]
      /\ UNCHANGED <<deadline, current, missed, ticker, chains, starter, wakes, run, health, reboots>>
  BY NothingToRecover DEF PlaneInv, P!TimerReads, P!TimerRead, P!StoreOp, P!RunUnchanged
<1>2. NoDeadline \notin Nat /\ (t = NoDeadline \/ t \in Nat)
  BY EarliestIs, PlaneAssumptions DEF PlaneInv, QueueInv, P!TimerAssumption
<1>3. h \in TimerRows /\ h.pc \in {"clear", "decide"} /\ (t # NoDeadline => h.pc = "decide" /\ h.left = t)
  BY <1>2, TimerIs DEF P!Busy
<1>4. k = current /\ deadline = 0
  BY <1>1 DEF PlaneInv, TimerInv, AwakeIsCurrent, Awake
<1> HIDE DEF h
<1>5. TimerInv' /\ timers'[k] = h
  BY <1>1, <1>3, <1>4, ThreadGoesOn DEF PlaneInv, TimerInv, TimerTypes, P!Busy
<1>6. \A u \in Nat : u = P!Earliest(store) => Deciding(u)'
  BY <1>2, <1>3, <1>5 DEF Deciding
<1>7. QueueIsCovered'
  BY <1>1, <1>2, <1>6, ReadCovers DEF PlaneInv, QueueInv
<1>8. PlaneTypes' /\ AllIsWell' /\ QueueInv'
  <2>1. UNCHANGED overdue /\ wakes' \in Nat
    BY <1>1 DEF PlaneInv, AllIsWell, PlaneTypes
  <2>2. QED
    BY <1>1, <2>1, PlaneStays
<1>9. QED
  BY <1>5, <1>7, <1>8 DEF PlaneInv

\* A timer thread wakes a run.
LEMMA TimerWakesStep ==
    ASSUME CallsWork, PlaneInv, NEW k \in Threads, P!TimerWakes(k)
    PROVE  PlaneInv'
<1> DEFINE h == P!Timer("clear", 0)
<1>1. /\ timers[k].pc = "wake" /\ timers' = [timers EXCEPT ![k] = h] /\ P!Wake
      /\ UNCHANGED <<deadline, current, missed, store, overdue, ticker, chains, starter, run, health, reboots>>
  BY DEF P!TimerWakes, P!TimerWake, P!Step, P!RunUnchanged
<1>2. wakes' \in Nat /\ wakes' > 0
  BY <1>1, WakeComes DEF PlaneInv
<1>3. h \in TimerRows /\ h.pc = "clear"
  BY TimerIs DEF P!Busy
<1>4. k = current /\ deadline = 0
  BY <1>1 DEF PlaneInv, TimerInv, AwakeIsCurrent, Awake
<1> HIDE DEF h
<1>5. TimerInv' /\ timers'[k] = h /\ \A j \in Threads : j # k => timers'[j] = timers[j]
  BY <1>1, <1>3, <1>4, ThreadGoesOn DEF PlaneInv, TimerInv, TimerTypes, P!Busy
<1>6. Coming' /\ (Reading => Reading')
  BY <1>1, <1>2, <1>5 DEF Coming, Reading
<1>7. \A t \in Nat : (Deciding(t) => Deciding(t)') /\ (Sleeping(t) => Sleeping(t)')
  BY <1>1, <1>4, <1>5 DEF Deciding, Sleeping
<1>8. QueueIsCovered'
  BY <1>1, <1>6, <1>7, Keeps DEF PlaneInv, QueueInv
<1>9. QED
  BY <1>1, <1>2, <1>5, <1>8, PlaneStays DEF PlaneInv

\* What the other steps of the timer threads leave alone.
Elsewhere == <<store, overdue, chains, ticker, starter, wakes, run, health, reboots>>

\* A thread whose time has come is about to read if it is the current one, and ends if not.
LEMMA TimerCheckStep ==
    ASSUME CallsWork, PlaneInv, NEW k \in Threads, P!TimerCheck(k), UNCHANGED Elsewhere
    PROVE  TimerInv' /\ QueueIsCovered'
<1> USE DEF Elsewhere
<1> DEFINE on == k = current /\ deadline = timers[k].left
           h == P!Timer(IF on THEN "read" ELSE "off", 0)
<1>1. /\ timers[k].pc = "sleep" /\ timers[k].left = 0 /\ timers' = [timers EXCEPT ![k] = h]
      /\ UNCHANGED <<deadline, current, missed>>
  BY DEF P!TimerCheck, P!Step, P!StillCurrent, P!Off
<1>2. h \in TimerRows /\ h.pc = IF on THEN "read" ELSE "off"
  BY TimerIs DEF P!Busy
<1>3. k = current => on /\ deadline = 0
  BY <1>1 DEF PlaneInv, TimerInv, CurrentSleeps
<1> HIDE DEF h
<1>4. TimerInv' /\ timers'[k] = h /\ \A j \in Threads : j # k => timers'[j] = timers[j]
  BY <1>1, <1>2, <1>3, ThreadGoesOn DEF PlaneInv, TimerInv, TimerTypes, P!Busy, Awake
<1>5. CASE on
  BY <1>2, <1>4, <1>5, SeenTo DEF Reading
<1>6. CASE ~on
  <2>1. (Coming => Coming') /\ (Reading => Reading')
    BY <1>1, <1>4 DEF Coming, Reading
  <2>2. \A t \in Nat : (Deciding(t) => Deciding(t)') /\ (Sleeping(t) => Sleeping(t)')
    BY <1>1, <1>3, <1>4, <1>6 DEF Deciding, Sleeping, PlaneInv, TimerInv, TimerTypes
  <2>3. QueueIsCovered'
    BY <1>1, <2>1, <2>2, Keeps DEF PlaneInv, QueueInv
  <2>4. QED
    BY <1>4, <2>3
<1>7. QED
  BY <1>4, <1>5, <1>6

\* A thread that cannot read the queue misses what is in it.
LEMMA TimerReadFailsStep ==
    ASSUME CallsWork, PlaneInv, NEW k \in Threads, P!TimerReadFails(k), UNCHANGED Elsewhere
    PROVE  TimerInv' /\ QueueIsCovered'
<1> DEFINE h == P!Timer("clear", 0)
<1>1. /\ timers[k].pc = "read" /\ timers' = [timers EXCEPT ![k] = h] /\ missed' = TRUE
      /\ UNCHANGED <<deadline, current>>
  BY DEF P!TimerReadFails, P!Step
<1>2. h \in TimerRows /\ h.pc = "clear"
  BY TimerIs DEF P!Busy
<1>3. k = current /\ deadline = 0
  BY <1>1 DEF PlaneInv, TimerInv, AwakeIsCurrent, Awake
<1> HIDE DEF h
<1>4. TimerInv'
  BY <1>1, <1>2, <1>3, ThreadGoesOn DEF PlaneInv, P!Busy
<1>5. QED
  BY <1>1, <1>4 DEF QueueIsCovered

\* A thread that has read goes on with the scope it found: it wakes a run or moves its sleep.
LEMMA TimerDecideStep ==
    ASSUME CallsWork, PlaneInv, NEW k \in Threads, P!TimerDecide(k), UNCHANGED Elsewhere
    PROVE  TimerInv' /\ QueueIsCovered'
<1> USE DEF Elsewhere
<1> DEFINE left == timers[k].left
           h == [timers[k] EXCEPT !.pc = IF left > 0 THEN "move" ELSE "wake"]
<1>1. /\ timers[k].pc = "decide" /\ timers[k] \in TimerRows /\ left \in Nat
      /\ timers' = [timers EXCEPT ![k] = h]
      /\ UNCHANGED <<deadline, current, missed>>
  BY DEF P!TimerDecide, PlaneInv, TimerInv, TimerTypes, TimerRows
<1>2. h \in TimerRows /\ h.pc = (IF left > 0 THEN "move" ELSE "wake") /\ h.left = left
  BY <1>1 DEF TimerRows, P!Busy
<1>3. k = current /\ deadline = 0
  BY <1>1 DEF PlaneInv, TimerInv, AwakeIsCurrent, Awake
<1> HIDE DEF h
<1>4. TimerInv' /\ timers'[k] = h /\ \A j \in Threads : j # k => timers'[j] = timers[j]
  BY <1>1, <1>2, <1>3, ThreadGoesOn DEF PlaneInv, TimerInv, TimerTypes, P!Busy
<1>5. (Coming => Coming') /\ (Reading => Reading') /\ (left = 0 => Coming')
  BY <1>1, <1>2, <1>4 DEF Coming, Reading
<1>6. \A t \in Nat : Deciding(t) => Deciding(t)' \/ (t = 0 /\ Coming')
  BY <1>1, <1>2, <1>4, <1>5 DEF Deciding
<1>7. \A t \in Nat : Sleeping(t) => Sleeping(t)'
  BY <1>1, <1>3 DEF Sleeping
<1>8. QueueIsCovered'
  BY <1>1, <1>5, <1>6, <1>7, Keeps DEF PlaneInv, QueueInv
<1>9. QED
  BY <1>4, <1>8

\* A thread that is done takes its deadline away; it slept no more.
LEMMA TimerClearStep ==
    ASSUME CallsWork, PlaneInv, NEW k \in Threads, P!TimerClear(k), UNCHANGED Elsewhere
    PROVE  TimerInv' /\ QueueIsCovered'
<1> USE DEF Elsewhere
<1> DEFINE h == P!Off
<1>1. /\ timers[k].pc = "clear" /\ timers' = [timers EXCEPT ![k] = h]
      /\ UNCHANGED <<current, missed>>
      /\ deadline' = IF k = current THEN NoDeadline ELSE deadline
  BY DEF P!TimerClear, P!Step, P!Cleared
<1>2. h \in TimerRows /\ h.pc = "off"
  BY TimerIs DEF P!Off
<1>3. k = current /\ deadline = 0
  BY <1>1 DEF PlaneInv, TimerInv, AwakeIsCurrent, Awake
<1> HIDE DEF h
<1>4. TimerInv' /\ timers'[k] = h /\ \A j \in Threads : j # k => timers'[j] = timers[j]
  BY <1>1, <1>2, <1>3, ThreadGoesOn DEF PlaneInv, TimerInv, TimerTypes, P!Busy, Awake
<1>5. (Coming => Coming') /\ (Reading => Reading')
  BY <1>1, <1>2, <1>4 DEF Coming, Reading
<1>6. \A t \in Nat : (Deciding(t) => Deciding(t)') /\ ~Sleeping(t)
  BY <1>1, <1>3, <1>4 DEF Deciding, Sleeping
<1>7. QueueIsCovered'
  BY <1>1, <1>5, <1>6, Keeps DEF PlaneInv, QueueInv
<1>8. QED
  BY <1>4, <1>7

\* A thread that moves its sleep takes the deadline away and is about to schedule again.
LEMMA TimerMoveStep ==
    ASSUME CallsWork, PlaneInv, NEW k \in Threads, P!TimerMove(k), UNCHANGED Elsewhere
    PROVE  TimerInv' /\ QueueIsCovered'
<1> USE DEF Elsewhere
<1> DEFINE h == [timers[k] EXCEPT !.pc = "again"]
<1>1. /\ timers[k].pc = "move" /\ timers[k] \in TimerRows /\ timers' = [timers EXCEPT ![k] = h]
      /\ UNCHANGED <<current, missed>>
      /\ deadline' = IF k = current THEN NoDeadline ELSE deadline
  BY DEF P!TimerMove, P!Cleared, PlaneInv, TimerInv, TimerTypes
<1>2. h \in TimerRows /\ h.pc = "again" /\ h.left = timers[k].left
  BY <1>1 DEF TimerRows
<1>3. k = current /\ deadline = 0
  BY <1>1 DEF PlaneInv, TimerInv, AwakeIsCurrent, Awake
<1> HIDE DEF h
<1>4. TimerInv' /\ timers'[k] = h /\ \A j \in Threads : j # k => timers'[j] = timers[j]
  BY <1>1, <1>2, <1>3, ThreadGoesOn DEF PlaneInv, TimerInv, TimerTypes, P!Busy, Awake
<1>5. (Coming => Coming') /\ (Reading => Reading')
  BY <1>1, <1>2, <1>4 DEF Coming, Reading
<1>6. \A t \in Nat : (Deciding(t) => Deciding(t)') /\ ~Sleeping(t)
  BY <1>1, <1>2, <1>3, <1>4 DEF Deciding, Sleeping
<1>7. QueueIsCovered'
  BY <1>1, <1>5, <1>6, Keeps DEF PlaneInv, QueueInv
<1>8. QED
  BY <1>4, <1>7

\* A thread schedules the wake it moved, like a handler, and gives up its own slot.
LEMMA TimerAgainStep ==
    ASSUME CallsWork, PlaneInv, NEW k \in Threads, P!TimerAgain(k), UNCHANGED Elsewhere
    PROVE  TimerInv' /\ QueueIsCovered'
<1> USE DEF Elsewhere
<1>0. PICK d \in Nat : d = timers[k].left
  BY DEF PlaneInv, TimerInv, TimerTypes, TimerRows
<1>1. timers[k].pc = "again" /\ timers[k] \in TimerRows /\ NoDeadline \notin Nat
  BY PlaneAssumptions DEF P!TimerAgain, PlaneInv, TimerInv, TimerTypes, TimerRows, P!TimerAssumption
<1>2. P!Off \in TimerRows /\ P!Off.pc = "off"
  BY TimerIs DEF P!Off
<1>3. CASE P!Coalesce(d) /\ P!Step(k, "again", "off")
  <2>1. /\ deadline \in Nat /\ deadline <= d /\ UNCHANGED <<deadline, current>>
        /\ timers' = [timers EXCEPT ![k] = P!Off]
        /\ missed' = (missed \/ timers[current].pc # "sleep") /\ missed' \in BOOLEAN
        /\ (missed => missed')
    BY <1>3 DEF P!Coalesce, P!Coalesced, P!Step, PlaneInv, TimerInv, TimerTypes
  <2>2. k # current
    BY <1>1, <2>1 DEF PlaneInv, TimerInv, P!DeadlineHasThread, P!Busy
  <2>3. TimerInv' /\ timers'[k] = P!Off /\ \A j \in Threads : j # k => timers'[j] = timers[j]
    BY <1>2, <2>1, <2>2, ThreadGoesOn DEF PlaneInv, Awake
  <2>4. (Coming => Coming') /\ (Reading => Reading')
    BY <1>1, <2>1, <2>3 DEF Coming, Reading
  <2>5. \A t \in Nat : Sleeping(t) => Sleeping(t)'
    BY <2>1, <2>2, <2>3 DEF Sleeping, PlaneInv, TimerInv, TimerTypes
  <2>6. missed' \/ Sleeping(deadline)'
    BY <2>1, <2>2, <2>3 DEF Sleeping, PlaneInv, TimerInv, TimerTypes
  <2>7. missed' \/ \E u \in Nat : u <= d /\ Sleeping(u)'
    BY <2>1, <2>6
  <2>8. \A t \in Nat : Deciding(t) => Deciding(t)' \/ missed' \/ \E u \in Nat : u <= t /\ Sleeping(u)'
    BY <1>0, <1>1, <2>1, <2>3, <2>7 DEF Deciding
  <2>9. QueueIsCovered'
    <3>1. store \in Stores /\ QueueIsCovered /\ (missed => missed')
      BY <2>1 DEF PlaneInv, QueueInv
    <3>2. UNCHANGED store /\ (run.pc = "work" => run'.pc = "work")
      OBVIOUS
    <3>3. Coming /\ Due(0) => Coming'
      BY <2>4
    <3>4. \A t \in Nat : Sleeping(t) => \E u \in Nat : u <= t /\ Sleeping(u)'
      BY <2>5
    <3>5. QED
      BY <2>4, <2>8, <3>1, <3>2, <3>3, <3>4, Keeps
  <2>10. QED
    BY <2>3, <2>9
<1>4. CASE ~P!Coalesced(d) /\ P!StartTimer(d, [timers EXCEPT ![k] = P!Off]) /\ UNCHANGED missed
  <2> DEFINE ts == [timers EXCEPT ![k] = P!Off]
  <2>1. deadline = NoDeadline \/ (deadline \in Nat /\ deadline > d)
    BY <1>1, <1>4 DEF P!Coalesced, PlaneInv, TimerInv, TimerTypes
  <2>2. /\ ts \in [Threads -> TimerRows] /\ ts[k] = P!Off
        /\ \A j \in Threads : j # k => ts[j] = timers[j]
    BY <1>2 DEF PlaneInv, TimerInv, TimerTypes
  <2>3. \A j \in Threads : ts[j].pc \notin Awake
    <3>1. \A j \in Threads : timers[j].pc \notin Awake
      BY <1>1, <2>1 DEF PlaneInv, TimerInv, AwakeIsCurrent
    <3>2. QED
      BY <1>2, <2>2, <3>1 DEF Awake
  <2> HIDE DEF ts
  <2>4. P!StartTimer(d, ts)
    BY <1>4 DEF ts
  <2>5. /\ current' \in Threads /\ timers' \in [Threads -> TimerRows] /\ deadline' = d
        /\ P!DeadlineHasThread' /\ CurrentSleeps' /\ AwakeIsCurrent' /\ Sleeping(d)'
        /\ \A j \in Threads : ts[j].pc # "off" => timers'[j] = ts[j]
    BY <1>1, <2>2, <2>3, <2>4, StartKeeps DEF PlaneInv, TimerInv, TimerTypes
  <2>6. TimerInv'
    BY <1>1, <1>4, <2>5 DEF PlaneInv, TimerInv, TimerTypes
  <2>7. \A j \in Threads : j # k /\ timers[j].pc # "off" => timers'[j] = timers[j]
    BY <2>2, <2>5
  <2>8. (Coming => Coming') /\ (Reading => Reading')
    BY <1>1, <2>7 DEF Coming, Reading
  <2>9. \A t \in Nat : Sleeping(t) => \E u \in Nat : u <= t /\ Sleeping(u)'
    BY <2>1, <2>5, <1>1 DEF Sleeping
  <2>10. \A t \in Nat : Deciding(t) => Deciding(t)' \/ \E u \in Nat : u <= t /\ Sleeping(u)'
    BY <1>0, <1>1, <2>5, <2>7 DEF Deciding
  <2>11. QueueIsCovered'
    BY <1>1, <1>4, <2>5, <2>8, <2>9, <2>10, Keeps DEF PlaneInv, QueueInv
  <2>12. QED
    BY <2>6, <2>11
<1>5. QED
  BY <1>0, <1>3, <1>4 DEF P!TimerAgain

\* The steps above leave everything else alone.
LEMMA TimerMovesStep ==
    ASSUME CallsWork, PlaneInv, NEW k \in Threads, P!TimerMoves(k)
    PROVE  PlaneInv'
<1>1. UNCHANGED Elsewhere
  BY DEF P!TimerMoves, P!RunUnchanged, Elsewhere
<1>2. TimerInv' /\ QueueIsCovered'
  BY <1>1, TimerCheckStep, TimerReadFailsStep, TimerDecideStep, TimerClearStep, TimerMoveStep, TimerAgainStep
     DEF P!TimerMoves
<1>3. PlaneTypes' /\ AllIsWell' /\ QueueInv'
  BY <1>1, PlaneStays DEF Elsewhere, PlaneInv, PlaneTypes
<1>4. QED
  BY <1>2, <1>3 DEF PlaneInv

\* A restart takes every thread away; the startup recovery is about to read the queue.
LEMMA RestartStep ==
    ASSUME CallsWork, PlaneInv, P!Restart
    PROVE  PlaneInv'
<1>1. /\ deadline' = NoDeadline /\ timers' = [k \in Threads |-> P!Off]
      /\ chains' = [c \in Chains |-> P!Gone] /\ ticker' = "idle" /\ starter' = P!Handler("read", 0)
      /\ UNCHANGED <<current, missed, store, overdue, wakes, run, health>>
  BY DEF P!Restart
<1>2. /\ P!Off \in TimerRows /\ P!Off.pc = "off" /\ P!Gone \in HandlerRows
      /\ P!Handler("read", 0) \in HandlerRows /\ P!Handler("read", 0).pc = "read"
  BY TimerIs, HandlerIs DEF P!Off, P!Gone
<1>3. TimerInv'
  BY <1>1, <1>2 DEF PlaneInv, TimerInv, TimerTypes, P!DeadlineHasThread, CurrentSleeps, AwakeIsCurrent, Awake
<1>4. PlaneTypes' /\ AllIsWell' /\ QueueInv'
  BY <1>1, <1>2, QueueStays DEF PlaneInv, PlaneTypes, AllIsWell
<1>5. QueueIsCovered'
  BY <1>1, <1>2, SeenTo DEF Reading
<1>6. QED
  BY <1>3, <1>4, <1>5 DEF PlaneInv

\* A wake starts a run, which is about to claim.
LEMMA StartRunStep ==
    ASSUME CallsWork, PlaneInv, P!StartRun
    PROVE  PlaneInv'
<1>1. /\ wakes \in Nat /\ wakes > 0 /\ wakes' = wakes - 1 /\ run = P!Idle
      /\ run' = [pc |-> "claim", scope |-> P!NoScope]
      /\ UNCHANGED <<deadline, current, timers, missed, chains, ticker, starter, store, overdue, health, reboots>>
  BY DEF P!StartRun, P!routerVars, P!timerVars, PlaneInv, AllIsWell, PlaneTypes
<1>2. TimerInv'
  BY <1>1, TimerStays DEF PlaneInv, P!timerVars
<1>3. PlaneTypes' /\ AllIsWell'
  BY <1>1 DEF PlaneInv, PlaneTypes, AllIsWell
<1>4. QueueInv'
  BY <1>1 DEF PlaneInv, QueueInv, QueueIsPlaces, Queued, ClaimIsRuns, P!Idle
<1>5. Coming' /\ (Reading => Reading') /\ run.pc # "work"
  BY <1>1 DEF Coming, Reading, P!Idle
<1>6. \A t \in Nat : (Deciding(t) => Deciding(t)') /\ (Sleeping(t) => Sleeping(t)')
  BY <1>1 DEF Deciding, Sleeping
<1>7. QueueIsCovered'
  BY <1>1, <1>5, <1>6, Keeps DEF PlaneInv, QueueInv
<1>8. QED
  BY <1>2, <1>3, <1>4, <1>7 DEF PlaneInv

\* A run claims a scope that is due; it finds none only when none is due.
LEMMA RunClaimStep ==
    ASSUME CallsWork, PlaneInv, P!RunClaim
    PROVE  PlaneInv'
<1> DEFINE ready == {n \in 1..Len(store.queue) : store.due[store.queue[n]] = 0}
<1>1. /\ run.pc = "claim" /\ overdue' = {}
      /\ UNCHANGED <<deadline, current, timers, missed, chains, ticker, starter, wakes, health, reboots>>
      /\ \/ ready = {} /\ store' = store /\ run' = P!Idle
         \/ \E n \in ready : /\ store' = P!Take(store, n)
                             /\ run' = [pc |-> "work", scope |-> store.queue[n]]
  BY NothingToRecover DEF P!RunClaim, P!StoreOp, P!routerVars, P!timerVars, PlaneInv
<1>2. TimerInv'
  BY <1>1, TimerStays DEF PlaneInv, P!timerVars
<1>3. AllIsWell'
  BY <1>1 DEF PlaneInv, AllIsWell
<1>4. CASE ready = {} /\ store' = store /\ run' = P!Idle
  <2>1. ~Due(0)
    BY <1>4 DEF Due, PlaneInv, QueueInv, QueueIsPlaces, Queued
  <2>2. PlaneTypes'
    BY <1>1, <1>4 DEF PlaneInv, PlaneTypes, P!Idle
  <2>3. QueueInv'
    BY <1>1, <1>4 DEF PlaneInv, QueueInv, QueueIsPlaces, Queued, ClaimIsRuns, P!Idle
  <2>4. Reading => Reading'
    BY <1>1 DEF Reading
  <2>5. \A t \in Nat : (Deciding(t) => Deciding(t)') /\ (Sleeping(t) => Sleeping(t)')
    BY <1>1 DEF Deciding, Sleeping
  <2>6. QueueIsCovered'
    BY <1>1, <1>4, <2>1, <2>4, <2>5, Keeps DEF PlaneInv, QueueInv
  <2>7. QED
    BY <1>2, <1>3, <2>2, <2>3, <2>6 DEF PlaneInv
<1>5. ASSUME NEW n \in ready, store' = P!Take(store, n),
             run' = [pc |-> "work", scope |-> store.queue[n]]
      PROVE  PlaneInv'
  <2>1. QueueInv' /\ run'.scope \in P!Scopes /\ run'.pc = "work"
    BY <1>1, <1>5, Takes DEF PlaneInv
  <2>2. PlaneTypes'
    BY <1>1, <1>5, <2>1 DEF PlaneInv, PlaneTypes
  <2>3. QED
    BY <1>2, <1>3, <2>1, <2>2, SeenTo DEF PlaneInv
<1>6. QED
  BY <1>1, <1>4, <1>5

\* A run answers, and the handler of its answer is about to read the queue.
LEMMA RunEndsStep ==
    ASSUME CallsWork, PlaneInv, NEW c \in Chains, P!RunAcks(c) \/ P!RunRequeues(c)
    PROVE  PlaneInv'
<1>1. /\ run.pc = "work" /\ chains' = [chains EXCEPT ![c] = P!Handler("read", 0)]
      /\ run' = P!Idle /\ overdue' = {}
      /\ UNCHANGED <<deadline, current, timers, missed, ticker, starter, wakes, health, reboots>>
  BY DEF P!RunAcks, P!RunRequeues, P!StoreOp, P!timerVars
<1>2. P!Handler("read", 0) \in HandlerRows /\ P!Handler("read", 0).pc = "read"
  BY HandlerIs
<1>3. chains' \in [Chains -> HandlerRows] /\ chains'[c].pc = "read"
  BY <1>1, <1>2, ChainRows DEF PlaneInv
<1>4. run.scope \in P!Scopes
  BY <1>1 DEF PlaneInv, PlaneTypes
<1>5. QueueInv'
  <2>1. CASE P!RunAcks(c)
    <3>1. store' = P!Finish(store, run.scope)
      BY <2>1, NothingToRecover DEF P!RunAcks, P!StoreOp, PlaneInv
    <3>2. QED
      BY <1>1, <1>4, <3>1, Finishes DEF PlaneInv
  <2>2. CASE P!RunRequeues(c)
    <3> DEFINE n == store.tries[run.scope] + 1
               d == Backoff[IF n < Len(Backoff) THEN n ELSE Len(Backoff)]
    <3>1. store' = P!GiveBack(store, run.scope, d)
      BY <2>2, NothingToRecover DEF P!RunRequeues, P!StoreOp, PlaneInv
    <3>2. n \in Nat /\ n > 0
      BY <1>4 DEF PlaneInv, QueueInv, Stores
    <3>3. Backoff \in Seq(0..MaxDelay) /\ Len(Backoff) \in Nat /\ Len(Backoff) > 0 /\ MaxDelay \in Nat
      BY EmptySeq, LenProperties, PlaneAssumptions DEF P!PlaneAssumption, P!TimerAssumption
    <3>4. (IF n < Len(Backoff) THEN n ELSE Len(Backoff)) \in 1..Len(Backoff)
      BY <3>2, <3>3
    <3>5. d \in 0..MaxDelay
      BY <3>3, <3>4, ElementOfSeq
    <3>6. d \in Nat
      BY <3>3, <3>5
    <3> HIDE DEF d
    <3>7. QED
      BY <1>1, <1>4, <3>1, <3>6, GivesBack DEF PlaneInv
  <2>3. QED
    BY <2>1, <2>2
<1>6. TimerInv'
  BY <1>1, TimerStays DEF PlaneInv, P!timerVars
<1>7. PlaneTypes' /\ AllIsWell'
  BY <1>1, <1>3 DEF PlaneInv, PlaneTypes, AllIsWell, P!Idle
<1>8. QueueIsCovered'
  BY <1>3, SeenTo DEF Reading
<1>9. QED
  BY <1>5, <1>6, <1>7, <1>8 DEF PlaneInv

\* One second: a number goes down to 0 and no further, and keeps its order.
LEMMA SoonerIs ==
    ASSUME NoDeadline \notin Nat
    PROVE  /\ P!Sooner(NoDeadline) = NoDeadline /\ P!Sooner(0) = 0
           /\ \A d \in Nat : P!Sooner(d) \in Nat
           /\ \A d, e \in Nat : d <= e => P!Sooner(d) <= P!Sooner(e)
BY DEF P!Sooner

\* The clock: what waits, waits one second less, and so does who sleeps.
LEMMA SecondStep ==
    ASSUME CallsWork, PlaneInv, P!Second
    PROVE  PlaneInv'
<1>1. /\ P!Sooner(NoDeadline) = NoDeadline /\ P!Sooner(0) = 0
      /\ \A d \in Nat : P!Sooner(d) \in Nat
      /\ \A d, e \in Nat : d <= e => P!Sooner(d) <= P!Sooner(e)
  BY SoonerIs, PlaneAssumptions DEF P!TimerAssumption
<1>2. /\ deadline' = P!Sooner(deadline) /\ UNCHANGED <<current, missed>>
      /\ timers' = [k \in Threads |-> P!Timer(timers[k].pc, P!Sooner(timers[k].left))]
      /\ store' = [store EXCEPT !.due = [s \in P!Scopes |-> P!Sooner(@[s])]]
      /\ chains' = [c \in Chains |-> P!Handler(chains[c].pc, P!Sooner(chains[c].at))]
      /\ starter' = P!Handler(starter.pc, P!Sooner(starter.at))
      /\ UNCHANGED <<overdue, ticker, wakes, run, health, reboots>>
  BY DEF P!Second, P!TimerTick
<1>3. \A k \in Threads : /\ timers[k] \in TimerRows
                       /\ timers'[k] \in TimerRows /\ timers'[k].pc = timers[k].pc
                       /\ timers'[k].left = P!Sooner(timers[k].left)
  <2>1. ASSUME NEW k \in Threads
        PROVE  timers[k] \in TimerRows /\ timers'[k] = P!Timer(timers[k].pc, P!Sooner(timers[k].left))
    BY <1>2 DEF PlaneInv, TimerInv, TimerTypes
  <2>2. ASSUME NEW k \in Threads
        PROVE  /\ timers[k].pc \in P!Busy \union {"off", "again"} /\ P!Sooner(timers[k].left) \in Nat
    BY <1>1, <2>1 DEF TimerRows
  <2>3. ASSUME NEW k \in Threads
        PROVE  LET h == P!Timer(timers[k].pc, P!Sooner(timers[k].left)) IN
               h \in TimerRows /\ h.pc = timers[k].pc /\ h.left = P!Sooner(timers[k].left)
    BY <2>2, TimerIs
  <2>4. QED
    BY <2>1, <2>3
<1>4. \A c \in Chains : /\ chains[c] \in HandlerRows
                        /\ chains'[c] \in HandlerRows /\ chains'[c].pc = chains[c].pc
                        /\ chains'[c].at = P!Sooner(chains[c].at)
  <2>1. ASSUME NEW c \in Chains
        PROVE  chains[c] \in HandlerRows /\ chains'[c] = P!Handler(chains[c].pc, P!Sooner(chains[c].at))
    BY <1>2 DEF PlaneInv, PlaneTypes
  <2>2. ASSUME NEW c \in Chains
        PROVE  chains[c].pc \in {"off", "read", "decide", "wake"} /\ P!Sooner(chains[c].at) \in Nat
    BY <1>1, <2>1 DEF HandlerRows
  <2>3. QED
    BY <2>1, <2>2, HandlerIs
<1>5. /\ starter' \in HandlerRows /\ starter'.pc = starter.pc /\ starter'.at = P!Sooner(starter.at)
  <2>1. starter.pc \in {"off", "read", "decide", "wake"} /\ P!Sooner(starter.at) \in Nat
    BY <1>1 DEF PlaneInv, PlaneTypes, HandlerRows
  <2>2. QED
    BY <1>2, <2>1, HandlerIs
<1>6. /\ store' \in Stores /\ store'.queue = store.queue /\ store'.place = store.place
      /\ \A s \in P!Scopes : store.due[s] \in Nat /\ store'.due[s] = P!Sooner(store.due[s])
  <2>1. store \in Stores
    BY DEF PlaneInv, QueueInv
  <2>2. store' = [store EXCEPT !.due = [s \in P!Scopes |-> P!Sooner(store.due[s])]]
    BY <1>2
  <2>3. \A s \in P!Scopes : store.due[s] \in Nat /\ P!Sooner(store.due[s]) \in Nat
    BY <1>1, <2>1 DEF Stores
  <2>4. [s \in P!Scopes |-> P!Sooner(store.due[s])] \in [P!Scopes -> Nat]
    BY <2>3
  <2>5. QED
    BY <2>1, <2>2, <2>3, <2>4 DEF Stores
<1>7. QueueInv'
  BY <1>2, <1>6 DEF PlaneInv, QueueInv, QueueIsPlaces, Queued, ClaimIsRuns
<1>8. PlaneTypes' /\ AllIsWell'
  <2>1. chains' \in [Chains -> HandlerRows]
    BY <1>2, <1>4
  <2>2. QED
    BY <1>2, <1>5, <2>1 DEF PlaneInv, PlaneTypes, AllIsWell
<1>9. TimerInv'
  <2>1. TimerTypes'
    <3>1. timers' \in [Threads -> TimerRows]
      BY <1>2, <1>3
    <3>2. QED
      BY <1>1, <1>2, <3>1 DEF PlaneInv, TimerInv, TimerTypes
  <2>2. P!DeadlineHasThread'
    BY <1>1, <1>2, <1>3 DEF PlaneInv, TimerInv, TimerTypes, P!DeadlineHasThread
  <2>3. CurrentSleeps'
    BY <1>2, <1>3 DEF PlaneInv, TimerInv, TimerTypes, CurrentSleeps
  <2>4. AwakeIsCurrent'
    BY <1>1, <1>2, <1>3 DEF PlaneInv, TimerInv, AwakeIsCurrent
  <2>5. QED
    BY <2>1, <2>2, <2>3, <2>4 DEF TimerInv
<1>10. (Reading => Reading') /\ (Coming => Coming')
  BY <1>2, <1>3, <1>4, <1>5 DEF Reading, Coming
<1>11. ASSUME NEW t \in Nat, NEW u \in Nat, u = P!Sooner(t)
       PROVE  /\ Due(t) => Due(u)'
              /\ Deciding(t) => Deciding(u)'
              /\ Sleeping(t) => Sleeping(u)'
  <2>1. Due(t) => Due(u)'
    BY <1>6, <1>11 DEF Due, Queued
  <2>2. Deciding(t) => Deciding(u)'
    BY <1>3, <1>4, <1>5, <1>11 DEF Deciding
  <2>3. Sleeping(t) => Sleeping(u)'
    BY <1>2, <1>3, <1>11 DEF Sleeping, PlaneInv, TimerInv, TimerTypes
  <2>4. QED
    BY <2>1, <2>2, <2>3
<1>12. QueueIsCovered'
  <2> SUFFICES ASSUME ~missed', NEW s \in P!Scopes, s \in Queued'
               PROVE  Covered(s)'
    BY DEF QueueIsCovered, Queued
  <2>1. s \in Queued /\ Covered(s) /\ store.due[s] \in Nat /\ store'.due[s] = P!Sooner(store.due[s])
    BY <1>2, <1>6 DEF PlaneInv, QueueIsCovered, Queued
  <2>2. CASE run.pc = "work" \/ Reading
    BY <1>2, <1>10, <2>2 DEF Covered
  <2>3. CASE Coming /\ Due(0)
    BY <1>1, <1>10, <1>11, <2>3 DEF Covered
  <2>4. CASE Slept(s)
    <3>1. PICK t \in Nat : t <= store.due[s] /\ (Sleeping(t) \/ (Deciding(t) /\ Due(t)))
      BY <2>4 DEF Slept
    <3>2. PICK u \in Nat : u = P!Sooner(t)
      BY <1>1
    <3>3. u <= store'.due[s]
      BY <1>1, <2>1, <3>1, <3>2
    <3>4. Sleeping(u)' \/ (Deciding(u)' /\ Due(u)')
      BY <1>11, <3>1, <3>2
    <3>5. QED
      BY <3>3, <3>4 DEF Covered, Slept
  <2>5. QED
    BY <2>1, <2>2, <2>3, <2>4 DEF Covered
<1>13. QED
  BY <1>7, <1>8, <1>9, <1>12 DEF PlaneInv

\* A plane that works and whose scopes never wait too long does not do the rest.
LEMMA NothingElse ==
    ASSUME CallsWork, PlaneInv
    PROVE  /\ ~P!RunDies /\ ~P!Repair
           /\ \A s \in P!Scopes : ~P!WaitRunsOut(s) /\ ~P!LeaseRunsOut(s)
<1>1. ~P!RunDies /\ ~P!Repair
  BY DEF PlaneInv, AllIsWell, P!RunDies, P!Repair
<1>2. \A s \in P!Scopes : ~P!WaitRunsOut(s)
  BY DEF CallsWork, P!WaitRunsOut
<1>3. \A s \in P!Scopes : ~P!LeaseRunsOut(s)
  BY DEF PlaneInv, QueueInv, ClaimIsRuns, P!LeaseRunsOut
<1>4. QED
  BY <1>1, <1>2, <1>3

\* Nothing waits and nobody sleeps in the beginning.
LEMMA PlaneInvInit ==
    ASSUME CallsWork, P!Init
    PROVE  PlaneInv
<1>1. /\ deadline = NoDeadline /\ current \in Threads /\ timers = [k \in Threads |-> P!Off] /\ missed = FALSE
      /\ store = [queue |-> <<>>, place |-> [s \in P!Scopes |-> "absent"],
                  due |-> [s \in P!Scopes |-> 0], tries |-> [s \in P!Scopes |-> 0]]
      /\ overdue = {} /\ chains = [c \in Chains |-> P!Gone] /\ ticker = "idle" /\ starter = P!Gone
      /\ wakes = 0 /\ run = P!Idle /\ health = "up"
  BY DEF P!Init, P!TimerInit, CallsWork
<1>2. P!Off \in TimerRows /\ P!Off.pc = "off" /\ P!Gone \in HandlerRows
  BY TimerIs, HandlerIs DEF P!Off, P!Gone
<1>3. TimerInv
  BY <1>1, <1>2 DEF TimerInv, TimerTypes, P!DeadlineHasThread, CurrentSleeps, AwakeIsCurrent, Awake
<1>4. PlaneTypes /\ AllIsWell
  BY <1>1, <1>2 DEF PlaneTypes, AllIsWell, P!Idle
<1>5. QueueInv
  BY <1>1 DEF QueueInv, Stores, Places, QueueIsPlaces, Queued, ClaimIsRuns, P!Idle
<1>6. QueueIsCovered
  BY <1>1 DEF QueueIsCovered, Queued
<1>7. QED
  BY <1>3, <1>4, <1>5, <1>6 DEF PlaneInv

\* Every step keeps the invariant.
LEMMA PlaneInvStep ==
    ASSUME CallsWork, PlaneInv, P!Next
    PROVE  PlaneInv'
<1>1. ASSUME NEW c \in Chains, P!HandlerStep(c)
      PROVE  PlaneInv'
  BY <1>1, ChainReadStep, ChainDecideStep, ChainWakeStep DEF P!HandlerStep
<1>2. ASSUME P!SafetyTick \/ P!SafetyWake \/ P!StartupStep
      PROVE  PlaneInv'
  BY <1>2, SafetyTickStep, OtherWakeStep, StartupReadStep, StartupDecideStep DEF P!StartupStep
<1>3. ASSUME NEW k \in Threads, P!TimerThreadStep(k)
      PROVE  PlaneInv'
  BY <1>3, TimerReadsStep, TimerWakesStep, TimerMovesStep DEF P!TimerThreadStep
<1>4. ASSUME P!RunEnds
      PROVE  PlaneInv'
  BY <1>4, RunEndsStep DEF P!RunEnds
<1>5. QED
  BY <1>1, <1>2, <1>3, <1>4, WebhookStep, RestartStep, StartRunStep, RunClaimStep, SecondStep, NothingElse
     DEF P!Next

\* And so does a step in which nothing changes.
LEMMA PlaneInvStutter ==
    ASSUME PlaneInv, UNCHANGED P!planeVars
    PROVE  PlaneInv'
<1>1. UNCHANGED <<deadline, current, timers, missed, store, overdue, chains, ticker, starter, wakes, run,
                  health, reboots>>
  BY DEF P!planeVars, P!timerVars
<1>2. TimerInv' /\ QueueInv'
  BY <1>1, TimerStays, QueueStays DEF PlaneInv, P!timerVars
<1>3. PlaneTypes' /\ AllIsWell'
  BY <1>1 DEF PlaneInv, PlaneTypes, AllIsWell
<1>4. (Reading => Reading') /\ (Coming => Coming')
  BY <1>1 DEF Reading, Coming
<1>5. \A t \in Nat : (Deciding(t) => Deciding(t)') /\ (Sleeping(t) => Sleeping(t)')
  BY <1>1 DEF Deciding, Sleeping
<1>6. QueueIsCovered'
  BY <1>1, <1>4, <1>5, Keeps DEF PlaneInv, QueueInv
<1>7. QED
  BY <1>2, <1>3, <1>6 DEF PlaneInv

\* When all is quiet, somebody sleeps no longer than any scope has to wait.
LEMMA InvGivesSoundTimer ==
    ASSUME CallsWork, PlaneInv
    PROVE  P!TimerIsSound
<1>1. SUFFICES ASSUME P!Quiet, ~missed, deadline # NoDeadline, timers[current].pc = "sleep",
                      NEW s \in P!Scopes, store.place[s] = "queued"
               PROVE  deadline <= store.due[s]
  BY DEF P!TimerIsSound, P!SleepCoversQueue, PlaneInv, TimerInv
<1>2. Covered(s)
  BY <1>1 DEF PlaneInv, QueueIsCovered, Queued
<1>3. \A k \in Threads : timers[k].pc \notin Awake \union {"again"}
  <2>1. timers[current].pc \notin Awake
    BY <1>1 DEF Awake
  <2>2. QED
    BY <1>1, <2>1 DEF P!Quiet, PlaneInv, TimerInv, AwakeIsCurrent
<1>4. /\ \A c \in Chains : chains[c].pc = "off"
      /\ starter.pc = "off" /\ ticker = "idle" /\ wakes = 0 /\ run.pc = "idle"
  BY <1>1, HandlerIs DEF P!Quiet, P!Gone, P!Idle
<1>5. ~Reading /\ ~Coming
  BY <1>3, <1>4 DEF Reading, Coming, Awake
<1>6. \A t \in Nat : ~Deciding(t)
  BY <1>3, <1>4 DEF Deciding, Awake
<1>7. PICK t \in Nat : t <= store.due[s] /\ Sleeping(t)
  BY <1>2, <1>4, <1>5, <1>6 DEF Covered, Slept
<1>8. QED
  BY <1>7 DEF Sleeping

\* Of every plane whose calls work, with restarts, failing runs and the safety tick: a
\* deadline that is set has a thread that will clear it, and when nothing else is under
\* way that thread sleeps no longer than the earliest queued scope has to wait, unless a
\* hint was coalesced into a thread that slept no more or could not read the queue.
THEOREM TimerCoversQueue ==
    ASSUME CallsWork
    PROVE  PlaneSpec => []TimerIsSound
<1>1. P!Init => PlaneInv
  BY PlaneInvInit
<1>2. PlaneInv /\ [P!Next]_P!planeVars => PlaneInv'
  BY PlaneInvStep, PlaneInvStutter
<1>3. PlaneInv => P!TimerIsSound
  BY InvGivesSoundTimer
<1>4. QED
  BY <1>1, <1>2, <1>3, PTL DEF PlaneSpec, P!Spec, TimerIsSound

-----------------------------------------------------------------------------
(* The deadline and its thread, also while calls fail and waits run out       *)

\* The current thread lasts as long as the deadline, whatever the times are.
ThreadInv ==
    /\ current \in Threads /\ DOMAIN timers = Threads
    /\ \A k \in Threads : timers[k] = P!Timer(timers[k].pc, timers[k].left)
    /\ P!DeadlineHasThread /\ CurrentSleeps

\* A thread that a hint starts.
LEMMA ThreadInvStarts ==
    ASSUME ThreadInv, NEW ts, NEW d, DOMAIN ts = Threads, P!StartTimer(d, ts),
           \A k \in Threads : ts[k] = P!Timer(ts[k].pc, ts[k].left)
    PROVE  ThreadInv'
<1>1. PICK k \in Threads : /\ timers' = [ts EXCEPT ![k] = P!Timer("sleep", d)]
                         /\ current' = k /\ deadline' = d
  BY DEF P!StartTimer
<1>2. /\ DOMAIN timers' = Threads /\ timers'[k] = P!Timer("sleep", d)
      /\ \A j \in Threads : j # k => timers'[j] = ts[j]
  BY <1>1
<1>3. P!Timer("sleep", d).pc = "sleep" /\ P!Timer("sleep", d).left = d
  BY DEF P!Timer
<1>4. QED
  BY <1>1, <1>2, <1>3 DEF ThreadInv, P!DeadlineHasThread, CurrentSleeps, P!Busy

\* A hint, coalesced or not.
LEMMA ThreadInvSchedule ==
    ASSUME ThreadInv, NEW d, P!Schedule(d)
    PROVE  ThreadInv'
<1>1. CASE P!Coalesce(d) /\ UNCHANGED timers
  BY <1>1 DEF P!Coalesce, ThreadInv, P!DeadlineHasThread, CurrentSleeps
<1>2. CASE P!StartTimer(d, timers)
  BY <1>2, ThreadInvStarts DEF ThreadInv
<1>3. QED
  BY <1>1, <1>2 DEF P!Schedule

\* A thread goes on to the row h, and the current one ends only when the deadline is cleared.
LEMMA ThreadInvGoesOn ==
    ASSUME ThreadInv, NEW k \in Threads, NEW pc, NEW left, pc # "sleep",
           timers' = [timers EXCEPT ![k] = P!Timer(pc, left)], UNCHANGED current,
           deadline' = deadline \/ (k = current /\ deadline' = NoDeadline),
           k = current /\ deadline' # NoDeadline => pc \in P!Busy
    PROVE  ThreadInv'
<1>1. P!Timer(pc, left).pc = pc /\ P!Timer(pc, left).left = left
  BY DEF P!Timer
<1>2. /\ DOMAIN timers' = Threads /\ timers'[k] = P!Timer(pc, left)
      /\ \A j \in Threads : j # k => timers'[j] = timers[j]
  BY DEF ThreadInv
<1>3. QED
  BY <1>1, <1>2 DEF ThreadInv, P!DeadlineHasThread, CurrentSleeps

\* The steps of the timer threads.
LEMMA ThreadInvThreads ==
    ASSUME ThreadInv, NEW k \in Threads, P!TimerThreadStep(k)
    PROVE  ThreadInv'
<1>1. ASSUME NEW pc, timers[k] = P!Timer(timers[k].pc, timers[k].left)
      PROVE  [timers EXCEPT ![k].pc = pc] = [timers EXCEPT ![k] = P!Timer(pc, timers[k].left)]
  <2>1. [timers[k] EXCEPT !.pc = pc] = P!Timer(pc, timers[k].left)
    BY <1>1 DEF P!Timer
  <2>2. QED
    BY <2>1
<1>2. ASSUME P!TimerReads(k)
      PROVE  ThreadInv'
  <2>1. /\ UNCHANGED <<deadline, current>>
        /\ \E pc \in {"clear", "decide"} : \E left : timers' = [timers EXCEPT ![k] = P!Timer(pc, left)]
    <3>1. PICK e : P!TimerRead(k, e)
      BY <1>2 DEF P!TimerReads
    <3>2. QED
      BY <3>1 DEF P!TimerRead
  <2>2. QED
    BY <2>1, ThreadInvGoesOn DEF P!Busy
<1>3. ASSUME P!TimerCheck(k)
      PROVE  ThreadInv'
  <2> DEFINE on == k = current /\ deadline = timers[k].left
  <2>1. /\ timers[k].pc = "sleep" /\ UNCHANGED <<deadline, current>>
        /\ timers' = [timers EXCEPT ![k] = P!Timer(IF on THEN "read" ELSE "off", 0)]
    BY <1>3 DEF P!TimerCheck, P!Step, P!StillCurrent, P!Off
  <2>2. k = current => on
    BY <2>1 DEF ThreadInv, CurrentSleeps
  <2>3. CASE on
    BY <2>1, <2>3, ThreadInvGoesOn DEF P!Busy
  <2>4. CASE ~on
    BY <2>1, <2>2, <2>4, ThreadInvGoesOn
  <2>5. QED
    BY <2>3, <2>4
<1>4. ASSUME P!TimerWakes(k) \/ P!TimerReadFails(k)
      PROVE  ThreadInv'
  BY <1>4, ThreadInvGoesOn DEF P!TimerWakes, P!TimerWake, P!TimerReadFails, P!Step, P!Busy
<1>5. ASSUME P!TimerDecide(k)
      PROVE  ThreadInv'
  <2>1. PICK pc \in {"move", "wake"} : timers' = [timers EXCEPT ![k].pc = pc]
    BY <1>5 DEF P!TimerDecide
  <2>2. timers' = [timers EXCEPT ![k] = P!Timer(pc, timers[k].left)]
    BY <1>1, <2>1 DEF ThreadInv
  <2>3. UNCHANGED <<deadline, current>> /\ pc \in P!Busy /\ pc # "sleep"
    BY <1>5 DEF P!TimerDecide, P!Busy
  <2>4. QED
    BY <2>2, <2>3, ThreadInvGoesOn
<1>6. ASSUME P!TimerClear(k)
      PROVE  ThreadInv'
  BY <1>6, ThreadInvGoesOn DEF P!TimerClear, P!Cleared, P!Step, P!Off
<1>7. ASSUME P!TimerMove(k)
      PROVE  ThreadInv'
  <2>1. timers' = [timers EXCEPT ![k] = P!Timer("again", timers[k].left)]
    BY <1>1, <1>7 DEF ThreadInv, P!TimerMove
  <2>2. UNCHANGED current /\ deadline' = IF k = current THEN NoDeadline ELSE deadline
    BY <1>7 DEF P!TimerMove, P!Cleared
  <2>3. QED
    BY <2>1, <2>2, ThreadInvGoesOn
<1>8. ASSUME P!TimerAgain(k)
      PROVE  ThreadInv'
  <2> DEFINE d == timers[k].left
             ts == [timers EXCEPT ![k] = P!Off]
  <2>1. CASE P!Coalesce(d) /\ P!Step(k, "again", "off")
    <3>1. k = current => deadline = NoDeadline
      BY <1>8 DEF P!TimerAgain, ThreadInv, P!DeadlineHasThread, P!Busy
    <3>2. QED
      BY <2>1, <3>1, ThreadInvGoesOn DEF P!Coalesce, P!Step, P!Off
  <2>2. CASE P!StartTimer(d, ts)
    <3>1. DOMAIN ts = Threads /\ \A j \in Threads : ts[j] = P!Timer(ts[j].pc, ts[j].left)
      BY DEF ThreadInv, P!Off, P!Timer
    <3> HIDE DEF ts, d
    <3>2. QED
      BY <2>2, <3>1, ThreadInvStarts
  <2>3. QED
    BY <1>8, <2>1, <2>2 DEF P!TimerAgain
<1>9. QED
  BY <1>2, <1>3, <1>4, <1>5, <1>6, <1>7, <1>8 DEF P!TimerThreadStep, P!TimerMoves

\* The clock: the deadline and its thread's sleep stay equal.
LEMMA ThreadInvSecond ==
    ASSUME ThreadInv, P!TimerTick
    PROVE  ThreadInv'
<1>1. /\ deadline' = P!Sooner(deadline) /\ UNCHANGED current /\ DOMAIN timers' = Threads
      /\ \A k \in Threads : timers'[k] = P!Timer(timers[k].pc, P!Sooner(timers[k].left))
  BY DEF P!TimerTick
<1>2. \A k \in Threads : timers'[k].pc = timers[k].pc /\ timers'[k].left = P!Sooner(timers[k].left)
  BY <1>1 DEF P!Timer
<1>3. deadline = NoDeadline => deadline' = NoDeadline
  BY <1>1 DEF P!Sooner
<1>4. QED
  BY <1>1, <1>2, <1>3 DEF ThreadInv, P!DeadlineHasThread, CurrentSleeps

\* Every step.
LEMMA ThreadInvStep ==
    ASSUME ThreadInv, P!Next \/ UNCHANGED P!planeVars
    PROVE  ThreadInv'
<1>1. CASE UNCHANGED P!timerVars
  BY <1>1 DEF P!timerVars, ThreadInv, P!DeadlineHasThread, CurrentSleeps
<1>2. ASSUME NEW c \in Chains, P!ChainDecide(c)
      PROVE  ThreadInv'
  BY <1>1, <1>2, ThreadInvSchedule DEF P!ChainDecide
<1>3. ASSUME P!StartupDecide
      PROVE  ThreadInv'
  BY <1>1, <1>3, ThreadInvSchedule DEF P!StartupDecide
<1>4. ASSUME P!Restart
      PROVE  ThreadInv'
  BY <1>4 DEF P!Restart, ThreadInv, P!DeadlineHasThread, CurrentSleeps, P!Off, P!Timer
<1>5. ASSUME P!Second
      PROVE  ThreadInv'
  BY <1>5, ThreadInvSecond DEF P!Second
<1>6. CASE \/ \E c \in Chains, e \in Events : P!Webhook(c, e)
           \/ \E c \in Chains : P!ChainRead(c) \/ P!ChainWake(c)
           \/ P!SafetyTick \/ P!SafetyWake \/ P!StartupRead \/ P!StartupWake
           \/ P!StartRun \/ P!RunClaim \/ P!RunEnds \/ P!RunDies
           \/ \E s \in P!Scopes : P!WaitRunsOut(s) \/ P!LeaseRunsOut(s)
           \/ P!Repair \/ UNCHANGED P!planeVars
  BY <1>1, <1>6 DEF P!Webhook, P!ChainRead, P!ChainWake, P!SafetyTick, P!SafetyWake, P!StartupRead,
     P!StartupWake, P!StartRun, P!RunClaim, P!RunEnds, P!RunAcks, P!RunRequeues, P!RunDies,
     P!WaitRunsOut, P!LeaseRunsOut, P!Repair, P!routerVars, P!planeVars
<1>7. QED
  BY <1>2, <1>3, <1>4, <1>5, <1>6, ThreadInvThreads DEF P!Next, P!HandlerStep, P!StartupStep

\* Of every plane, outages, dead runs, failed reads and restarts included: the timer never
\* wedges, because a deadline that is set belongs to a thread that will clear it.
THEOREM TimerNeverWedges == PlaneSpec => []P!DeadlineHasThread
<1>1. P!Init => ThreadInv
  BY DEF P!Init, P!TimerInit, ThreadInv, P!DeadlineHasThread, CurrentSleeps, P!Off, P!Timer
<1>2. ThreadInv /\ [P!Next]_P!planeVars => ThreadInv'
  BY ThreadInvStep
<1>3. ThreadInv => P!DeadlineHasThread
  BY DEF ThreadInv
<1>4. QED
  BY <1>1, <1>2, <1>3, PTL DEF PlaneSpec, P!Spec, TimerIsSound

-----------------------------------------------------------------------------
(* The plane keeps the ledger of its events                                  *)

\* A history of the plane, which no step reads: how often each scope was granted to a run.
VARIABLE grants

\* A scope is granted when it becomes claimed, and when it is claimed anew after its recovery.
Taken(s) ==
    store'.place[s] = "claimed" /\ (store.place[s] # "claimed" \/ store'.tries[s] # store.tries[s])
Count == grants' = [s \in P!Scopes |-> grants[s] + (IF Taken(s) THEN 1 ELSE 0)]
CountsGrants == grants = [s \in P!Scopes |-> 0] /\ [][Count]_<<store, grants>>

PhaseOf == [absent |-> "absent", queued |-> "waiting", claimed |-> "held", parked |-> "parked", done |-> "done"]
EntryOf(st, e, n) == [phase |-> PhaseOf[st.place[e]], tries |-> st.tries[e], grants |-> n]
LedgerOf == [e \in Events |-> EntryOf(store, e, grants[e])]

L == INSTANCE ScopeLedger WITH ScopeIds <- Events, ledger <- LedgerOf

\* A store whose line holds queued scopes, each once.
Sound(st) ==
    /\ st \in Stores
    /\ \A n \in 1..Len(st.queue) : st.place[st.queue[n]] = "queued"
    /\ \A m, n \in 1..Len(st.queue) : st.queue[m] = st.queue[n] => m = n

\* What is overdue waits or is claimed, and the run that works holds a claim that has not run out.
LedgerInv ==
    /\ Sound(store)
    /\ IsFiniteSet(overdue) /\ overdue \subseteq P!Scopes
    /\ \A s \in overdue : store.place[s] \in {"queued", "claimed"}
    /\ run.pc = "work" =>
          run.scope \in P!Scopes \ overdue /\ store.place[run.scope] = "claimed"
    /\ grants \in [P!Scopes -> Nat]

\* The scopes in a line are finitely many.
LEMMA LineIsFinite ==
    ASSUME NEW S, NEW q \in Seq(S)
    PROVE  P!ToSet(q) \subseteq S /\ IsFiniteSet(P!ToSet(q))
<1>1. q \in [1..Len(q) -> S] /\ Len(q) \in Nat /\ DOMAIN q = 1..Len(q)
  OBVIOUS
<1>2. P!ToSet(q) = {q[n] : n \in 1..Len(q)}
  BY <1>1 DEF P!ToSet
<1>3. q \in Surjection(1..Len(q), P!ToSet(q))
  BY <1>1, <1>2 DEF Surjection
<1>4. IsFiniteSet(1..Len(q))
  BY <1>1, FS_Interval
<1>5. IsFiniteSet(P!ToSet(q))
  BY <1>3, <1>4, FS_Surjection
<1>6. QED
  BY <1>1, <1>2, <1>5

\* The orders of a finite set, where the instance of the plane has them from.
LEMMA OrdersAre ==
    ASSUME NEW S, IsFiniteSet(S), NEW q \in P!SetToSeqs(S)
    PROVE  /\ q \in Seq(S) /\ \A n \in 1..Len(q) : q[n] \in S
           /\ \A m, n \in 1..Len(q) : q[m] = q[n] => m = n
<1>1. P!Cardinality(S) = Cardinality(S)
  BY DEF P!Cardinality, Cardinality
<1>2. Cardinality(S) \in Nat
  BY FS_CardinalityType
<1>3. q \in [1..Cardinality(S) -> S] /\ \A m, n \in 1..Cardinality(S) : m # n => q[m] # q[n]
  BY <1>1 DEF P!SetToSeqs
<1>4. QED
  BY <1>2, <1>3

\* What recovery makes of a sound store: it is sound, and what was overdue has failed once more.
LEMMA RecoveredIs ==
    ASSUME LedgerInv, NEW st \in P!Recovered
    PROVE  /\ Sound(st)
           /\ \A s \in P!Scopes \ overdue : st.place[s] = store.place[s] /\ st.tries[s] = store.tries[s]
           /\ \A s \in overdue :
                /\ st.place[s] = IF store.tries[s] + 1 >= MaxAttempts THEN "parked" ELSE "queued"
                /\ st.tries[s] = store.tries[s] + 1
<1>1. CASE overdue = {}
  BY <1>1 DEF LedgerInv, P!Recovered
<1>2. CASE overdue # {}
  <2> DEFINE spent == {s \in overdue : P!Spent(store, s)}
             back == {s \in overdue \ spent : store.place[s] = "claimed"}
             all == (P!ToSet(store.queue) \ spent) \union back
  <2>1. PICK line \in P!Rejoined(store.queue, spent, back) :
            st = [queue |-> line,
                  place |-> [s \in P!Scopes |-> IF s \in spent THEN "parked"
                                  ELSE IF s \in overdue THEN "queued" ELSE store.place[s]],
                  due   |-> [s \in P!Scopes |-> IF s \in overdue THEN 0 ELSE store.due[s]],
                  tries |-> [s \in P!Scopes |-> store.tries[s] + IF s \in overdue THEN 1 ELSE 0]]
    BY <1>2 DEF P!Recovered
  <2>2. P!ToSet(store.queue) \subseteq P!Scopes /\ IsFiniteSet(P!ToSet(store.queue))
    BY LineIsFinite DEF LedgerInv, Sound, Stores
  <2>3. IsFiniteSet(all) /\ all \subseteq P!Scopes
    <3>1. IsFiniteSet(P!ToSet(store.queue) \ spent) /\ IsFiniteSet(back)
      BY <2>2, FS_Subset DEF LedgerInv
    <3>2. QED
      BY <2>2, <3>1, FS_Union DEF LedgerInv
  <2>4. /\ line \in Seq(all) /\ \A n \in 1..Len(line) : line[n] \in all
        /\ \A m, n \in 1..Len(line) : line[m] = line[n] => m = n
    <3>1. line \in P!SetToSeqs(all)
      BY <2>1 DEF P!Rejoined
    <3>2. QED
      BY <2>3, <3>1, OrdersAre
  <2>5. \A s \in all : st.place[s] = "queued"
    <3>1. \A s \in P!ToSet(store.queue) : store.place[s] = "queued"
      <4>1. store.queue \in Seq(P!Scopes) /\ DOMAIN store.queue = 1..Len(store.queue)
        BY DEF LedgerInv, Sound, Stores
      <4>2. QED
        BY <4>1 DEF P!ToSet, LedgerInv, Sound
    <3>2. QED
      BY <2>1, <2>2, <3>1 DEF LedgerInv
  <2> HIDE DEF all
  <2>6. line \in Seq(P!Scopes)
    BY <2>3, <2>4
  <2>7. /\ st.place \in [P!Scopes -> Places] /\ st.tries \in [P!Scopes -> Nat]
        /\ st.due \in [P!Scopes -> Nat]
    BY <2>1 DEF LedgerInv, Sound, Stores, Places
  <2>8. Sound(st)
    BY <2>1, <2>4, <2>5, <2>6, <2>7 DEF Sound, Stores
  <2>9. \A s \in P!Scopes \ overdue : st.place[s] = store.place[s] /\ st.tries[s] = store.tries[s]
    <3>1. \A s \in P!Scopes : store.tries[s] \in Nat
      BY DEF LedgerInv, Sound, Stores
    <3>2. QED
      BY <2>1, <3>1
  <2>10. \A s \in overdue :
                /\ st.place[s] = IF store.tries[s] + 1 >= MaxAttempts THEN "parked" ELSE "queued"
                /\ st.tries[s] = store.tries[s] + 1
    BY <2>1 DEF LedgerInv, P!Spent
  <2>11. QED
    BY <2>8, <2>9, <2>10
<1>3. QED
  BY <1>1, <1>2

\* What an operation may make of a scope after recovery.
Stays(st, s) == store'.place[s] = st.place[s] /\ store'.tries[s] = st.tries[s]
Goes(st, s) ==
    \/ Stays(st, s)
    \/ st.place[s] = "absent" /\ store'.place[s] = "queued" /\ store'.tries[s] = 0
    \/ st.place[s] = "queued" /\ store'.place[s] = "claimed" /\ store'.tries[s] = st.tries[s]
    \/ /\ st.place[s] = "claimed" /\ store'.tries[s] = 0
       /\ store'.place[s] = "done"
    \/ /\ st.place[s] = "claimed" /\ store'.tries[s] = st.tries[s] + 1
       /\ store'.place[s] = IF st.tries[s] + 1 >= MaxAttempts THEN "parked" ELSE "queued"

\* The step of one scope: it is settled by the recovery, and then moved by the operation.
LEMMA EntryMoves ==
    ASSUME LedgerInv, MaxAttempts \in Nat, NEW st \in P!Recovered, NEW s \in P!Scopes, NEW n \in Nat, Goes(st, s),
           NEW m, m = n + (IF Taken(s) THEN 1 ELSE 0)
    PROVE  \E e \in L!Settled(EntryOf(store, s, n)) :
              /\ EntryOf(store, s, m)' \in {e} \union L!Enqueued(e) \union L!Granted(e)
                                            \union L!Retired(e) \union L!Returned(e)
              /\ Stays(st, s) => EntryOf(store, s, m)' = e
<1> DEFINE e == EntryOf(st, s, n)
           f == [phase |-> PhaseOf[store'.place[s]], tries |-> store'.tries[s], grants |-> m]
<1>1. /\ store.place[s] \in Places /\ store.tries[s] \in Nat
      /\ st.place[s] \in Places /\ st.tries[s] \in Nat
  BY RecoveredIs DEF LedgerInv, Sound, Stores
<1>2. e \in L!Settled(EntryOf(store, s, n))
  <2>1. CASE s \in overdue
    BY <1>1, <2>1, RecoveredIs DEF LedgerInv, L!Settled, L!GivenBack, L!Entry, EntryOf, PhaseOf
  <2>2. CASE s \notin overdue
    BY <2>2, RecoveredIs DEF L!Settled, EntryOf
  <2>3. QED
    BY <2>1, <2>2
<1>3. Taken(s) <=> st.place[s] = "queued" /\ store'.place[s] = "claimed"
  <2>1. CASE s \in overdue
    BY <1>1, <2>1, RecoveredIs DEF Goes, Stays, Taken
  <2>2. CASE s \notin overdue
    BY <1>1, <2>2, RecoveredIs DEF Goes, Stays, Taken
  <2>3. QED
    BY <2>1, <2>2
<1>4. f \in {e} \union L!Enqueued(e) \union L!Granted(e) \union L!Retired(e) \union L!Returned(e)
  <2>1. CASE Stays(st, s)
    BY <1>3, <2>1 DEF Stays, EntryOf
  <2>2. CASE st.place[s] = "absent" /\ store'.place[s] = "queued" /\ store'.tries[s] = 0
    BY <1>3, <2>2 DEF L!Enqueued, L!Entry, EntryOf, PhaseOf
  <2>3. CASE st.place[s] = "queued" /\ store'.place[s] = "claimed" /\ store'.tries[s] = st.tries[s]
    BY <1>3, <2>3 DEF L!Granted, L!Entry, EntryOf, PhaseOf
  <2>4. CASE st.place[s] = "claimed" /\ store'.tries[s] = 0 /\ store'.place[s] = "done"
    BY <1>3, <2>4 DEF L!Retired, L!Entry, EntryOf, PhaseOf
  <2>5. CASE /\ st.place[s] = "claimed" /\ store'.tries[s] = st.tries[s] + 1
             /\ store'.place[s] = IF st.tries[s] + 1 >= MaxAttempts THEN "parked" ELSE "queued"
    BY <1>1, <1>3, <2>5 DEF L!Returned, L!GivenBack, L!Entry, EntryOf, PhaseOf
  <2>6. QED
    BY <2>1, <2>2, <2>3, <2>4, <2>5 DEF Goes
<1>5. EntryOf(store, s, m)' = f
  BY DEF EntryOf
<1>6. Stays(st, s) => f = e
  BY <1>3 DEF Stays, EntryOf
<1>7. QED
  BY <1>2, <1>4, <1>5, <1>6

\* An operation that moves at most the scope x is a step of the ledger.
LEMMA OperationSteps ==
    ASSUME LedgerInv, Count, MaxAttempts \in Nat, NEW st \in P!Recovered, NEW x \in P!Scopes,
           \A s \in P!Scopes \ {x} : Stays(st, s),
           x \in Events => Goes(st, x)
    PROVE  L!Next \/ UNCHANGED LedgerOf
<1>1. CASE Events = {}
  BY <1>1 DEF LedgerOf
<1>2. CASE Events # {}
  <2>1. PICK id \in Events : x \in Events => id = x
    BY <1>2
  <2>2. ASSUME NEW s \in Events
        PROVE  \E e \in L!Settled(LedgerOf[s]) :
                  /\ LedgerOf'[s] \in {e} \union L!Enqueued(e) \union L!Granted(e)
                                          \union L!Retired(e) \union L!Returned(e)
                  /\ s # x => LedgerOf'[s] = e
    <3>1. s \in P!Scopes /\ Goes(st, s)
      BY DEF P!Scopes, Goes
    <3>2. PICK n, m : /\ n = grants[s] /\ n \in Nat
                      /\ m = grants'[s] /\ m = n + (IF Taken(s) THEN 1 ELSE 0)
      BY <3>1 DEF LedgerInv, Count
    <3>3. LedgerOf[s] = EntryOf(store, s, n) /\ LedgerOf'[s] = EntryOf(store, s, m)'
      BY <3>2 DEF LedgerOf, EntryOf
    <3>4. s # x => Stays(st, s)
      BY <3>1
    <3>5. \E e \in L!Settled(EntryOf(store, s, n)) :
              /\ EntryOf(store, s, m)' \in {e} \union L!Enqueued(e) \union L!Granted(e)
                                            \union L!Retired(e) \union L!Returned(e)
              /\ Stays(st, s) => EntryOf(store, s, m)' = e
      BY <3>1, <3>2, EntryMoves
    <3>6. QED
      BY <3>3, <3>4, <3>5, Zenon
  <2>3. \A other \in Events \ {id} : LedgerOf'[other] \in L!Settled(LedgerOf[other])
    BY <2>1, <2>2
  <2>4. \E e \in L!Settled(LedgerOf[id]) :
            LedgerOf'[id] \in {e} \union L!Enqueued(e) \union L!Granted(e)
                                  \union L!Retired(e) \union L!Returned(e)
    BY <2>2
  <2>5. LedgerOf' = [other \in Events |-> LedgerOf'[other]]
    BY DEF LedgerOf
  <2>6. L!Step(id)
    BY <2>3, <2>4, <2>5 DEF L!Step
  <2>7. QED
    BY <2>6 DEF L!Next
<1>3. QED
  BY <1>1, <1>2

\* No operation: no scope moves, and none is granted.
LEMMA NoOperation ==
    ASSUME LedgerInv, store'.place = store.place, store'.tries = store.tries,
           Count \/ UNCHANGED grants
    PROVE  UNCHANGED LedgerOf /\ grants' = grants
<1>1. grants' = grants
  <2>1. CASE Count
    <3>1. \A s \in P!Scopes : ~Taken(s) /\ grants[s] \in Nat
      BY DEF Taken, LedgerInv
    <3>2. \A s \in P!Scopes : grants'[s] = grants[s]
      BY <2>1, <3>1 DEF Count
    <3>3. QED
      BY <2>1, <3>2 DEF Count, LedgerInv
  <2>2. QED
    BY <2>1
<1>2. QED
  BY <1>1 DEF LedgerOf, EntryOf

\* The store after an accepted event.
LEMMA PutIs ==
    ASSUME NEW st, Sound(st), NEW x \in P!Scopes, st.place[x] = "absent"
    PROVE  /\ Sound(P!Put(st, x)) /\ P!Put(st, x).place[x] = "queued" /\ P!Put(st, x).tries[x] = 0
           /\ \A s \in P!Scopes \ {x} :
                 P!Put(st, x).place[s] = st.place[s] /\ P!Put(st, x).tries[s] = st.tries[s]
<1> DEFINE q == Append(st.queue, x)
<1>1. /\ st.queue \in Seq(P!Scopes) /\ Len(st.queue) \in Nat
      /\ q \in Seq(P!Scopes) /\ Len(q) = Len(st.queue) + 1 /\ q[Len(st.queue) + 1] = x
      /\ \A n \in 1..Len(st.queue) : q[n] = st.queue[n]
  BY DEF Sound, Stores
<1>2. \A n \in 1..Len(st.queue) :
         st.queue[n] \in P!Scopes /\ st.queue[n] # x /\ st.place[st.queue[n]] = "queued"
  BY <1>1, ElementOfSeq DEF Sound
<1>3. \A n \in 1..Len(q) : n \in 1..Len(st.queue) \/ n = Len(st.queue) + 1
  BY <1>1
<1> DEFINE r == P!Put(st, x)
<1> HIDE DEF q
<1>4. /\ r \in Stores /\ r.queue = q
      /\ r.place = [st.place EXCEPT ![x] = "queued"] /\ r.tries = [st.tries EXCEPT ![x] = 0]
  BY <1>1 DEF P!Put, Sound, Stores, Places, q
<1> HIDE DEF r
<1>5. /\ r.place \in [P!Scopes -> Places] /\ r.tries \in [P!Scopes -> Nat]
      /\ r.place[x] = "queued" /\ r.tries[x] = 0
      /\ \A s \in P!Scopes \ {x} : r.place[s] = st.place[s] /\ r.tries[s] = st.tries[s]
  BY <1>4 DEF Sound, Stores, Places
<1>6. ASSUME NEW n \in 1..Len(q)
      PROVE  r.place[q[n]] = "queued"
  <2>1. CASE n \in 1..Len(st.queue)
    <3>1. PICK s : s = q[n]
      OBVIOUS
    <3>2. s \in P!Scopes \ {x} /\ st.place[s] = "queued"
      BY <1>1, <1>2, <2>1, <3>1
    <3>3. QED
      BY <1>5, <3>1, <3>2
  <2>2. CASE n = Len(st.queue) + 1
    BY <1>1, <1>5, <2>2
  <2>3. QED
    BY <1>3, <2>1, <2>2
<1>7. \A m, n \in 1..Len(q) : q[m] = q[n] => m = n
  BY <1>1, <1>2, <1>3 DEF Sound
<1>8. Sound(r)
  BY <1>1, <1>4, <1>5, <1>6, <1>7 DEF Sound
<1>9. QED
  BY <1>5, <1>8 DEF r

\* The store after an acknowledgement.
LEMMA FinishIs ==
    ASSUME NEW st, Sound(st), NEW x \in P!Scopes, st.place[x] = "claimed"
    PROVE  /\ Sound(P!Finish(st, x)) /\ P!Finish(st, x).tries[x] = 0
           /\ x # Safety => P!Finish(st, x).place[x] = "done"
           /\ \A s \in P!Scopes \ {x} :
                 P!Finish(st, x).place[s] = st.place[s] /\ P!Finish(st, x).tries[s] = st.tries[s]
<1> DEFINE r == P!Finish(st, x)
<1>1. /\ r \in Stores /\ r.queue = st.queue
      /\ r.place = [st.place EXCEPT ![x] = IF x = Safety THEN "absent" ELSE "done"]
      /\ r.tries = [st.tries EXCEPT ![x] = 0]
  BY DEF P!Finish, Sound, Stores, Places
<1> HIDE DEF r
<1>2. \A n \in 1..Len(st.queue) :
         st.queue[n] \in P!Scopes /\ st.queue[n] # x /\ st.place[st.queue[n]] = "queued"
  BY ElementOfSeq DEF Sound, Stores
<1>3. /\ r.place \in [P!Scopes -> Places] /\ r.tries \in [P!Scopes -> Nat]
      /\ (x # Safety => r.place[x] = "done") /\ r.tries[x] = 0
      /\ \A s \in P!Scopes \ {x} : r.place[s] = st.place[s] /\ r.tries[s] = st.tries[s]
  BY <1>1 DEF Sound, Stores, Places
<1>4. Sound(r)
  BY <1>1, <1>2, <1>3 DEF Sound
<1>5. QED
  BY <1>3, <1>4 DEF r

\* The store after a requeue.
LEMMA GiveBackIs ==
    ASSUME NEW st, Sound(st), NEW x \in P!Scopes, st.place[x] = "claimed", NEW d \in Nat
    PROVE  /\ Sound(P!GiveBack(st, x, d)) /\ P!GiveBack(st, x, d).tries[x] = st.tries[x] + 1
           /\ P!GiveBack(st, x, d).place[x]
                 = IF st.tries[x] + 1 >= MaxAttempts THEN "parked" ELSE "queued"
           /\ \A s \in P!Scopes \ {x} : /\ P!GiveBack(st, x, d).place[s] = st.place[s]
                                       /\ P!GiveBack(st, x, d).tries[s] = st.tries[s]
<1> DEFINE q == Append(st.queue, x)
           r == P!GiveBack(st, x, d)
<1>1. /\ st.queue \in Seq(P!Scopes) /\ Len(st.queue) \in Nat
      /\ q \in Seq(P!Scopes) /\ Len(q) = Len(st.queue) + 1 /\ q[Len(st.queue) + 1] = x
      /\ \A n \in 1..Len(st.queue) : q[n] = st.queue[n]
  BY DEF Sound, Stores
<1>2. \A n \in 1..Len(st.queue) :
         st.queue[n] \in P!Scopes /\ st.queue[n] # x /\ st.place[st.queue[n]] = "queued"
  BY <1>1, ElementOfSeq DEF Sound
<1>3. \A n \in 1..Len(q) : n \in 1..Len(st.queue) \/ n = Len(st.queue) + 1
  BY <1>1
<1>4. /\ r \in Stores
      /\ r.queue = IF P!Spent(st, x) THEN st.queue ELSE q
      /\ r.place = [st.place EXCEPT ![x] = IF P!Spent(st, x) THEN "parked" ELSE "queued"]
      /\ r.tries = [st.tries EXCEPT ![x] = @ + 1]
  BY <1>1 DEF P!GiveBack, Sound, Stores, Places
<1> HIDE DEF q, r
<1>5. /\ r.place \in [P!Scopes -> Places] /\ r.tries \in [P!Scopes -> Nat]
      /\ r.place[x] = (IF P!Spent(st, x) THEN "parked" ELSE "queued") /\ r.tries[x] = st.tries[x] + 1
      /\ \A s \in P!Scopes \ {x} : r.place[s] = st.place[s] /\ r.tries[s] = st.tries[s]
  BY <1>4 DEF Sound, Stores, Places
<1>6. CASE P!Spent(st, x)
  <2>1. Sound(r)
    BY <1>1, <1>2, <1>4, <1>5, <1>6 DEF Sound
  <2>2. QED
    BY <1>5, <1>6, <2>1 DEF r, P!Spent
<1>7. CASE ~P!Spent(st, x)
  <2>1. ASSUME NEW n \in 1..Len(q)
        PROVE  r.place[q[n]] = "queued"
    <3>1. CASE n \in 1..Len(st.queue)
      <4>1. PICK s : s = q[n]
        OBVIOUS
      <4>2. s \in P!Scopes \ {x} /\ st.place[s] = "queued"
        BY <1>1, <1>2, <3>1, <4>1
      <4>3. QED
        BY <1>5, <4>1, <4>2
    <3>2. CASE n = Len(st.queue) + 1
      BY <1>1, <1>5, <1>7, <3>2
    <3>3. QED
      BY <1>3, <3>1, <3>2
  <2>2. \A m, n \in 1..Len(q) : q[m] = q[n] => m = n
    BY <1>1, <1>2, <1>3 DEF Sound
  <2>3. Sound(r)
    BY <1>1, <1>4, <1>5, <1>7, <2>1, <2>2 DEF Sound
  <2>4. QED
    BY <1>5, <1>7, <2>3 DEF r, P!Spent
<1>8. QED
  BY <1>6, <1>7

\* The store after a claim.
LEMMA TakeIs ==
    ASSUME NEW st, Sound(st), NEW n \in 1..Len(st.queue), NEW x, x = st.queue[n]
    PROVE  /\ x \in P!Scopes /\ st.place[x] = "queued"
           /\ Sound(P!Take(st, n)) /\ P!Take(st, n).place[x] = "claimed"
           /\ P!Take(st, n).tries = st.tries
           /\ \A s \in P!Scopes \ {x} : P!Take(st, n).place[s] = st.place[s]
<1> DEFINE q == RemoveAt(st.queue, n)
           r == P!Take(st, n)
<1>1. /\ st.queue \in Seq(P!Scopes) /\ Len(st.queue) \in Nat
      /\ q \in Seq(P!Scopes) /\ Len(q) = Len(st.queue) - 1
      /\ \A m \in 1..(Len(st.queue) - 1) : q[m] = IF m < n THEN st.queue[m] ELSE st.queue[m + 1]
  <2>1. st.queue \in Seq(P!Scopes)
    BY DEF Sound, Stores
  <2>2. QED
    BY <2>1, RemoveAtProperties, LenProperties, Zenon
<1>2. \A m \in 1..Len(st.queue) :
         st.queue[m] \in P!Scopes /\ (m # n => st.queue[m] # x) /\ st.place[st.queue[m]] = "queued"
  BY <1>1, ElementOfSeq DEF Sound
<1>3. x \in P!Scopes /\ st.place[x] = "queued"
  BY <1>2 DEF Sound
<1>4. /\ r \in Stores /\ r.queue = q
      /\ r.place = [st.place EXCEPT ![x] = "claimed"] /\ r.tries = st.tries
  BY <1>1, <1>3 DEF P!Take, P!RemoveAt, RemoveAt, Sound, Stores, Places
<1> HIDE DEF q, r
<1>5. /\ r.place \in [P!Scopes -> Places] /\ r.place[x] = "claimed"
      /\ \A s \in P!Scopes \ {x} : r.place[s] = st.place[s]
  BY <1>3, <1>4 DEF Sound, Stores, Places
<1>6. ASSUME NEW m \in 1..Len(q)
      PROVE  \E k \in 1..Len(st.queue) : k # n /\ q[m] = st.queue[k] /\ k = IF m < n THEN m ELSE m + 1
  BY <1>1
<1>7. \A m \in 1..Len(q) : r.place[q[m]] = "queued"
  BY <1>2, <1>5, <1>6
<1>8. ASSUME NEW m \in 1..Len(q), NEW k \in 1..Len(q), q[m] = q[k]
      PROVE  m = k
  <2>1. PICK i \in 1..Len(st.queue) : q[m] = st.queue[i] /\ i = IF m < n THEN m ELSE m + 1
    BY <1>6
  <2>2. PICK j \in 1..Len(st.queue) : q[k] = st.queue[j] /\ j = IF k < n THEN k ELSE k + 1
    BY <1>6
  <2>3. i = j
    BY <1>8, <2>1, <2>2 DEF Sound
  <2>4. QED
    BY <1>1, <2>1, <2>2, <2>3
<1>9. Sound(r)
  BY <1>1, <1>4, <1>5, <1>7, <1>8 DEF Sound
<1>10. QED
  BY <1>3, <1>4, <1>5, <1>9 DEF r

\* An operation on the store and its entry in the ledger, when the run at work afterwards, if
\* any, holds its claim.
LEMMA OperationKeeps ==
    ASSUME LedgerInv, Count \/ UNCHANGED <<store, grants>>, NEW st \in P!Recovered, NEW x \in P!Scopes,
           Sound(store'), overdue' = {},
           run'.pc = "work" => run'.scope \in P!Scopes /\ store'.place[run'.scope] = "claimed",
           \A s \in P!Scopes \ {x} : Stays(st, s),
           x \in Events => Goes(st, x)
    PROVE  LedgerInv' /\ (L!Next \/ UNCHANGED LedgerOf)
<1>1. MaxAttempts \in Nat
  BY PlaneAssumptions DEF P!PlaneAssumption
<1>2. grants' \in [P!Scopes -> Nat]
  BY DEF Count, LedgerInv
<1>3. IsFiniteSet({})
  BY FS_EmptySet
<1>4. LedgerInv'
  BY <1>2, <1>3 DEF LedgerInv
<1>5. CASE Count
  BY <1>1, <1>4, <1>5, OperationSteps
<1>6. CASE UNCHANGED <<store, grants>>
  BY <1>4, <1>6 DEF LedgerOf
<1>7. QED
  BY <1>5, <1>6

\* What recovery leaves to the run that works.
LEMMA RunsKeepTheirClaim ==
    ASSUME LedgerInv, NEW st \in P!Recovered, run.pc = "work"
    PROVE  run.scope \in P!Scopes /\ st.place[run.scope] = "claimed"
BY RecoveredIs DEF LedgerInv

\* Whoever only reads the queue settles what is overdue.
LEMMA ReadsSettle ==
    ASSUME LedgerInv, Count \/ UNCHANGED <<store, grants>>, NEW st \in P!Recovered, P!StoreOp(st),
           run'.pc = "work" => run' = run
    PROVE  LedgerInv' /\ (L!Next \/ UNCHANGED LedgerOf)
<1>1. store' = st /\ overdue' = {} /\ Sound(store')
  BY RecoveredIs DEF P!StoreOp
<1>2. run'.pc = "work" => run'.scope \in P!Scopes /\ store'.place[run'.scope] = "claimed"
  BY <1>1, RunsKeepTheirClaim
<1>3. Safety \in P!Scopes /\ Safety \notin Events
  BY PlaneAssumptions DEF P!Scopes, P!PlaneAssumption
<1>4. \A s \in P!Scopes : Stays(st, s)
  BY <1>1 DEF Stays
<1>5. QED
  BY <1>1, <1>2, <1>3, <1>4, OperationKeeps

\* An event or the safety scope is enqueued.
LEMMA PutsEnqueue ==
    ASSUME LedgerInv, Count \/ UNCHANGED <<store, grants>>, NEW st \in P!Recovered, NEW x \in P!Scopes,
           st.place[x] = "absent", P!StoreOp(P!Put(st, x)), UNCHANGED run
    PROVE  LedgerInv' /\ (L!Next \/ UNCHANGED LedgerOf)
<1>1. store' = P!Put(st, x) /\ overdue' = {} /\ Sound(st)
  BY RecoveredIs DEF P!StoreOp
<1>2. /\ Sound(store') /\ store'.place[x] = "queued" /\ store'.tries[x] = 0
      /\ \A s \in P!Scopes \ {x} : store'.place[s] = st.place[s] /\ store'.tries[s] = st.tries[s]
  BY <1>1, PutIs
<1>3. run'.pc = "work" => run'.scope \in P!Scopes /\ store'.place[run'.scope] = "claimed"
  BY <1>2, RunsKeepTheirClaim
<1>4. Goes(st, x) /\ \A s \in P!Scopes \ {x} : Stays(st, s)
  BY <1>2 DEF Goes, Stays
<1>5. QED
  BY <1>1, <1>2, <1>3, <1>4, OperationKeeps

\* A run claims the scope at n.
LEMMA TakesGrant ==
    ASSUME LedgerInv, Count \/ UNCHANGED <<store, grants>>, NEW st \in P!Recovered,
           NEW n \in 1..Len(st.queue), P!StoreOp(P!Take(st, n)),
           run' = [pc |-> "work", scope |-> st.queue[n]]
    PROVE  LedgerInv' /\ (L!Next \/ UNCHANGED LedgerOf)
<1>1. store' = P!Take(st, n) /\ overdue' = {} /\ Sound(st)
  BY RecoveredIs DEF P!StoreOp
<1>2. PICK x : x = st.queue[n]
  OBVIOUS
<1>3. /\ x \in P!Scopes /\ st.place[x] = "queued" /\ Sound(store') /\ store'.place[x] = "claimed"
      /\ store'.tries = st.tries /\ \A s \in P!Scopes \ {x} : store'.place[s] = st.place[s]
  BY <1>1, <1>2, TakeIs
<1>4. Goes(st, x) /\ \A s \in P!Scopes \ {x} : Stays(st, s)
  BY <1>3 DEF Goes, Stays
<1>5. QED
  BY <1>1, <1>2, <1>3, <1>4, OperationKeeps

\* A run ends with its scope acknowledged or given back.
LEMMA EndsRetire ==
    ASSUME LedgerInv, Count \/ UNCHANGED <<store, grants>>, NEW c, P!RunAcks(c) \/ P!RunRequeues(c)
    PROVE  LedgerInv' /\ (L!Next \/ UNCHANGED LedgerOf)
<1>1. run.pc = "work" /\ run'.pc # "work"
  BY DEF P!RunAcks, P!RunRequeues, P!Idle
<1>2. PICK x : x = run.scope
  OBVIOUS
<1>3. CASE P!RunAcks(c)
  <2>1. PICK st \in P!Recovered : P!StoreOp(P!Finish(st, x))
    BY <1>2, <1>3 DEF P!RunAcks
  <2>2. store' = P!Finish(st, x) /\ overdue' = {} /\ Sound(st) /\ x \in P!Scopes /\ st.place[x] = "claimed"
    BY <1>1, <1>2, <2>1, RecoveredIs, RunsKeepTheirClaim DEF P!StoreOp
  <2>3. /\ Sound(store') /\ store'.tries[x] = 0
        /\ x # Safety => store'.place[x] = "done"
        /\ \A s \in P!Scopes \ {x} : store'.place[s] = st.place[s] /\ store'.tries[s] = st.tries[s]
    BY <2>2, FinishIs
  <2>4. Safety \notin Events
    BY PlaneAssumptions DEF P!PlaneAssumption
  <2>5. (x \in Events => Goes(st, x)) /\ \A s \in P!Scopes \ {x} : Stays(st, s)
    BY <2>2, <2>3, <2>4 DEF Goes, Stays
  <2>6. QED
    BY <1>1, <2>2, <2>3, <2>5, OperationKeeps
<1>4. CASE P!RunRequeues(c)
  <2>1. PICK st \in P!Recovered :
            LET n == st.tries[x] + 1 IN
            P!StoreOp(P!GiveBack(st, x, Backoff[IF n < Len(Backoff) THEN n ELSE Len(Backoff)]))
    BY <1>2, <1>4 DEF P!RunRequeues
  <2>2. Sound(st) /\ x \in P!Scopes /\ st.place[x] = "claimed"
    BY <1>1, <1>2, RecoveredIs, RunsKeepTheirClaim
  <2>3. PICK d \in Nat : P!StoreOp(P!GiveBack(st, x, d))
    <3> DEFINE n == st.tries[x] + 1
               e == Backoff[IF n < Len(Backoff) THEN n ELSE Len(Backoff)]
    <3>1. n \in Nat /\ n > 0
      BY <2>2 DEF Sound, Stores
    <3>2. Backoff \in Seq(0..MaxDelay) /\ Len(Backoff) \in Nat /\ Len(Backoff) > 0 /\ MaxDelay \in Nat
      BY EmptySeq, LenProperties, PlaneAssumptions DEF P!PlaneAssumption, P!TimerAssumption
    <3>3. (IF n < Len(Backoff) THEN n ELSE Len(Backoff)) \in 1..Len(Backoff)
      BY <3>1, <3>2
    <3>4. e \in 0..MaxDelay
      BY <3>2, <3>3, ElementOfSeq
    <3>5. e \in Nat
      BY <3>2, <3>4
    <3>6. P!StoreOp(P!GiveBack(st, x, e))
      BY <2>1
    <3> HIDE DEF e
    <3>7. QED
      BY <3>5, <3>6
  <2>4. store' = P!GiveBack(st, x, d) /\ overdue' = {}
    BY <2>3 DEF P!StoreOp
  <2>5. /\ Sound(store') /\ store'.tries[x] = st.tries[x] + 1
        /\ store'.place[x] = IF st.tries[x] + 1 >= MaxAttempts THEN "parked" ELSE "queued"
        /\ \A s \in P!Scopes \ {x} : store'.place[s] = st.place[s] /\ store'.tries[s] = st.tries[s]
    BY <2>2, <2>4, GiveBackIs
  <2>6. Goes(st, x) /\ \A s \in P!Scopes \ {x} : Stays(st, s)
    BY <2>2, <2>5 DEF Goes, Stays
  <2>7. QED
    BY <1>1, <2>2, <2>4, <2>5, <2>6, OperationKeeps
<1>5. QED
  BY <1>3, <1>4

\* No operation: no scope moves, though one may become overdue or be due sooner.
LEMMA NothingMoves ==
    ASSUME LedgerInv, Count \/ UNCHANGED <<store, grants>>,
           Sound(store'), store'.place = store.place, store'.tries = store.tries,
           overdue' = overdue
             \/ \E s \in P!Scopes : /\ overdue' = overdue \union {s}
                                    /\ store.place[s] \in {"queued", "claimed"}
                                    /\ run.pc = "work" => s # run.scope,
           run'.pc = "work" => run' = run
    PROVE  LedgerInv' /\ UNCHANGED LedgerOf
<1>1. UNCHANGED LedgerOf /\ grants' = grants
  BY NoOperation
<1>2. IsFiniteSet(overdue') /\ overdue' \subseteq P!Scopes
      /\ \A s \in overdue' : store'.place[s] \in {"queued", "claimed"}
  BY FS_AddElement DEF LedgerInv
<1>3. run'.pc = "work" => run'.scope \in P!Scopes \ overdue' /\ store'.place[run'.scope] = "claimed"
  BY DEF LedgerInv
<1>4. QED
  BY <1>1, <1>2, <1>3 DEF LedgerInv

\* Every step of the plane is one of the ledger, or none.
LEMMA PlaneSteps ==
    ASSUME LedgerInv, P!Next \/ UNCHANGED P!planeVars, Count \/ UNCHANGED <<store, grants>>
    PROVE  LedgerInv' /\ (L!Next \/ UNCHANGED LedgerOf)
<1>1. ASSUME NEW c \in Chains, NEW e \in Events, P!Webhook(c, e)
      PROVE  LedgerInv' /\ (L!Next \/ UNCHANGED LedgerOf)
  <2>1. e \in P!Scopes /\ store.place[e] = "absent" /\ UNCHANGED run
    BY <1>1 DEF P!Webhook, P!RunUnchanged, P!Scopes
  <2>2. PICK st \in P!Recovered : P!StoreOp(P!Put(st, e))
    BY <1>1 DEF P!Webhook
  <2>3. st.place[e] = "absent"
    BY <2>1, RecoveredIs DEF LedgerInv
  <2>4. QED
    BY <2>1, <2>2, <2>3, PutsEnqueue
<1>2. ASSUME P!SafetyTick
      PROVE  LedgerInv' /\ (L!Next \/ UNCHANGED LedgerOf)
  <2>1. Safety \in P!Scopes /\ UNCHANGED run
    BY <1>2 DEF P!SafetyTick, P!RunUnchanged, P!Scopes
  <2>2. PICK st \in P!Recovered : P!StoreOp(IF st.place[Safety] = "absent" THEN P!Put(st, Safety) ELSE st)
    BY <1>2 DEF P!SafetyTick
  <2>3. CASE st.place[Safety] = "absent"
    BY <2>1, <2>2, <2>3, PutsEnqueue
  <2>4. CASE st.place[Safety] # "absent"
    BY <2>1, <2>2, <2>4, ReadsSettle
  <2>5. QED
    BY <2>3, <2>4
<1>3. ASSUME \/ \E c \in Chains : P!ChainRead(c)
             \/ P!StartupRead
             \/ \E k \in Threads : P!TimerReads(k)
      PROVE  LedgerInv' /\ (L!Next \/ UNCHANGED LedgerOf)
  <2>1. PICK st \in P!Recovered : P!StoreOp(st)
    BY <1>3 DEF P!ChainRead, P!StartupRead, P!TimerReads
  <2>2. UNCHANGED run
    BY <1>3 DEF P!ChainRead, P!StartupRead, P!TimerReads, P!RunUnchanged
  <2>3. QED
    BY <2>1, <2>2, ReadsSettle
<1>4. ASSUME P!RunClaim
      PROVE  LedgerInv' /\ (L!Next \/ UNCHANGED LedgerOf)
  <2>1. PICK st \in P!Recovered :
          \/ P!StoreOp(st) /\ run' = P!Idle
          \/ \E n \in 1..Len(st.queue) :
               P!StoreOp(P!Take(st, n)) /\ run' = [pc |-> "work", scope |-> st.queue[n]]
    BY <1>4 DEF P!RunClaim
  <2>2. P!Idle.pc # "work"
    BY DEF P!Idle
  <2>3. QED
    BY <2>1, <2>2, ReadsSettle, TakesGrant
<1>5. ASSUME P!RunEnds
      PROVE  LedgerInv' /\ (L!Next \/ UNCHANGED LedgerOf)
  BY <1>5, EndsRetire DEF P!RunEnds
<1>6. ASSUME P!Second
      PROVE  LedgerInv' /\ UNCHANGED LedgerOf
  <2>1. /\ store' = [store EXCEPT !.due = [s \in P!Scopes |-> P!Sooner(store.due[s])]]
        /\ UNCHANGED <<overdue, run>> /\ store \in Stores
    BY <1>6 DEF P!Second, LedgerInv, Sound
  <2>2. [s \in P!Scopes |-> P!Sooner(store.due[s])] \in [P!Scopes -> Nat]
    BY <2>1, SoonerIs, PlaneAssumptions DEF P!TimerAssumption, Stores
  <2>3. /\ store' \in Stores /\ store'.queue = store.queue
        /\ store'.place = store.place /\ store'.tries = store.tries
    BY <2>1, <2>2 DEF Stores
  <2>4. Sound(store')
    BY <2>3 DEF LedgerInv, Sound
  <2>5. QED
    BY <2>1, <2>3, <2>4, NothingMoves
<1>7. ASSUME NEW s \in P!Scopes, P!WaitRunsOut(s) \/ P!LeaseRunsOut(s)
      PROVE  LedgerInv' /\ UNCHANGED LedgerOf
  <2>1. UNCHANGED <<store, run>> /\ overdue' = overdue \union {s}
    BY <1>7 DEF P!WaitRunsOut, P!LeaseRunsOut
  <2>2. store.place[s] \in {"queued", "claimed"} /\ (run.pc = "work" => s # run.scope)
    BY <1>7 DEF P!WaitRunsOut, P!LeaseRunsOut, LedgerInv
  <2>3. QED
    BY <2>1, <2>2, NothingMoves DEF LedgerInv
<1>8. ASSUME UNCHANGED <<store, overdue>>, run'.pc = "work" => run' = run
      PROVE  LedgerInv' /\ UNCHANGED LedgerOf
  BY <1>8, NothingMoves DEF LedgerInv
<1>9. CASE \/ \E c \in Chains : P!ChainDecide(c) \/ P!ChainWake(c)
           \/ P!SafetyWake \/ P!StartupDecide \/ P!StartupWake
           \/ \E k \in Threads : P!TimerWakes(k) \/ P!TimerMoves(k)
           \/ P!Restart \/ P!Repair \/ UNCHANGED P!planeVars
  BY <1>8, <1>9 DEF P!ChainDecide, P!ChainWake, P!SafetyWake, P!StartupDecide, P!StartupWake, P!TimerWakes,
     P!TimerMoves, P!Restart, P!Repair, P!RunUnchanged, P!planeVars
<1>10. CASE P!StartRun \/ P!RunDies
  BY <1>8, <1>10 DEF P!StartRun, P!RunDies, P!Idle
<1>11. QED
  BY <1>1, <1>2, <1>3, <1>4, <1>5, <1>6, <1>7, <1>9, <1>10
     DEF P!Next, P!HandlerStep, P!StartupStep, P!TimerThreadStep

\* Of every plane, outages, dead runs, waits and leases that run out and restarts included: what
\* happens to a webhook's scope is what the ledger of ScopeLedger allows, the promise that the
\* detailed store (ScopeStore) keeps as well.  Nothing is done without a claim, no claim is
\* granted twice for one try, and a scope is parked only with its tries spent.
THEOREM PlaneKeepsLedger == P!Spec /\ CountsGrants => L!Spec
<1>1. P!Init /\ grants = [s \in P!Scopes |-> 0] => LedgerInv /\ L!Init
  <2> SUFFICES ASSUME P!Init, grants = [s \in P!Scopes |-> 0]
               PROVE  LedgerInv /\ L!Init
    OBVIOUS
  <2>1. /\ store = [queue |-> <<>>, place |-> [s \in P!Scopes |-> "absent"],
                    due |-> [s \in P!Scopes |-> 0], tries |-> [s \in P!Scopes |-> 0]]
        /\ overdue = {} /\ run = P!Idle
    BY DEF P!Init
  <2>2. Sound(store)
    BY <2>1 DEF Sound, Stores, Places
  <2>3. LedgerInv
    BY <2>1, <2>2, FS_EmptySet DEF LedgerInv, P!Idle
  <2>4. \A e \in Events : LedgerOf[e] = L!Entry("absent", 0, 0)
    BY <2>1 DEF LedgerOf, EntryOf, PhaseOf, L!Entry, P!Scopes
  <2>5. L!Init
    BY <2>4 DEF L!Init, LedgerOf
  <2>6. QED
    BY <2>3, <2>5
<1>2. LedgerInv /\ [P!Next]_P!planeVars /\ [Count]_<<store, grants>> => LedgerInv' /\ [L!Next]_LedgerOf
  BY PlaneSteps
<1>3. QED
  BY <1>1, <1>2, PTL DEF P!Spec, CountsGrants, L!Spec
=============================================================================
