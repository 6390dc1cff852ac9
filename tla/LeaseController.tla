--------------------------- MODULE LeaseController ---------------------------
(***************************************************************************)
(* The lease controller (automation/n8n/lease-controller/controller.py)    *)
(* and the actuator it drives                                              *)
(* (automation/hermes/actuator/github_intake_actuator.py).  A trigger      *)
(* writes a fresh pending lease and starts a background thread; the thread *)
(* calls the actuator under _TRIGGER_LOCK, retries while it answers busy,  *)
(* and records the outcome if its lease is still the one in the file.  The *)
(* actuator runs one child at a time, intake or edge sync, under           *)
(* _RUN_LOCK.  The controller may restart at any point; the actuator goes  *)
(* on with what it runs.                                                   *)
(*                                                                         *)
(* A lease is identified by its place in the order of the triggers, which  *)
(* the code does not know: it compares lease ids for equality only.        *)
(***************************************************************************)
EXTENDS Naturals, FiniteSets

CONSTANTS
    MaxTriggers, \* bound of the model: triggers accepted
    BusyRetries, \* Len(ACTUATOR_BUSY_RETRY_SECONDS)
    MaxRestarts  \* bound of the model: controller restarts

ASSUME LeaseAssumption ==
    MaxTriggers \in Nat /\ BusyRetries \in Nat /\ MaxRestarts \in Nat

Leases == 1..MaxTriggers
NoLease == 0
NoThread == [pc |-> "none", tries |-> 0, outcome |-> "none"]
Statuses == {"none", "pending", "active", "paused", "failed"}

VARIABLES
    file,     \* hermes-intake-lease.json
    threads,  \* the background thread of each lease
    trigger,  \* who holds _TRIGGER_LOCK
    job,      \* what the actuator runs under _RUN_LOCK
    newest,   \* history: the newest trigger accepted
    settled,  \* history: leases whose outcome was recorded
    paused,   \* history: leases whose delayed pause was accepted
    owed,     \* history: triggers accepted that no run start or failure followed
    restarts

vars == <<file, threads, trigger, job, newest, settled, paused, owed, restarts>>

File(lease, status, pause) == [lease |-> lease, status |-> status, pause |-> pause]
Running(kind, lease) == [kind |-> kind, lease |-> lease]
Free == Running("none", NoLease)
Thread(pc, tries, outcome) == [pc |-> pc, tries |-> tries, outcome |-> outcome]

Init ==
    /\ file = File(NoLease, "none", FALSE)
    /\ threads = [l \in Leases |-> NoThread]
    /\ trigger = NoLease
    /\ job = Free
    /\ newest = NoLease
    /\ settled = {} /\ paused = {} /\ owed = {}
    /\ restarts = 0

-----------------------------------------------------------------------------
(* Requests                                                                  *)

\* Handler._trigger: the file is overwritten whatever it says.
Trigger ==
    /\ newest < MaxTriggers
    /\ newest' = newest + 1
    /\ file' = File(newest', "pending", FALSE)
    /\ threads' = [threads EXCEPT ![newest'] = Thread("start", 0, "none")]
    /\ owed' = owed \union {newest'}
    /\ UNCHANGED <<trigger, job, settled, paused, restarts>>

\* Handler._pause, sent by the router WAIT_SECONDS after each accepted trigger.
PauseQueued(l) ==
    /\ file.lease = l /\ file.status = "pending"
    /\ file' = [file EXCEPT !.pause = TRUE]

PauseActive(l) ==
    /\ file.lease = l /\ file.status = "active"
    /\ file' = File(l, "paused", FALSE)

Pause(l) ==
    /\ PauseQueued(l) \/ PauseActive(l)
    /\ paused' = paused \union {l}
    /\ UNCHANGED <<threads, trigger, job, newest, settled, owed, restarts>>

-----------------------------------------------------------------------------
(* _call_actuator_serialized                                                 *)

Lock(l) ==
    /\ threads[l].pc = "start" /\ trigger = NoLease
    /\ trigger' = l
    /\ threads' = [threads EXCEPT ![l] = Thread("call", 0, "none")]
    /\ UNCHANGED <<file, job, newest, settled, paused, owed, restarts>>

\* The actuator takes the request: _RUN_LOCK is free, an intake child starts.
IntakeStarts(l) ==
    /\ threads[l].pc = "call" /\ job = Free
    /\ job' = Running("intake", l)
    /\ threads' = [threads EXCEPT ![l].pc = "wait"]
    /\ owed' = {}
    /\ UNCHANGED <<file, trigger, newest, settled, paused, restarts>>

RetriesLeft(l) == threads[l].tries < BusyRetries

\* 409: another child runs; sleep and call again while retries are left.
ActuatorBusy(l) ==
    /\ threads[l].pc = "call" /\ job # Free
    /\ \/ /\ RetriesLeft(l)
          /\ threads' = [threads EXCEPT ![l].tries = @ + 1]
          /\ UNCHANGED trigger
       \/ /\ ~RetriesLeft(l)
          /\ threads' = [threads EXCEPT ![l] = Thread("report", 0, "refused")]
          /\ trigger' = NoLease
    /\ UNCHANGED <<file, job, newest, settled, paused, owed, restarts>>

\* The child ended and the answer reached the thread, unless it is gone.
IntakeEnds ==
    /\ job.kind = "intake"
    /\ job' = Free
    /\ IF threads[job.lease].pc = "wait"
       THEN /\ \E outcome \in {"ok", "refused"} :
                 threads' = [threads EXCEPT ![job.lease] = Thread("report", 0, outcome)]
            /\ trigger' = NoLease
       ELSE UNCHANGED <<threads, trigger>>
    /\ UNCHANGED <<file, newest, settled, paused, owed, restarts>>

\* The call raises (unreachable, timed out, oversized): the outcome is ambiguous.
CallRaises(l) ==
    /\ threads[l].pc \in {"call", "wait"}
    /\ threads' = [threads EXCEPT ![l] = Thread("report", 0, "ambiguous")]
    /\ trigger' = NoLease
    /\ UNCHANGED <<file, job, newest, settled, paused, owed, restarts>>

-----------------------------------------------------------------------------
(* The rest of _trigger_intake_in_background                                 *)

Ends(l) == threads' = [threads EXCEPT ![l] = NoThread]

\* An outcome other than success ends the debt to the triggers accepted so far.
OwedAfter(l) == IF threads[l].outcome = "ok" THEN owed ELSE {}

\* The lease in the file is still the thread's own.
Current(l) == file.lease = l

ReportSuperseded(l) ==
    /\ threads[l].pc = "report" /\ ~Current(l)
    /\ Ends(l)
    /\ owed' = OwedAfter(l)
    /\ UNCHANGED <<file, trigger, job, newest, settled, paused, restarts>>

\* trigger_error is noted, the lease stays pending.
ReportAmbiguous(l) ==
    /\ threads[l].pc = "report" /\ Current(l) /\ threads[l].outcome = "ambiguous"
    /\ Ends(l)
    /\ owed' = OwedAfter(l)
    /\ UNCHANGED <<file, trigger, job, newest, settled, paused, restarts>>

\* Wrong on purpose, like the other definitions named Wrong...: each is the plausible
\* bug that the mutation run of one property puts in place of the definition below it.
WrongOutcome(l) ==
    IF threads[l].outcome = "refused" THEN "failed" ELSE "active"

Outcome(l) ==
    IF threads[l].outcome = "refused" THEN "failed"
    ELSE IF file.pause THEN "paused" ELSE "active"

ReportOutcome(l) ==
    /\ threads[l].pc = "report" /\ Current(l) /\ threads[l].outcome \in {"ok", "refused"}
    /\ file' = File(l, Outcome(l), FALSE)
    /\ Ends(l)
    /\ settled' = settled \union {l}
    /\ owed' = OwedAfter(l)
    /\ UNCHANGED <<trigger, job, newest, paused, restarts>>

Report(l) == ReportSuperseded(l) \/ ReportAmbiguous(l) \/ ReportOutcome(l)

-----------------------------------------------------------------------------
(* The environment                                                           *)

\* The edge sync of a pull request event takes _RUN_LOCK as well.
EdgeStarts ==
    /\ job = Free
    /\ job' = Running("edge", NoLease)
    /\ UNCHANGED <<file, threads, trigger, newest, settled, paused, owed, restarts>>

EdgeEnds ==
    /\ job.kind = "edge"
    /\ job' = Free
    /\ UNCHANGED <<file, threads, trigger, newest, settled, paused, owed, restarts>>

WrongResumable(l) == l = file.lease /\ file.status # "none"

WrongResumableUnpaused(l) == l = file.lease /\ file.status = "pending" /\ ~file.pause

\* The lease that _resume_pending_trigger_on_startup takes up.
Resumable(l) == l = file.lease /\ file.status = "pending"

\* The controller dies; at startup _resume_pending_trigger_on_startup starts the
\* thread of the lease the file says is pending, and of no other.
Restart ==
    /\ restarts < MaxRestarts
    /\ restarts' = restarts + 1
    /\ trigger' = NoLease
    /\ threads' = [l \in Leases |->
           IF Resumable(l) THEN Thread("start", 0, "none") ELSE NoThread]
    /\ UNCHANGED <<file, job, newest, settled, paused, owed>>

ThreadStep(l) ==
    Lock(l) \/ IntakeStarts(l) \/ ActuatorBusy(l) \/ Report(l)

Next ==
    \/ Trigger
    \/ \E l \in Leases : Pause(l) \/ ThreadStep(l) \/ CallRaises(l)
    \/ IntakeEnds
    \/ EdgeStarts \/ EdgeEnds
    \/ Restart

\* Threads are scheduled and a child ends: the actuator kills it at its timeout.
\* A thread that waits for _TRIGGER_LOCK gets it although others want it too.
Fairness ==
    /\ \A l \in Leases : WF_vars(ThreadStep(l)) /\ SF_vars(Lock(l))
    /\ WF_vars(IntakeEnds) /\ WF_vars(EdgeEnds)

Spec == Init /\ [][Next]_vars /\ Fairness

-----------------------------------------------------------------------------
TypeOK ==
    /\ file \in [lease : Leases \union {NoLease}, status : Statuses, pause : BOOLEAN]
    /\ threads \in [Leases -> [pc : {"none", "start", "call", "wait", "report"},
                               tries : 0..BusyRetries,
                               outcome : {"none", "ok", "refused", "ambiguous"}]]
    /\ trigger \in Leases \union {NoLease}
    /\ job \in [kind : {"none", "intake", "edge"}, lease : Leases \union {NoLease}]
    /\ newest \in 0..MaxTriggers
    /\ settled \in SUBSET Leases /\ paused \in SUBSET Leases /\ owed \in SUBSET Leases
    /\ restarts \in 0..MaxRestarts

\* The file describes the newest accepted trigger: the outcome of an older one
\* never replaces it, in whatever order their threads end.
FileIsNewest == file.lease = newest

\* _TRIGGER_LOCK is held by a thread that is in its call, and by no thread that
\* is gone: a raised call, a refused one or a restart leaves it free.
LockHasHolder ==
    \A l \in Leases : trigger = l <=> threads[l].pc \in {"call", "wait"}

\* A delayed pause that was accepted is not forgotten: its lease is not active
\* afterwards, although the outcome is recorded later, or after a restart.
PauseSticks ==
    file.lease \in paused => file.status # "active"

\* The lease file tells the truth about the trigger it names, whatever threads,
\* pauses and restarts did to it meanwhile.
FileIsSound == FileIsNewest /\ PauseSticks

\* The intake is not started again for a lease whose outcome was recorded, not
\* even by a restart (docs/GITHUB_EVENT_CONCURRENCY.md: "never replayed").
RecordedNeverReplayed ==
    [][ job' # job /\ job'.kind = "intake" => job'.lease \notin settled ]_vars

\* Every accepted trigger is followed by the start of an intake run or by an
\* outcome that reports a failure: superseding and restarts lose no wake.
AcceptedTriggerIsServed ==
    \A l \in Leases : l \in owed ~> l \notin owed
=============================================================================
