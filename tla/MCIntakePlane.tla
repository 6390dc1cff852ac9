--------------------------- MODULE MCIntakePlane ---------------------------
(***************************************************************************)
(* The wake-up plane, IntakePlane, with the constants of its runs.  It is  *)
(* an instance, so that a module may have the names of the lease           *)
(* controller as well; the restarts of the router are reboots here.        *)
(***************************************************************************)
CONSTANTS k1, k2, k3, c1, c2, e1, e2

CONSTANTS Threads, NoDeadline, MaxDelay, Events, Safety, MaxAttempts, Backoff, Chains,
          MaxWakes, MaxReboots, Outages, Ticking, RunsFail, WaitsLong

VARIABLES deadline, current, timers, missed, store, overdue, chains, ticker, starter,
          wakes, run, health, reboots

P == INSTANCE IntakePlane WITH MaxRestarts <- MaxReboots, restarts <- reboots

ASSUME PlaneAssumptions == P!TimerAssumption /\ P!PlaneAssumption

OneEvent == {e1}
TwoEvents == {e1, e2}
TwoThreads == {k1, k2}
ThreeThreads == {k1, k2, k3}
OneHandler == {c1}
TwoHandlers == {c1, c2}
ShortBackoff == <<1, 2>>
OneBackoff == <<1>>
NoBackoff == <<0>>

PlaneSpec == P!Spec

\* A deadline that is set has a thread that will clear it, and a sleep that all depends on
\* covers the queue (_schedule_delayed_scope_wake and _delayed_scope_wake_background).
TimerIsSound == P!TimerIsSound

\* Nothing but a coalesced hint or an unreadable queue strands a scope while calls work.
StrandedOnlyByCoalescing == P!StrandedOnlyByCoalescing

\* Every accepted webhook is worked off or parked, whatever fails meanwhile.
NobodyWaitsForever == P!NobodyWaitsForever

\* The safety tick makes full runs for ever unless its own scope is parked.
SafetyNetUnlessParked == P!SafetyNetUnlessParked

\* What docs/GITHUB_EVENT_CONCURRENCY.md says of the tick and of the backoff (no runs).
SafetyNetRecovers == P!SafetyNetRecovers
BackoffIsHonoured == P!BackoffIsHonoured
=============================================================================
