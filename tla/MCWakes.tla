------------------------------ MODULE MCWakes ------------------------------
(***************************************************************************)
(* The two ways in which something that happened wakes a run: a trigger of *)
(* the intake, LeaseController, and a completion of a card,                *)
(* CompletionWake.  They share no variable.  A behaviour stays in the part *)
(* it begins in.                                                           *)
(***************************************************************************)
EXTENDS LeaseController

CONSTANTS Cards, MaxReplays, MaxEvents, MaxFaults

VARIABLES part, card, merged, log, old, tries, caller, flight, faults, replayed

W == INSTANCE CompletionWake

ASSUME WakesAssumption == W!WakeAssumption

wakeVars == <<card, merged, log, old, tries, caller, flight, faults, replayed>>
parts == <<part, vars, wakeVars>>

PartsInit == part \in {"lease", "completion"} /\ Init /\ W!Init

LeaseOnly(A) == part = "lease" /\ A /\ UNCHANGED <<part, wakeVars>>
WakeOnly(A) == part = "completion" /\ A /\ UNCHANGED <<part, vars>>

PartsNext == LeaseOnly(Next) \/ WakeOnly(W!Next)

\* The completions' own fairness; of the leases' less than their own, that some thread
\* runs and some thread gets the lock: it is enough, as each takes a few steps only.
PartsFairness ==
    /\ WF_parts(LeaseOnly(\E l \in Leases : ThreadStep(l)) \/ WakeOnly(W!GatewaySteps))
    /\ SF_parts(LeaseOnly(\E l \in Leases : Lock(l)))
    /\ WF_parts(LeaseOnly(IntakeEnds) \/ WakeOnly(W!Step(W!Actuator)))
    /\ \A c \in Cards : WF_parts(LeaseOnly(EdgeEnds) \/ WakeOnly(W!Step(c)))

PartsSpec == PartsInit /\ [][PartsNext]_parts /\ PartsFairness

\* The safety wake replays a completion boundedly often (CompletionWake, Tick and Forget).
ReplaysAreBounded == W!ReplaysAreBounded

\* A provisional completion does not stay (CompletionWake, Recheck and Tick).
CompletionIsProjected == W!CompletionIsProjected
=============================================================================
