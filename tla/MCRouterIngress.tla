--------------------------- MODULE MCRouterIngress ---------------------------
(***************************************************************************)
(* The router's dealings with GitHub side by side: the deliveries it       *)
(* receives, RouterIngress, and the hooks that make GitHub send them,      *)
(* HookReconcile.  They share no variable.  A behaviour stays in the part  *)
(* it begins in.  Deliveries are interchangeable, and so are handler slots.*)
(***************************************************************************)
EXTENDS RouterIngress, TLC

CONSTANTS d1, d2, h1, h2, Repos, Requests, MaxHooks, MaxChanges, MaxFaults

VARIABLES part, topic, hooks, managed, run, made, changes, faults, loose

H == INSTANCE HookReconcile

ASSUME RegistrationAssumption == H!HookAssumption

TwoDeliveries == {d1, d2}
TwoHandlers == {h1, h2}

IngressSymmetry == Permutations(Deliveries) \union Permutations(Handlers)

registration == <<topic, hooks, managed, run, made, changes, faults, loose>>
parts == <<part, vars, registration>>

\* The part that is not taken begins in one state only.
PartsInit ==
    /\ part \in {"deliveries", "hooks"} /\ Init /\ H!Init
    /\ part = "deliveries" => topic = {}
    /\ part = "hooks" => \A d \in Deliveries : kind[d] = "noop"

Delivers(A) == part = "deliveries" /\ A /\ UNCHANGED <<part, registration>>
Registers(A) == part = "hooks" /\ A /\ UNCHANGED <<part, vars>>

PartsNext == Delivers(Next) \/ Registers(H!Next)

PartsSpec == PartsInit /\ [][PartsNext]_parts

\* The record of the hooks is right but for what failed or overlapped (HookReconcile, Save).
HooksAreAccounted == H!HooksAreAccounted
=============================================================================
