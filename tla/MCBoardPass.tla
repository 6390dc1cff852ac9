---------------------------- MODULE MCBoardPass ----------------------------
(***************************************************************************)
(* What a pass over the boards does beside the cards' lifecycle, side by   *)
(* side: Admission, which cards get a worker, and Alerts, which incidents  *)
(* the operator hears of.  They share no variable.  A behaviour stays in   *)
(* the part it begins in.  One card on each of two boards.                 *)
(***************************************************************************)
EXTENDS Admission, TLC

CONSTANTS Boards, Senders, Wake, NoBoard, MaxChanges, MaxLosses, MaxOverlaps

VARIABLES part, gen, open, noted, file, sender, changes, losses, overlaps, tells, told

A == INSTANCE Alerts WITH Procs <- Senders, run <- sender,
                          MaxFaults <- MaxLosses, faults <- losses

ASSUME AlertsAssumption == A!AlertsAssumption

MCBoardOf == 1 :> "x" @@ 2 :> "y"

alertVars == <<gen, open, noted, file, sender, changes, losses, overlaps, tells, told>>
parts == <<part, vars, alertVars>>

\* The cards' part may begin with any cards, the other one with those of dev.
PartsInit ==
  /\ part \in {"cards", "alerts"} /\ Init /\ A!Init
  /\ part = "alerts" => \A c \in Cards : card[c].who = Default

CardsOnly(Act) == part = "cards" /\ Act /\ UNCHANGED <<part, alertVars>>
AlertsOnly(Act) == part = "alerts" /\ Act /\ UNCHANGED <<part, vars>>

PartsNext == CardsOnly(Next) \/ AlertsOnly(A!Next)

Finishes == \E c \in Cards : WorkerEnds(c) \/ WorkerExits(c) \/ CoreNotices(c)
EdgeWorks == \E p \in Edges : Steps(p) \/ EdgeLooks(p)
ManualSends == \E p \in Senders \ {Wake} : A!Steps(p)

\* In each part this is the part's own fairness, and nothing more.
PartsFairness ==
  /\ SF_parts(CardsOnly(Claims)) /\ WF_parts(CardsOnly(Finishes))
  /\ WF_parts(CardsOnly(CoreLooks) \/ AlertsOnly(A!Start(Wake)))
  /\ WF_parts(CardsOnly(Steps(Core) \/ EdgeLooks(Core)) \/ AlertsOnly(A!Steps(Wake)))
  /\ WF_parts(CardsOnly(EdgeWorks) \/ AlertsOnly(ManualSends))

PartsSpec == PartsInit /\ [][PartsNext]_parts /\ PartsFairness

\* A ready card does not wait for ever (Admission, Fairness).
CardsGetSlots == part = "cards" => SlotsAreUsed

\* No alert is held back that was not delivered, and no incident is an alert storm (Alerts,
\* Send, SendFails and Persist).
AlertsAreSound == A!RecordedWasTold /\ A!AlertsAreBounded

\* An incident that stays is told of (Alerts, Persist).
IncidentIsTold == A!IncidentIsTold
=============================================================================
