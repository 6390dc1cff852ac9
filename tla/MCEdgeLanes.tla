---------------------------- MODULE MCEdgeLanes ----------------------------
(***************************************************************************)
(* A card of the board takes one of two lanes of a pass: EdgeHold for a    *)
(* card that no other card holds up, EdgeTerminal for a root with parents. *)
(* A behaviour stays in the lane it begins in.                             *)
(***************************************************************************)
EXTENDS EdgeHold

CONSTANTS Heads, MaxRounds, Changes

VARIABLES lane, row, links, recorded, round, pull, closed, failed, sweep

T == INSTANCE EdgeTerminal WITH
       issue <- closed, faults <- failed, pass <- sweep, Happens <- Changes

ASSUME GraphAssumption == T!TerminalAssumption

graph == <<row, links, recorded, round, pull, closed, failed, sweep>>
lanes == <<lane, vars, graph>>

LanesInit == lane \in {"hold", "terminal"} /\ Init /\ T!Init

Hold(A) == lane = "hold" /\ A /\ UNCHANGED <<lane, graph>>
Graph(A) == lane = "terminal" /\ A /\ UNCHANGED <<lane, vars>>

LanesNext == Hold(Next) \/ Graph(T!Next)

LanesSpec == LanesInit /\ [][LanesNext]_lanes /\ WF_lanes(Hold(Step) \/ Graph(T!Step))

\* The edge never touches a card a worker owns, finishes a blocked card only while its round
\* governs and nothing holds it, and finishes a root only with the last of its parents
\* (EdgeTerminal, Converge, Unmoved and Admits).
GraphIsRespected == T!OwnedIsUntouched /\ T!HeldStaysHeld /\ T!RootIsLast

\* A stale graph of a merged pull request and a closed Issue is closed (EdgeTerminal, Converge).
StaleGraphConverges == T!StaleGraphConverges
=============================================================================
