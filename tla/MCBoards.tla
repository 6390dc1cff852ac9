------------------------------ MODULE MCBoards ------------------------------
(***************************************************************************)
(* What happens to the boards themselves and to their cards' creation,     *)
(* side by side: BoardMigration and CardCreation.  They share no variable. *)
(* A behaviour stays in the part it begins in.  Both sessions work for the *)
(* lower card, so they are interchangeable, and so are keys of one kind:   *)
(* no action orders them and no property names one.                        *)
(***************************************************************************)
EXTENDS CardCreation, TLC

CONSTANTS Issues, NoIssue, MaxArchives, MaxReopens,
          odd, even,         \* searches: one with an odd budget
          ka, kb, k1, k2,    \* idempotency keys
          s1, s2             \* sessions

VARIABLES part, legacy, canonical, archived, evidence, kept, tool, route, imported, missed, reopens

M == INSTANCE BoardMigration

ASSUME CutoverAssumption == M!MigrationAssumption

MCMains == {"top", "sub"}
MCAbove == [c \in MCMains |-> IF c = "top" THEN {"top"} ELSE MCMains]
MCBudgets == [s \in {odd, even} |-> IF s = odd THEN {3} ELSE {4}]
MCCardOf == [s \in {s1, s2} |-> "sub"]

Alike == Permutations({ka, kb}) \union Permutations({k1, k2}) \union Permutations({s1, s2})

boards == <<legacy, canonical, archived, evidence, kept, tool, route, imported, missed, reopens>>
parts == <<part, vars, boards>>

PartsInit ==
  /\ part \in {"migration", "creation"} /\ Init /\ M!Init
  /\ part # "migration" => \A i \in Issues : legacy.cards[i] = "open"

Creates(A) == part = "creation" /\ A /\ UNCHANGED <<part, boards>>
Migrates(A) == part = "migration" /\ A /\ UNCHANGED <<part, vars>>

PartsNext == Creates(Next) \/ Migrates(M!Next)

PartsSpec == PartsInit /\ [][PartsNext]_parts

\* One search at a time, closed over cards that exist, and no card without its event
\* (CardCreation, AdmitCandidate and AdmitSelector).
LedgerIsSound == OneSearchPerRoot /\ ChoiceIsBound /\ LedgerPrecedesCard

\* The board that the intake is given knows every imported Issue, and a postcheck that passes
\* means a complete cutover (BoardMigration, Transition and Postcheck).
CutoverIsSound == M!RouteKnowsImported /\ M!PostcheckIsSound

\* Rollback removes no card that is the only trace of its Issue (BoardMigration, Rollback).
OnlyTraceKept == M!OnlyTraceKept
=============================================================================
