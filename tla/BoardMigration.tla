---------------------------- MODULE BoardMigration ----------------------------
(***************************************************************************)
(* The cutover of one repository from its legacy board to the board that   *)
(* carries its canonical slug: the stages migrate, transition, postcheck   *)
(* and rollback of board_identity_migration.py, each a process that runs   *)
(* under the lease it shares with the intake and that may end between any  *)
(* two of its effects, and the intake that routes Issues to a board by the *)
(* provenance of the boards' cards.                                        *)
(*                                                                         *)
(* A card is named by the Issue it was imported for.  The content of a     *)
(* board directory is the state of its cards and whether every file of it  *)
(* is there.  The intake's three Kanban writes are atomic: each holds the  *)
(* lease around one CLI call.                                              *)
(***************************************************************************)
EXTENDS Naturals, Sequences, FiniteSets

CONSTANTS Issues,        \* the Issues whose cards the boards hold
          NoIssue,       \* no anchor is being carried
          MaxArchives,   \* bound on archived copies of the legacy board
          MaxReopens     \* bound on closed cards opened again

MigrationAssumption ==
  IsFiniteSet(Issues) /\ NoIssue \notin Issues /\ MaxArchives \in Nat /\ MaxReopens \in Nat

VARIABLES legacy,      \* the legacy board: its place and its content
          canonical,   \* the canonical board: live or not, its rows
          archived,    \* the archived copies of the legacy board
          evidence,    \* the evidence file
          kept,        \* the recorded backup directory still exists
          tool,        \* the running stage, if any, and what it has read
          route,       \* the board an intake run has resolved, or "none"
          imported,    \* history: Issues for which a work card was created
          missed,      \* history: Issues whose cards the last carry found open
          reopens      \* how many closed cards were opened again

vars == <<legacy, canonical, archived, evidence, kept, tool, route, imported,
          missed, reopens>>

CardStates == {"none", "open", "closed"}
Content == [cards : [Issues -> CardStates], whole : BOOLEAN]
\* The newest row of an Issue: "held" is an anchor created but not completed,
\* "purging" one archived on its way out, "card" a card that the intake made.
\* "old" is where an archived row stays beside a newer one.
Rows == {"none", "held", "anchor", "purging", "card"}

NoRows == [i \in Issues |-> "none"]
NoIds == [i \in Issues |-> "none"]
Idle == [phase |-> "idle", cards |-> NoRows, ids |-> NoIds, keys |-> {}, todo |-> {},
         issue |-> NoIssue]

(* Wrong on purpose: no lease keeps the intake out.                        *)
WrongLeaseFree == TRUE

(* A stage runs under an exclusive flock that ends with its process.       *)
LeaseFree == tool.phase = "idle"

CardsOf(content) == {i \in Issues : content.cards[i] # "none"}
OpenOn(content) == {i \in Issues : content.cards[i] = "open"}
ClosedOn(content) == {i \in Issues : content.cards[i] = "closed"}
LegacyContent == [cards |-> legacy.cards, whole |-> legacy.whole]
LegacyLive == legacy.at = "live"
RowsOf == {i \in Issues : canonical.rows[i] # "none"}

(* A directory without its database stops every scan of the boards root.   *)
ScanWorks == legacy.at # "noDb"

Init ==
  /\ legacy \in [at : {"live"}, cards : [Issues -> CardStates], whole : {TRUE}]
  /\ CardsOf(legacy) # {}
  /\ canonical = [live |-> FALSE, rows |-> NoRows, old |-> {}]
  /\ archived = <<>>
  /\ evidence = [stage |-> "none", legacy |-> FALSE,
                 sums |-> [cards |-> NoRows, whole |-> FALSE],
                 count |-> 0, ids |-> NoIds, keys |-> {}]
  /\ kept = FALSE
  /\ tool = Idle
  /\ route = "none"
  /\ imported = CardsOf(legacy) /\ missed = {}
  /\ reopens = 0

TypeOK ==
  /\ legacy \in [at : {"live", "noDb", "absent"}, cards : [Issues -> CardStates],
                 whole : BOOLEAN]
  /\ canonical \in [live : BOOLEAN, rows : [Issues -> Rows], old : SUBSET Issues]
  /\ ~canonical.live => canonical.rows = NoRows /\ canonical.old = {}
  /\ archived \in Seq(Content) /\ Len(archived) <= MaxArchives
  /\ evidence \in [stage : {"none", "migrated", "transitioned"}, legacy : BOOLEAN,
                   sums : Content, count : Nat,
                   ids : [Issues -> {"none", "current", "stale"}],
                   keys : SUBSET Issues]
  /\ kept \in BOOLEAN
  /\ tool \in [phase : {"idle", "provision", "copy", "verify", "record",
                        "adopt", "read", "carry", "complete", "checkpoint", "archive", "finish",
                        "restore", "fill", "purge", "drop", "revert"},
               cards : [Issues -> CardStates],
               ids : [Issues -> {"none", "current", "stale"}], keys : SUBSET Issues,
               todo : SUBSET Issues, issue : Issues \union {NoIssue}]
  /\ route \in {"none", "legacy", "canonical", "bootstrap"}
  /\ imported \subseteq Issues /\ missed \subseteq Issues
  /\ reopens \in 0..MaxReopens

(* A new row for an Issue: the CLI does not count an archived row, which    *)
(* then stays beside it.  An id recorded for the row before is outdated.    *)
WithRow(i, row) ==
  [canonical EXCEPT !.rows[i] = row,
                    !.old = IF canonical.rows[i] = "purging" THEN @ \union {i} ELSE @]
Outdated(id) == IF id = "current" THEN "stale" ELSE id

-----------------------------------------------------------------------------
(* The registry resolves the repository by the provenance of live boards:  *)
(* a single board with its cards, else an empty board of its canonical     *)
(* slug, else the intent to create that board.                             *)
HasProvenance(board) ==
  \/ board = "legacy" /\ LegacyLive /\ CardsOf(legacy) # {}
  \/ board = "canonical" /\ canonical.live /\ RowsOf # {}

Route ==
  CASE HasProvenance("legacy") /\ HasProvenance("canonical") -> "none"
    [] HasProvenance("legacy") /\ ~HasProvenance("canonical") -> "legacy"
    [] ~HasProvenance("legacy") /\ canonical.live -> "canonical"
    [] OTHER -> "bootstrap"

(* An intake run reads the registry when it starts and keeps the answer.   *)
Resolve ==
  /\ route = "none" /\ Route # "none"
  /\ route' = Route
  /\ UNCHANGED <<legacy, canonical, archived, evidence, kept, tool, imported, missed, reopens>>

(* The first-intake path creates the canonical board and reads the         *)
(* registry again.                                                         *)
Bootstrap ==
  /\ route = "bootstrap" /\ LeaseFree
  /\ canonical' = [canonical EXCEPT !.live = TRUE]
  /\ route' = "none"
  /\ UNCHANGED <<legacy, archived, evidence, kept, tool, imported, missed, reopens>>

(* The CLI returns the card that already has the key, unless that card is  *)
(* archived; a board that is not live is refused.                          *)
CreateCard(i) ==
  /\ LeaseFree
  /\ \/ /\ route = "legacy" /\ LegacyLive /\ legacy.cards[i] = "none"
        /\ legacy' = [legacy EXCEPT !.cards[i] = "open"]
        /\ UNCHANGED canonical
     \/ /\ route = "canonical" /\ canonical.live
        /\ canonical.rows[i] \in {"none", "purging"}
        /\ canonical' = WithRow(i, "card")
        /\ UNCHANGED legacy
  /\ imported' = imported \union {i}
  /\ evidence' = [evidence EXCEPT !.ids[i] = IF route = "canonical" THEN Outdated(@) ELSE @]
  /\ UNCHANGED <<archived, kept, tool, route, missed, reopens>>

(* The run ends, also because a write was refused.                         *)
IntakeEnds ==
  /\ route # "none" /\ route' = "none"
  /\ UNCHANGED <<legacy, canonical, archived, evidence, kept, tool, imported, missed, reopens>>

(* Workers and the edge move cards of a live board without the lease.      *)
CardMoves(i) ==
  /\ LegacyLive /\ legacy.cards[i] # "none"
  /\ \/ /\ legacy.cards[i] = "open"
        /\ legacy' = [legacy EXCEPT !.cards[i] = "closed"]
        /\ reopens' = reopens
     \/ /\ legacy.cards[i] = "closed" /\ reopens < MaxReopens
        /\ legacy' = [legacy EXCEPT !.cards[i] = "open"]
        /\ reopens' = reopens + 1
  /\ UNCHANGED <<canonical, archived, evidence, kept, tool, route, imported, missed>>

(* The operator may clean the backup directory.                            *)
BackupPruned ==
  /\ kept /\ LeaseFree
  /\ kept' = FALSE
  /\ UNCHANGED <<legacy, canonical, archived, evidence, tool, route, imported, missed, reopens>>

-----------------------------------------------------------------------------
(* What every stage refuses before it changes anything: open cards on the  *)
(* legacy board as it was scanned, rows of a live canonical board beside it other than the   *)
(* anchors whose ids it knows, and no board at all.                        *)
Foreign(ids) == {i \in RowsOf : ids[i] # "current"} \union canonical.old
Preflight(scan, ids) ==
  /\ ScanWorks
  /\ LegacyLive => OpenOn(scan) = {}
  /\ LegacyLive /\ canonical.live => Foreign(ids) = {}
  /\ LegacyLive \/ canonical.live

Step(phase) == tool' = [tool EXCEPT !.phase = phase]
Save(e) == evidence' = e

(* The process ends: killed, a CLI call failed or a check refused.         *)
StageFails ==
  /\ ~LeaseFree /\ tool' = Idle
  /\ UNCHANGED <<legacy, canonical, archived, evidence, kept, route, imported, missed, reopens>>

(* migrate: provision the canonical board, copy the legacy board, compare  *)
(* it with the copy, record both.                                          *)
MigrateBegins ==
  /\ LeaseFree /\ Preflight(legacy, NoIds)
  /\ tool' = [Idle EXCEPT !.phase = "provision",
                          !.cards = IF LegacyLive THEN legacy.cards ELSE NoRows]
  /\ UNCHANGED <<legacy, canonical, archived, evidence, kept, route, imported, missed, reopens>>

MigrateProvisions ==
  /\ tool.phase = "provision"
  /\ canonical' = [canonical EXCEPT !.live = TRUE]
  /\ Step(IF tool.cards = NoRows THEN "record" ELSE "copy")
  /\ UNCHANGED <<legacy, archived, evidence, kept, route, imported, missed, reopens>>

(* The copy is kept in tool.cards until it is recorded.                    *)
MigrateCopies ==
  /\ tool.phase = "copy"
  /\ tool' = [tool EXCEPT !.phase = "verify", !.cards = legacy.cards,
                          !.todo = CardsOf(tool)]
  /\ UNCHANGED <<legacy, canonical, archived, evidence, kept, route, imported, missed, reopens>>

MigrateVerifies ==
  /\ tool.phase = "verify" /\ legacy.cards = tool.cards
  /\ Step("record")
  /\ UNCHANGED <<legacy, canonical, archived, evidence, kept, route, imported, missed, reopens>>

MigrateRecords ==
  /\ tool.phase = "record"
  /\ Save([evidence EXCEPT !.stage = "migrated",
                           !.legacy = tool.cards # NoRows,
                           !.sums = [cards |-> tool.cards,
                                     whole |-> legacy.whole /\ tool.cards # NoRows],
                           !.count = Cardinality(tool.todo)])
  /\ kept' = (tool.cards # NoRows)
  /\ tool' = Idle
  /\ UNCHANGED <<legacy, canonical, archived, route, imported, missed, reopens>>

(* transition: adopt the rows of the canonical board that already carry a  *)
(* key of a closed legacy card, refuse what does not match the evidence,   *)
(* carry one anchor per closed card, look again, archive the legacy board. *)
Adopted == [i \in Issues |->
              IF /\ evidence.ids[i] = "none" /\ i \in ClosedOn(legacy)
                 /\ canonical.rows[i] \in {"held", "anchor", "card"}
              THEN "current" ELSE evidence.ids[i]]

SameAsRecorded(cards) ==
  /\ evidence.legacy
  /\ Cardinality({i \in Issues : cards[i] # "none"}) = evidence.count
  /\ \A i \in Issues : cards[i] # "open"

TransitionBegins ==
  /\ LeaseFree /\ ScanWorks
  /\ evidence.stage = "migrated" /\ LegacyLive /\ canonical.live
  /\ tool' = [Idle EXCEPT !.phase = "adopt", !.cards = legacy.cards]
  /\ UNCHANGED <<legacy, canonical, archived, evidence, kept, route, imported, missed, reopens>>

(* The keys are read after the scan, the checks are about the scan.        *)
TransitionAdopts ==
  /\ tool.phase = "adopt"
  /\ evidence' = IF ClosedOn(legacy) = {} THEN evidence
                 ELSE [evidence EXCEPT !.ids = Adopted, !.keys = ClosedOn(legacy)]
  /\ tool' = IF Preflight(tool, Adopted) /\ SameAsRecorded(tool.cards)
             THEN [tool EXCEPT !.phase = "read", !.ids = Adopted, !.keys = ClosedOn(legacy)]
             ELSE Idle
  /\ UNCHANGED <<legacy, canonical, archived, kept, route, imported, missed, reopens>>

(* After two CLI calls the carry reads the keys once more.                 *)
TransitionReads ==
  /\ tool.phase = "read"
  /\ tool' = [tool EXCEPT !.phase = "carry", !.todo = ClosedOn(legacy)]
  /\ missed' = OpenOn(legacy)
  /\ UNCHANGED <<legacy, canonical, archived, evidence, kept, route, imported, reopens>>

CarryCreates(i) ==
  /\ tool.phase = "carry" /\ i \in tool.todo
  /\ IF canonical.rows[i] \in {"none", "purging"}
     THEN /\ canonical' = WithRow(i, "held")
          /\ evidence' = [evidence EXCEPT !.ids[i] = Outdated(@)]
     ELSE UNCHANGED <<canonical, evidence>>
  /\ tool' = [tool EXCEPT !.phase = "complete", !.issue = i]
  /\ UNCHANGED <<legacy, archived, kept, route, imported, missed, reopens>>

CarryCompletes ==
  /\ tool.phase = "complete"
  /\ canonical' = [canonical EXCEPT
       !.rows[tool.issue] = IF @ = "held" THEN "anchor" ELSE @]
  /\ Step("checkpoint")
  /\ UNCHANGED <<legacy, archived, evidence, kept, route, imported, missed, reopens>>

CarryCheckpoints ==
  /\ tool.phase = "checkpoint"
  /\ \E ids \in {[tool.ids EXCEPT ![tool.issue] = "current"]} :
       /\ Save([evidence EXCEPT !.ids = ids, !.keys = tool.keys])
       /\ tool' = [tool EXCEPT !.phase = "carry", !.ids = ids,
                               !.todo = @ \ {tool.issue}, !.issue = NoIssue]
  /\ UNCHANGED <<legacy, canonical, archived, kept, route, imported, missed, reopens>>

(* Wrong on purpose: the legacy board may leave before every anchor is     *)
(* carried.                                                                *)
WrongTransitionRescans ==
  /\ tool.phase = "carry" /\ Preflight(legacy, tool.ids)
  /\ Step("archive")
  /\ UNCHANGED <<legacy, canonical, archived, evidence, kept, route, imported, missed, reopens>>

(* The second look compares the numbers of cards and of open cards with    *)
(* those of the scan, not the keys; then the ids are saved once more.      *)
TransitionRescans ==
  /\ tool.phase = "carry" /\ tool.todo = {}
  /\ Preflight(legacy, tool.ids)
  /\ Cardinality(CardsOf(legacy)) = Cardinality(CardsOf(tool))
  /\ Save([evidence EXCEPT !.ids = tool.ids, !.keys = tool.keys])
  /\ Step("archive")
  /\ UNCHANGED <<legacy, canonical, archived, kept, route, imported, missed, reopens>>

TransitionArchives ==
  /\ tool.phase = "archive" /\ Len(archived) < MaxArchives
  /\ archived' = Append(archived, LegacyContent)
  /\ legacy' = [at |-> "absent", cards |-> NoRows, whole |-> FALSE]
  /\ Step("finish")
  /\ UNCHANGED <<canonical, evidence, kept, route, imported, missed, reopens>>

TransitionRecords ==
  /\ tool.phase = "finish"
  /\ Save([evidence EXCEPT !.stage = "transitioned"])
  /\ tool' = Idle
  /\ UNCHANGED <<legacy, canonical, archived, kept, route, imported, missed, reopens>>

(* postcheck changes nothing; this is when it answers that all is well.    *)
Postcheck ==
  /\ ScanWorks /\ evidence.stage = "transitioned" /\ canonical.live
  /\ ~LegacyLive
  /\ evidence.legacy => \E n \in DOMAIN archived : archived[n] = evidence.sums

(* rollback: every check first, then restore, purge, remove, revert.       *)
Recorded == {i \in Issues : evidence.ids[i] # "none"}
Candidate == evidence.legacy =>
               kept \/ (Len(archived) = 1 /\ archived[1] = evidence.sums)
KeysKnown == evidence.keys \subseteq
               Recorded \union (IF evidence.legacy THEN ClosedOn(evidence.sums) ELSE {})
Verified(i) == /\ evidence.ids[i] = "current"
               /\ canonical.rows[i] # "none"

RollbackAllowed ==
  /\ ScanWorks /\ evidence.stage # "none"
  /\ Candidate /\ KeysKnown
  /\ canonical.live => /\ \A i \in Recorded : Verified(i)
                       /\ Foreign(evidence.ids) = {}

RollbackBegins ==
  /\ LeaseFree /\ RollbackAllowed
  /\ tool' = [Idle EXCEPT
       !.phase = IF evidence.legacy /\ legacy.at = "absent" THEN "restore" ELSE "purge",
       !.todo = IF canonical.live THEN Recorded ELSE {}]
  /\ UNCHANGED <<legacy, canonical, archived, evidence, kept, route, imported, missed, reopens>>

(* The copy fills a new directory file by file: the database may be absent *)
(* or be there before the rest.                                            *)
RollbackRestores ==
  /\ tool.phase = "restore"
  /\ legacy' \in {[at |-> "noDb", cards |-> NoRows, whole |-> FALSE],
                   [at |-> "live", cards |-> evidence.sums.cards, whole |-> FALSE]}
  /\ Step("fill")
  /\ UNCHANGED <<canonical, archived, evidence, kept, route, imported, missed, reopens>>

RollbackFills ==
  /\ tool.phase = "fill"
  /\ legacy' = [at |-> "live", whole |-> evidence.sums.whole,
                cards |-> IF LegacyLive THEN legacy.cards ELSE evidence.sums.cards]
  /\ Step("purge")
  /\ UNCHANGED <<canonical, archived, evidence, kept, route, imported, missed, reopens>>

(* Two calls per anchor: archive the row, then delete it.                  *)
RollbackPurges(i) ==
  /\ tool.phase = "purge" /\ i \in tool.todo
  /\ IF canonical.rows[i] # "purging"
     THEN /\ canonical' = [canonical EXCEPT !.rows[i] = "purging"]
          /\ UNCHANGED <<tool, evidence>>
     ELSE /\ canonical' = [canonical EXCEPT !.rows[i] = "none"]
          /\ tool' = [tool EXCEPT !.todo = @ \ {i}]
          /\ evidence' = [evidence EXCEPT !.ids[i] = Outdated(@)]
  /\ UNCHANGED <<legacy, archived, kept, route, imported, missed, reopens>>

RollbackDrops ==
  /\ tool.phase = "purge" /\ tool.todo = {}
  /\ canonical' = [live |-> FALSE, rows |-> NoRows, old |-> {}]
  /\ Step("revert")
  /\ UNCHANGED <<legacy, archived, evidence, kept, route, imported, missed, reopens>>

RollbackReverts ==
  /\ tool.phase = "revert"
  /\ Save([evidence EXCEPT !.stage = "migrated", !.ids = NoIds, !.keys = {}])
  /\ tool' = Idle
  /\ UNCHANGED <<legacy, canonical, archived, kept, route, imported, missed, reopens>>

-----------------------------------------------------------------------------
Intake == Resolve \/ Bootstrap \/ IntakeEnds \/ \E i \in Issues : CreateCard(i)

Migrate == \/ MigrateBegins \/ MigrateProvisions \/ MigrateCopies
           \/ MigrateVerifies \/ MigrateRecords

Transition == \/ TransitionBegins \/ TransitionAdopts \/ TransitionReads
              \/ TransitionRescans \/ TransitionArchives \/ TransitionRecords
              \/ CarryCompletes \/ CarryCheckpoints
              \/ \E i \in Issues : CarryCreates(i)

Rollback == \/ RollbackBegins \/ RollbackRestores \/ RollbackFills
            \/ RollbackDrops \/ RollbackReverts
            \/ \E i \in Issues : RollbackPurges(i)

Next == \/ Intake \/ Migrate \/ Transition \/ Rollback \/ StageFails
        \/ BackupPruned \/ \E i \in Issues : CardMoves(i)

Spec == Init /\ [][Next]_vars

-----------------------------------------------------------------------------
(* Whenever the intake may write and the registry gives it a board, that   *)
(* board already knows every Issue a work card was ever created for, so a  *)
(* run that reads the registry now creates no second card: the anchors are *)
(* complete before the legacy board leaves, also after a stage that died.  *)
(* Two exceptions: once migrate has overwritten the evidence of a board    *)
(* that was already archived, rollback restores nothing; and a card that   *)
(* was open at the one moment the carry read the keys has no anchor.       *)
Knows(board, i) ==
  \/ board = "legacy" /\ legacy.cards[i] # "none"
  \/ board = "canonical" /\ canonical.rows[i] \in {"held", "anchor", "card"}

RouteKnowsImported ==
  LeaseFree /\ (evidence.stage = "none" \/ evidence.legacy) =>
    /\ Route # "none" /\ Route # "canonical" => \A i \in imported : Knows(Route, i)
    /\ Route = "canonical" => \A i \in imported \ missed : Knows(Route, i)

(* Rollback deletes rows and removes the whole board after it has looked,  *)
(* and takes any row with a recorded key for an anchor; still it never     *)
(* removes a card that is the only trace of its Issue.  (A second card,    *)
(* made through a route resolved before the last rollback, can be taken    *)
(* for an anchor and removed.)                                             *)
OnlyTrace(i) ==
  /\ canonical.rows[i] = "card"
  /\ \A c \in {legacy, evidence.sums} \union {archived[n] : n \in DOMAIN archived} :
        c.cards[i] = "none"
OnlyTraceKept ==
  [][\A i \in Issues : OnlyTrace(i) => canonical'.rows[i] = "card"]_vars

(* When postcheck says that all is well, an exact copy of what migrate     *)
(* recorded is archived and the canonical board knows every imported Issue.*)
PostcheckIsSound ==
  LeaseFree /\ Postcheck /\ evidence.legacy =>
    \A i \in imported \ missed : Knows("canonical", i)

(* "The second scan also catches an out-of-band writer and refuses to      *)
(* archive a board whose task/provenance set changed during the handoff"   *)
(* (board_identity_migration.py:1176-1178).  It does not catch one that    *)
(* has put the card back: reopened before the carry read the keys, closed  *)
(* again before the second scan, it leaves with the legacy board without   *)
(* an anchor.                                                              *)
HandoffCatchesWriters ==
  [][TransitionArchives => \A i \in CardsOf(legacy) : Knows("canonical", i)]_vars

(* "Reversible and repeat-safe" (docs/BOARD_IDENTITY_MIGRATION.md:89): a   *)
(* rollback that has ended leaves the legacy board live and whole.         *)
RollbackRestoresLegacy ==
  [][RollbackReverts => LegacyLive /\ legacy.whole]_vars
=============================================================================
