---------------------------- MODULE BoardsProofs ----------------------------
(***************************************************************************)
(* Proofs about the creation of cards and the cutover of a board,          *)
(* CardCreation and BoardMigration, for any cards, sessions, searches,     *)
(* keys, budgets and Issues.  MCBoards, which this module extends, has the *)
(* names of both.                                                          *)
(***************************************************************************)
EXTENDS MCBoards, Sequences, FiniteSetTheorems, TLAPS

-----------------------------------------------------------------------------
(* The inductive invariant of the creation of cards                         *)

Entries == [root : Mains, search : Searches, budget : Nat]
CandidateEvents == [root : Mains, search : Searches, id : Candidates,
                    key : CandidateKeys, tokens : Nat, retries : Nat]
SelectorEvents == [root : Mains, search : Searches, key : SelectorKeys,
                   state : {"pending", "closed"}, named : SUBSET CandidateKeys]
Wants == [kind : {"candidate", "selector", "plain"}, key : Keys, parents : SUBSET (Mains \union CandidateKeys)]

CreationTypes ==
    /\ opened \subseteq Entries /\ candidates \subseteq CandidateEvents
    /\ selectors \subseteq SelectorEvents
    /\ cards = [k \in Keys |-> cards[k]]
    /\ \A k \in Keys : Exists(k) =>
          cards[k] = [kind |-> cards[k].kind, below |-> cards[k].below,
                      parents |-> cards[k].parents, status |-> cards[k].status]
    /\ hook \in [Sessions -> {Idle} \union [at : {"admitted"}, card : Wants]]

\* A search has one event for each of its candidates, under a key of its own.
CandidatesDiffer ==
    \A d, e \in candidates :
        d.root = e.root /\ d.search = e.search /\ (d.id = e.id \/ d.key = e.key) => d = e

\* What a hook let through is on the ledger.
OnLedger(kind, key, parents) ==
    /\ kind = "candidate" => \E e \in candidates : e.key = key
    /\ kind = "selector" => \E e \in selectors : e.key = key /\ e.named = parents

AdmittedIsRecorded ==
    \A s \in Sessions : hook[s] # Idle =>
        OnLedger(hook[s].card.kind, hook[s].card.key, hook[s].card.parents)

CreationInv ==
    /\ CreationTypes /\ CandidatesDiffer /\ AdmittedIsRecorded
    /\ OneSearchPerRoot /\ ChoiceIsBound /\ LedgerPrecedesCard

-----------------------------------------------------------------------------
(* The inductive invariant of the cutover                                   *)

Ids == {"none", "current", "stale"}
Stages == {"none", "migrated", "transitioned"}

Legacies == [at : {"live", "noDb", "absent"}, cards : [Issues -> M!CardStates], whole : BOOLEAN]
Canonicals == [live : BOOLEAN, rows : [Issues -> M!Rows], old : SUBSET Issues]
Evidences == [stage : Stages, legacy : BOOLEAN, sums : M!Content,
              count : Nat, ids : [Issues -> Ids], keys : SUBSET Issues]
Tools == [phase : {"idle", "provision", "copy", "verify", "record", "adopt", "read", "carry",
                   "complete", "checkpoint", "archive", "finish", "restore", "fill", "purge", "revert"},
          cards : [Issues -> M!CardStates], ids : [Issues -> Ids], keys : SUBSET Issues,
          todo : SUBSET Issues, issue : Issues \union {NoIssue}]

CutoverTypes ==
    /\ legacy \in Legacies /\ canonical \in Canonicals /\ archived \in Seq(M!Content)
    /\ evidence \in Evidences /\ tool \in Tools
    /\ imported \subseteq Issues /\ missed \subseteq Issues
    /\ ~canonical.live => canonical.rows = M!NoRows

\* The cards on the legacy board, those it had when it was archived, and those on record.
Now == M!CardsOf(legacy)
Then == {i \in Issues : \E n \in DOMAIN archived : archived[n].cards[i] # "none"}
Sums == M!CardsOf(evidence.sums)

\* The Issues whose newest row on the canonical board keeps the intake from a second card.
Known == {i \in Issues : canonical.rows[i] \in {"held", "anchor", "card"}}

Live == legacy.at = "live"

\* A live legacy board has cards, and every card an archived one had; another has none.
LegacyKeepsCards ==
    IF Live THEN Now # {} /\ Then \subseteq Now ELSE Now = {}

\* The evidence of a legacy board is about the cards that it has, or had.
EvidenceIsKept ==
    /\ evidence.legacy =>
         /\ evidence.stage # "none" /\ Sums # {} /\ evidence.count = Cardinality(Sums)
         /\ IF Live THEN Sums \subseteq Now ELSE Then \subseteq Sums
    /\ ~evidence.legacy => legacy.at = IF evidence.stage = "none" THEN "live" ELSE "absent"

\* Whatever a stage takes for an anchor, or is carrying, was a card of the legacy board.
AnchorsAreTraced ==
    /\ \A i \in Issues : evidence.ids[i] # "none" \/ tool.ids[i] # "none" => i \in Now \union Then
    /\ tool.phase \in {"carry", "complete", "checkpoint"} => tool.todo \subseteq Now

\* An imported Issue is on one of the boards, and on the canonical one as a row that counts
\* once the legacy board has left, unless the carry missed it: then it is on record.
ImportedIsKnown ==
    /\ Live => imported \subseteq Now \union M!RowsOf /\ missed \subseteq Now
    /\ ~Live /\ evidence.legacy =>
         canonical.live /\ imported \ missed \subseteq Known /\ missed \subseteq Sums

\* What each stage has seen to when it is where it is.
StageIsReady ==
    /\ tool.phase \in {"provision", "copy", "verify", "record"} =>
         IF tool.cards = M!NoRows THEN legacy.at = "absent" /\ tool.phase \in {"provision", "record"}
         ELSE Live /\ M!CardsOf(tool) = Now /\ (tool.phase \in {"verify", "record"} => tool.todo = Now)
    /\ tool.phase = "adopt" => Live /\ canonical.live /\ M!CardsOf(tool) = Now
    /\ tool.phase \in {"read", "carry", "complete", "checkpoint", "archive"} =>
         Live /\ evidence.legacy /\ canonical.live /\ Now = Sums
    /\ tool.phase \in {"carry", "complete", "checkpoint"} =>
         Now \ (missed \union tool.todo) \subseteq Known
    /\ tool.phase \in {"complete", "checkpoint"} => tool.issue \in Known /\ tool.issue \in tool.todo
    /\ tool.phase = "archive" => imported \ missed \subseteq Known
    /\ tool.phase = "finish" => ~Live /\ evidence.legacy
    /\ tool.phase \in {"restore", "fill", "purge", "revert"} => evidence.stage # "none"
    /\ tool.phase = "restore" => evidence.legacy /\ legacy.at = "absent"
    /\ tool.phase = "fill" => evidence.legacy
    /\ tool.phase \in {"purge", "revert"} /\ evidence.legacy => Live /\ imported \subseteq Now

\* The rows a rollback does not come across are gone.
PurgeCoversRows ==
    tool.phase \in {"restore", "fill", "purge"} =>
        /\ tool.todo \subseteq Now \union Then
        /\ M!RowsOf \subseteq tool.todo
        /\ tool.todo # {} => canonical.live

CutoverInv ==
    /\ CutoverTypes /\ LegacyKeepsCards /\ EvidenceIsKept /\ AnchorsAreTraced
    /\ ImportedIsKnown /\ StageIsReady /\ PurgeCoversRows

-----------------------------------------------------------------------------
(* What a call brings to the ledger                                         *)

\* The candidates admitted before a new one are others, and their search is open (CandidateFits).
LEMMA FitsProperties ==
    ASSUME NEW r, CandidateFits(r)
    PROVE  ~Closed(r) /\ \A e \in Of(candidates, r) : e.id # r.id /\ e.key # r.key
BY DEF CandidateFits

\* The calls that the structured path admits.
LEMMA CallProperties ==
    ASSUME NEW c \in Mains
    PROVE  /\ \A r \in CandidateCalls(c) :
                 /\ r.kind = "candidate" /\ r.root \in Mains /\ r.search \in Searches
                 /\ r.id \in Candidates /\ r.key \in CandidateKeys /\ r.budget \in Nat
                 /\ r.parents \subseteq Mains
           /\ \A r \in SelectorCalls :
                 /\ r.kind = "selector" /\ r.root \in Mains /\ r.search \in Searches
                 /\ r.key \in SelectorKeys /\ r.budget \in Nat
                 /\ r.mode \in {"awaiting", "single", "pair", "expanded"} /\ r.parents \in Named(r.mode)
                 /\ r.parents \subseteq CandidateKeys
           /\ \A r \in PlainCalls : r.kind = "plain" /\ r.key \in CandidateKeys /\ r.parents = {}
<1>1. \A x \in Searches : Budgets[x] \subseteq Nat
  BY CreationAssumption
<1>2. \A mode : \A T \in Named(mode) : T \subseteq CandidateKeys
  BY DEF Named
<1>3. ASSUME NEW r \in CandidateCalls(c)
      PROVE  /\ r.kind = "candidate" /\ r.root \in Mains /\ r.search \in Searches
             /\ r.id \in Candidates /\ r.key \in CandidateKeys /\ r.budget \in Nat
             /\ r.parents \subseteq Mains
  <2>1. PICK x \in Searches :
           r \in [kind : {"candidate"}, root : Mains, search : {x}, id : Candidates,
                  key : CandidateKeys, budget : Budgets[x], parents : {{c}}]
    BY <1>3 DEF CandidateCalls
  <2>2. QED
    BY <1>1, <2>1
<1>4. ASSUME NEW r \in SelectorCalls
      PROVE  /\ r.kind = "selector" /\ r.root \in Mains /\ r.search \in Searches
             /\ r.key \in SelectorKeys /\ r.budget \in Nat
             /\ r.mode \in {"awaiting", "single", "pair", "expanded"} /\ r.parents \in Named(r.mode)
             /\ r.parents \subseteq CandidateKeys
  <2>1. PICK x \in Searches, mode \in {"awaiting", "single", "pair", "expanded"} :
           r \in [kind : {"selector"}, root : Mains, search : {x}, key : SelectorKeys,
                  budget : Budgets[x], mode : {mode}, parents : Named(mode)]
    <3> DEFINE Calls(x, mode) == [kind : {"selector"}, root : Mains, search : {x}, key : SelectorKeys,
                                  budget : Budgets[x], mode : {mode}, parents : Named(mode)]
    <3>1. r \in UNION {Calls(x, mode) : x \in Searches, mode \in {"awaiting", "single", "pair", "expanded"}}
      BY <1>4 DEF SelectorCalls
    <3> HIDE DEF Calls
    <3>2. \E x \in Searches, mode \in {"awaiting", "single", "pair", "expanded"} : r \in Calls(x, mode)
      BY <3>1
    <3>3. QED
      BY <3>2 DEF Calls
  <2>2. QED
    BY <1>1, <1>2, <2>1
<1>5. QED
  BY <1>3, <1>4 DEF PlainCalls

\* A set of two of two things is both of them.
LEMMA PairIsAll ==
    ASSUME NEW a, NEW b, NEW T, T \subseteq {a, b}, Cardinality(T) = 2
    PROVE  T = {a, b}
<1>1. Cardinality({a}) = 1 /\ Cardinality({b}) = 1 /\ Cardinality({}) = 0
  BY FS_Singleton, FS_EmptySet
<1>2. T = {} \/ T = {a} \/ T = {b} \/ T = {a, b}
  OBVIOUS
<1>3. QED
  BY <1>1, <1>2

-----------------------------------------------------------------------------
(* The steps of a hook                                                      *)

\* A ledger that has grown still has what it had, and a closed search stays closed.
LEMMA LedgerGrows ==
    ASSUME candidates \subseteq candidates', selectors \subseteq selectors'
    PROVE  /\ \A r : Closed(r) => Closed(r)'
           /\ \A kind, key, parents : OnLedger(kind, key, parents) => OnLedger(kind, key, parents)'
<1>1. ASSUME NEW r, Closed(r)
      PROVE  Closed(r)'
  BY <1>1 DEF Closed, Of
<1>2. ASSUME NEW kind, NEW key, NEW parents, OnLedger(kind, key, parents)
      PROVE  OnLedger(kind, key, parents)'
  BY <1>2 DEF OnLedger
<1>3. QED
  BY <1>1, <1>2

\* What an admission has to show.
LEMMA AdmissionKeeps ==
    ASSUME CreationInv, NEW s \in Sessions, NEW r, Wanted(r) \in Wants, Pass(s, r), UNCHANGED cards,
           opened' \subseteq Entries, candidates' \subseteq CandidateEvents, selectors' \subseteq SelectorEvents,
           candidates \subseteq candidates', selectors \subseteq selectors',
           OnLedger(r.kind, r.key, r.parents)',
           CandidatesDiffer', OneSearchPerRoot', ChoiceIsBound'
    PROVE  CreationInv'
<1>1. hook \in [Sessions -> {Idle} \union [at : {"admitted"}, card : Wants]]
  BY DEF CreationInv, CreationTypes
<1>2. /\ hook' \in [Sessions -> {Idle} \union [at : {"admitted"}, card : Wants]]
      /\ hook'[s].card = [kind |-> r.kind, key |-> r.key, parents |-> r.parents]
      /\ \A t \in Sessions : t # s => hook'[t] = hook[t]
  BY <1>1 DEF Pass, Wanted
<1>3. CreationTypes'
  BY <1>2 DEF CreationInv, CreationTypes, Exists
<1>4. AdmittedIsRecorded'
  <2>1. ASSUME NEW t \in Sessions, hook'[t] # Idle
        PROVE  OnLedger(hook[t].card.kind, hook[t].card.key, hook[t].card.parents)'
    <3>1. PICK kind, key, parents :
             kind = hook'[t].card.kind /\ key = hook'[t].card.key /\ parents = hook'[t].card.parents
      OBVIOUS
    <3>2. OnLedger(kind, key, parents)'
      <4>1. CASE t = s
        BY <1>2, <3>1, <4>1 DEF OnLedger
      <4>2. CASE t # s
        <5>1. OnLedger(kind, key, parents)
          BY <1>2, <2>1, <3>1, <4>2 DEF CreationInv, AdmittedIsRecorded
        <5>2. QED
          BY <5>1, LedgerGrows
      <4>3. QED
        BY <4>1, <4>2
    <3>3. QED
      BY <3>1, <3>2 DEF OnLedger
  <2>2. QED
    BY <2>1 DEF AdmittedIsRecorded
<1>5. LedgerPrecedesCard'
  BY DEF CreationInv, LedgerPrecedesCard
<1>6. QED
  BY <1>3, <1>4, <1>5 DEF CreationInv

\* A candidate that is admitted (_search_admit, the candidate branch).
LEMMA CandidateStep ==
    ASSUME CreationInv, NEW s \in Sessions, AdmitCandidate(s)
    PROVE  CreationInv'
<1> DEFINE c == CardOf[s]
<1>1. c \in Mains
  BY CreationAssumption
<1>2. PICK r \in CandidateCalls(c) :
         /\ MayEnter(c, r) /\ Pass(s, r)
         /\ \/ CandidateReplayed(r) /\ UNCHANGED ledger
            \/ /\ CandidateFits(r)
               /\ opened' = opened \union {Entry(r)}
               /\ candidates' = candidates \union {CandidateEvent(r)}
               /\ UNCHANGED selectors
  BY DEF AdmitCandidate
<1> HIDE DEF c
<1>3. /\ r.kind = "candidate" /\ r.root \in Mains /\ r.search \in Searches
      /\ r.id \in Candidates /\ r.key \in CandidateKeys /\ r.budget \in Nat /\ r.parents \subseteq Mains
  BY <1>1, <1>2, CallProperties
<1>4. Wanted(r) \in Wants
  BY <1>3 DEF Wanted, Wants, Keys
<1>5. UNCHANGED cards
  BY DEF AdmitCandidate
<1>6. /\ opened \subseteq Entries /\ candidates \subseteq CandidateEvents
      /\ selectors \subseteq SelectorEvents
  BY DEF CreationInv, CreationTypes
<1>7. CASE CandidateReplayed(r) /\ UNCHANGED ledger
  <2>1. OnLedger(r.kind, r.key, r.parents)'
    BY <1>3, <1>7 DEF CandidateReplayed, OnLedger, Of, ledger
  <2>2. CandidatesDiffer' /\ OneSearchPerRoot' /\ ChoiceIsBound'
    BY <1>5, <1>7 DEF CreationInv, CandidatesDiffer, OneSearchPerRoot, ChoiceIsBound, Closed, Of, ledger
  <2>3. QED
    BY <1>2, <1>4, <1>5, <1>6, <1>7, <2>1, <2>2, AdmissionKeeps DEF ledger
<1>8. CASE /\ CandidateFits(r)
           /\ opened' = opened \union {Entry(r)}
           /\ candidates' = candidates \union {CandidateEvent(r)}
           /\ UNCHANGED selectors
  <2>1. ~Closed(r) /\ \A e \in Of(candidates, r) : e.id # r.id /\ e.key # r.key
    BY <1>8, FitsProperties
  <2>2. PICK event \in CandidateEvents :
           /\ event = CandidateEvent(r) /\ event.root = r.root /\ event.search = r.search
           /\ event.id = r.id /\ event.key = r.key
    <3>1. Share(r.budget) \in Nat
      BY <1>3 DEF Share, MaxCandidates
    <3>2. PICK event : event = CandidateEvent(r)
      OBVIOUS
    <3>3. /\ event \in CandidateEvents /\ event.root = r.root /\ event.search = r.search
          /\ event.id = r.id /\ event.key = r.key
      BY <1>3, <3>1, <3>2 DEF CandidateEvent, CandidateEvents
    <3>4. QED
      BY <3>2, <3>3
  <2>3. PICK entry \in Entries :
           /\ entry = Entry(r) /\ entry.root = r.root /\ entry.search = r.search
           /\ entry.budget = r.budget
    <3>1. PICK entry : entry = Entry(r)
      OBVIOUS
    <3>2. /\ entry \in Entries /\ entry.root = r.root /\ entry.search = r.search
          /\ entry.budget = r.budget
      BY <1>3, <3>1 DEF Entry, Entries
    <3>3. QED
      BY <3>1, <3>2
  <2>4. \A a : Closed(a)' <=> Closed(a)
    BY <1>8 DEF Closed, Of
  <2>5. CandidatesDiffer'
    BY <1>6, <1>8, <2>1, <2>2 DEF CreationInv, CandidatesDiffer, Of
  <2>6. OneSearchPerRoot'
    <3>1. CASE entry \in opened
      BY <1>8, <2>3, <2>4, <3>1 DEF CreationInv, OneSearchPerRoot
    <3>2. CASE entry \notin opened
      <4>1. /\ r.root \in Above[c] /\ Of(opened, r) = {}
            /\ \A a \in Active(c) : a.search = r.search
        <5>1. \A a \in Of(opened, r) : a.budget # r.budget
          BY <1>6, <2>3, <3>2 DEF Of, Entries
        <5>2. QED
          BY <1>2, <5>1 DEF MayEnter, Authorized
      <4>2. \A a \in opened : a.root = r.root => Closed(a)
        BY <4>1 DEF Active, Of
      <4>3. QED
        BY <1>8, <2>3, <2>4, <4>2 DEF CreationInv, OneSearchPerRoot
    <3>3. QED
      BY <3>1, <3>2
  <2>7. ChoiceIsBound'
    <3>1. ASSUME NEW e \in selectors, e.state = "closed"
          PROVE  Of(candidates, e)' = Of(candidates, e)
      <4>1. ~(event.root = e.root /\ event.search = e.search)
        BY <2>1, <2>2, <3>1 DEF Closed, Of
      <4>2. QED
        BY <1>8, <2>2, <4>1 DEF Of
    <3>2. QED
      BY <1>5, <1>8, <3>1 DEF CreationInv, ChoiceIsBound
  <2>8. OnLedger(r.kind, r.key, r.parents)'
    BY <1>3, <1>8, <2>2 DEF OnLedger
  <2>9. QED
    BY <1>2, <1>4, <1>5, <1>6, <1>8, <2>2, <2>3, <2>5, <2>6, <2>7, <2>8, AdmissionKeeps
<1>9. QED
  BY <1>2, <1>7, <1>8

\* A selector names all the candidates of the search it closes.
LEMMA SelectorNamesAll ==
    ASSUME CreationInv, NEW r \in SelectorCalls, SelectorFits(r), r.mode # "awaiting"
    PROVE  r.parents = {d.key : d \in Of(candidates, r)}
<1>1. /\ r.mode \in {"single", "pair", "expanded"} /\ r.parents \in Named(r.mode)
      /\ \A k \in r.parents : \E e \in Of(candidates, r) : e.key = k
      /\ {e.id : e \in Of(candidates, r)} = IF r.mode = "single" THEN {"A"} ELSE Candidates
  <2>1. \E c : c \in Mains
    BY DEF SelectorCalls
  <2>2. QED
    BY <2>1, CallProperties DEF SelectorFits, Bound
<1>2. \A d, e \in Of(candidates, r) : d.id = e.id => d = e
  BY DEF CreationInv, CandidatesDiffer, Of
<1>3. CASE r.mode = "single"
  <2>1. Cardinality(r.parents) = 1
    BY <1>1, <1>3 DEF Named
  <2>2. PICK d \in Of(candidates, r) : d.id = "A"
    BY <1>1, <1>3
  <2>3. \A e \in Of(candidates, r) : e = d
    BY <1>1, <1>2, <1>3, <2>2
  <2>4. r.parents \subseteq {d.key}
    BY <1>1, <2>3
  <2>5. r.parents # {}
    BY <2>1, FS_EmptySet
  <2>6. QED
    BY <2>2, <2>3, <2>4, <2>5
<1>4. CASE r.mode # "single"
  <2>1. Cardinality(r.parents) = 2
    BY <1>1, <1>4 DEF Named, MaxCandidates
  <2>2. PICK d \in Of(candidates, r), e \in Of(candidates, r) : d.id = "A" /\ e.id = "B"
    BY <1>1, <1>4 DEF Candidates
  <2>3. \A f \in Of(candidates, r) : f = d \/ f = e
    BY <1>1, <1>2, <1>4, <2>2 DEF Candidates
  <2>4. r.parents \subseteq {d.key, e.key}
    BY <1>1, <2>3
  <2>5. r.parents = {d.key, e.key}
    BY <2>1, <2>4, PairIsAll
  <2>6. QED
    BY <2>3, <2>5
<1>5. QED
  BY <1>3, <1>4

\* A selector that is admitted (_search_admit, the selector branch).
LEMMA SelectorStep ==
    ASSUME CreationInv, NEW s \in Sessions, AdmitSelector(s)
    PROVE  CreationInv'
<1>1. CardOf[s] \in Mains
  BY CreationAssumption
<1>2. PICK r \in SelectorCalls :
         /\ Pass(s, r)
         /\ \/ SelectorReplayed(r) /\ UNCHANGED selectors
            \/ SelectorFits(r) /\ selectors' = selectors \union {SelectorEvent(r)}
  BY DEF AdmitSelector
<1>3. /\ r.kind = "selector" /\ r.root \in Mains /\ r.search \in Searches /\ r.key \in SelectorKeys
      /\ r.parents \subseteq CandidateKeys /\ UNCHANGED <<opened, candidates, cards>>
  BY <1>1, <1>2, CallProperties DEF AdmitSelector
<1>4. Wanted(r) \in Wants
  BY <1>3 DEF Wanted, Wants, Keys
<1>5. /\ opened \subseteq Entries /\ candidates \subseteq CandidateEvents
      /\ selectors \subseteq SelectorEvents
  BY DEF CreationInv, CreationTypes
<1>6. PICK event \in SelectorEvents :
         /\ event = SelectorEvent(r) /\ event.root = r.root /\ event.search = r.search
         /\ event.key = r.key /\ event.named = r.parents
         /\ event.state = "closed" => r.mode # "awaiting"
  <2>1. PICK event : event = SelectorEvent(r)
    OBVIOUS
  <2>2. /\ event \in SelectorEvents /\ event.root = r.root /\ event.search = r.search
        /\ event.key = r.key /\ event.named = r.parents
        /\ event.state = "closed" => r.mode # "awaiting"
    BY <1>3, <2>1 DEF SelectorEvent, SelectorEvents
  <2>3. QED
    BY <2>1, <2>2
<1>7. event \in selectors' /\ selectors \subseteq selectors'
      /\ selectors' \subseteq selectors \union {event}
  BY <1>2, <1>6 DEF SelectorReplayed
<1>8. OnLedger(r.kind, r.key, r.parents)'
  BY <1>3, <1>6, <1>7 DEF OnLedger
<1>9. CandidatesDiffer'
  BY <1>3 DEF CreationInv, CandidatesDiffer
<1>10. OneSearchPerRoot'
  BY <1>3, <1>7, LedgerGrows DEF CreationInv, OneSearchPerRoot
<1>11. ChoiceIsBound'
  <2>1. ASSUME NEW e \in selectors', e \notin selectors, e.state = "closed"
        PROVE  /\ e.named = {d.key : d \in Of(candidates, e)}
               /\ \A k \in e.named : cards[k] # NoCard /\ e.root \in cards[k].below
    <3>1. e = event /\ SelectorFits(r) /\ r.mode # "awaiting"
      BY <1>2, <1>6, <1>7, <2>1
    <3>2. Of(candidates, e) = Of(candidates, r)
      BY <1>6, <3>1 DEF Of
    <3>3. e.named = {d.key : d \in Of(candidates, e)}
      BY <1>6, <3>1, <3>2, SelectorNamesAll
    <3>4. QED
      BY <1>6, <3>1, <3>3 DEF SelectorFits, Bound
  <2>2. \A e : Of(candidates, e)' = Of(candidates, e)
    BY <1>3 DEF Of
  <2>3. QED
    BY <1>3, <2>1, <2>2 DEF CreationInv, ChoiceIsBound
<1>12. QED
  BY <1>2, <1>3, <1>4, <1>5, <1>7, <1>8, <1>9, <1>10, <1>11, AdmissionKeeps

\* A call without the marker leaves the ledger alone.
LEMMA PlainStep ==
    ASSUME CreationInv, NEW s \in Sessions, AdmitPlain(s) \/ TerminalPlain(s)
    PROVE  CreationInv'
<1>1. PICK r \in PlainCalls : Pass(s, r)
  BY DEF AdmitPlain, TerminalPlain
<1>2. r.kind = "plain" /\ r.key \in CandidateKeys /\ r.parents = {}
  BY <1>1 DEF PlainCalls
<1>3. Wanted(r) \in Wants /\ OnLedger(r.kind, r.key, r.parents)'
  BY <1>2 DEF Wanted, Wants, Keys, OnLedger
<1>4. UNCHANGED <<opened, candidates, selectors, cards>>
  BY DEF AdmitPlain, TerminalPlain, ledger
<1>5. /\ opened' \subseteq Entries /\ candidates' \subseteq CandidateEvents
      /\ selectors' \subseteq SelectorEvents /\ CandidatesDiffer' /\ OneSearchPerRoot' /\ ChoiceIsBound'
  BY <1>4 DEF CreationInv, CreationTypes, CandidatesDiffer, OneSearchPerRoot, ChoiceIsBound, Closed, Of
<1>6. QED
  BY <1>1, <1>3, <1>4, <1>5, AdmissionKeeps

\* What a hook that lets go of its call has to show of the cards.
LEMMA CardsKeep ==
    ASSUME CreationInv, NEW s \in Sessions, Leave(s), UNCHANGED ledger,
           cards' = [k \in Keys |-> cards'[k]],
           \A k \in Keys : Exists(k)' =>
               cards'[k] = [kind |-> cards'[k].kind, below |-> cards'[k].below,
                            parents |-> cards'[k].parents, status |-> cards'[k].status],
           \A k \in Keys : Exists(k) =>
               /\ Exists(k)' /\ cards'[k].kind = cards[k].kind
               /\ cards'[k].below = cards[k].below /\ cards'[k].parents = cards[k].parents,
           \A k \in Keys : ~Exists(k) /\ Exists(k)' => OnLedger(cards'[k].kind, k, cards'[k].parents)
    PROVE  CreationInv'
<1>1. hook \in [Sessions -> {Idle} \union [at : {"admitted"}, card : Wants]]
  BY DEF CreationInv, CreationTypes
<1>2. /\ hook' \in [Sessions -> {Idle} \union [at : {"admitted"}, card : Wants]]
      /\ \A t \in Sessions : hook'[t] \in {Idle, hook[t]}
  BY <1>1 DEF Leave
<1>3. CreationTypes' /\ CandidatesDiffer' /\ OneSearchPerRoot'
  BY <1>2 DEF CreationInv, CreationTypes, CandidatesDiffer, OneSearchPerRoot, Closed, Of, ledger
<1>4. AdmittedIsRecorded'
  BY <1>2 DEF CreationInv, AdmittedIsRecorded, OnLedger, ledger
<1>5. ChoiceIsBound'
  <2>1. \A e \in selectors : e.named \subseteq Keys
    BY DEF CreationInv, CreationTypes, SelectorEvents, Keys
  <2>2. \A e : Of(candidates, e)' = Of(candidates, e)
    BY DEF Of, ledger
  <2>3. QED
    BY <2>1, <2>2 DEF CreationInv, ChoiceIsBound, Exists, ledger
<1>6. LedgerPrecedesCard'
  <2>1. ASSUME NEW k \in Keys
        PROVE  /\ cards'[k].kind = "candidate" => \E e \in candidates : e.key = k
               /\ cards'[k].kind = "selector" =>
                     \E e \in selectors : e.key = k /\ e.named = cards'[k].parents
    <3>1. CASE Exists(k)
      BY <3>1 DEF CreationInv, LedgerPrecedesCard
    <3>2. CASE ~Exists(k) /\ Exists(k)'
      BY <3>2 DEF OnLedger
    <3>3. CASE ~Exists(k)'
      BY <3>3 DEF Exists, NoCard
    <3>4. QED
      BY <3>1, <3>2, <3>3
  <2>2. QED
    BY <2>1 DEF LedgerPrecedesCard, ledger
<1>7. QED
  BY <1>3, <1>4, <1>5, <1>6 DEF CreationInv

\* The call is refused or materialised.
LEMMA CardStep ==
    ASSUME CreationInv, NEW s \in Sessions, Refuse(s) \/ Materialize(s)
    PROVE  CreationInv'
<1>1. /\ cards = [k \in Keys |-> cards[k]] /\ Leave(s) /\ UNCHANGED ledger
      /\ \A k \in Keys : Exists(k) =>
            cards[k] = [kind |-> cards[k].kind, below |-> cards[k].below,
                        parents |-> cards[k].parents, status |-> cards[k].status]
  BY DEF CreationInv, CreationTypes, Refuse, Materialize
<1>2. CASE UNCHANGED cards
  <2>1. \A k \in Keys : Exists(k)' <=> Exists(k)
    BY <1>2 DEF Exists
  <2>2. QED
    BY <1>1, <1>2, <2>1, CardsKeep
<1>3. CASE ~UNCHANGED cards
  <2>1. PICK r \in Wants : r = hook[s].card /\ OnLedger(r.kind, r.key, r.parents)
    <3>1. hook[s] # Idle /\ hook[s].card \in Wants
      BY <1>3 DEF CreationInv, CreationTypes, Refuse, Materialize, Idle
    <3>2. QED
      BY <3>1 DEF CreationInv, AdmittedIsRecorded
  <2>2. r.key \in Keys
    BY DEF Wants
  <2>3. CASE ~Exists(r.key) /\ cards' = [cards EXCEPT ![r.key] = Made(r)]
    <3>1. PICK made : made = Made(r)
      OBVIOUS
    <3>2. /\ made = [kind |-> r.kind, below |-> Below(r), parents |-> r.parents, status |-> "open"]
          /\ cards' = [k \in Keys |-> IF k = r.key THEN made ELSE cards[k]]
      BY <1>1, <2>3, <3>1 DEF Made
    <3>3. /\ made.kind = r.kind /\ made.parents = r.parents
          /\ made = [kind |-> made.kind, below |-> made.below,
                     parents |-> made.parents, status |-> made.status]
      BY <3>2
    <3>4. \A k \in Keys : k # r.key => cards'[k] = cards[k] /\ (Exists(k)' <=> Exists(k))
      BY <3>2 DEF Exists
    <3>5. cards'[r.key] = made
      BY <2>2, <3>2
    <3>6. \A k \in Keys : Exists(k) => k # r.key
      BY <2>3
    <3>7. \A k \in Keys : ~Exists(k) /\ Exists(k)' => OnLedger(cards'[k].kind, k, cards'[k].parents)
      BY <2>1, <3>3, <3>4, <3>5
    <3>8. \A k \in Keys : Exists(k)' =>
             cards'[k] = [kind |-> cards'[k].kind, below |-> cards'[k].below,
                          parents |-> cards'[k].parents, status |-> cards'[k].status]
      BY <1>1, <3>3, <3>4, <3>5
    <3>9. \A k \in Keys : Exists(k) =>
             /\ Exists(k)' /\ cards'[k].kind = cards[k].kind
             /\ cards'[k].below = cards[k].below /\ cards'[k].parents = cards[k].parents
      BY <3>4, <3>6
    <3>10. cards' = [k \in Keys |-> cards'[k]]
      BY <3>2
    <3>11. QED
      BY <1>1, <3>7, <3>8, <3>9, <3>10, CardsKeep
  <2>4. CASE Exists(r.key) /\ cards' = [cards EXCEPT ![r.key].status = "blocked"]
    <3>1. PICK blocked : blocked = [cards[r.key] EXCEPT !.status = "blocked"]
      OBVIOUS
    <3>2. cards' = [k \in Keys |-> IF k = r.key THEN blocked ELSE cards[k]]
      BY <1>1, <2>4, <3>1
    <3>3. /\ blocked.kind = cards[r.key].kind /\ blocked.below = cards[r.key].below
          /\ blocked.parents = cards[r.key].parents
          /\ blocked = [kind |-> blocked.kind, below |-> blocked.below,
                        parents |-> blocked.parents, status |-> blocked.status]
      BY <1>1, <2>2, <2>4, <3>1
    <3>4. blocked # NoCard
      BY <3>3 DEF NoCard
    <3>5. \A k \in Keys : k # r.key => cards'[k] = cards[k] /\ (Exists(k)' <=> Exists(k))
      BY <3>2 DEF Exists
    <3>6. cards'[r.key] = blocked /\ Exists(r.key)'
      BY <2>2, <3>2, <3>4 DEF Exists
    <3>7. \A k \in Keys : Exists(k)' =>
             cards'[k] = [kind |-> cards'[k].kind, below |-> cards'[k].below,
                          parents |-> cards'[k].parents, status |-> cards'[k].status]
      BY <1>1, <3>3, <3>5, <3>6
    <3>8. \A k \in Keys : Exists(k) =>
             /\ Exists(k)' /\ cards'[k].kind = cards[k].kind
             /\ cards'[k].below = cards[k].below /\ cards'[k].parents = cards[k].parents
      BY <3>3, <3>5, <3>6
    <3>9. \A k \in Keys : ~(~Exists(k) /\ Exists(k)')
      BY <2>4, <3>5
    <3>10. cards' = [k \in Keys |-> cards'[k]]
      BY <3>2
    <3>11. QED
      BY <1>1, <3>7, <3>8, <3>9, <3>10, CardsKeep
  <2>5. QED
    BY <1>3, <2>1, <2>3, <2>4 DEF Refuse, Materialize, Quarantine
<1>4. QED
  BY <1>2, <1>3

\* Every step of a session keeps the invariant.
LEMMA CreationStep ==
    ASSUME CreationInv, [Next]_vars
    PROVE  CreationInv'
<1>1. CASE UNCHANGED vars
  BY <1>1 DEF vars, CreationInv, CreationTypes, CandidatesDiffer, AdmittedIsRecorded, OnLedger,
              OneSearchPerRoot, ChoiceIsBound, LedgerPrecedesCard, Closed, Of, Exists
<1>2. QED
  BY <1>1, CandidateStep, SelectorStep, PlainStep, CardStep DEF Next

\* The ledger and the board begin empty.
LEMMA CreationInitially == Init => CreationInv
<1> SUFFICES ASSUME Init  PROVE CreationInv
  OBVIOUS
<1>1. CreationTypes /\ CandidatesDiffer /\ AdmittedIsRecorded
  BY DEF Init, CreationTypes, CandidatesDiffer, AdmittedIsRecorded, Exists
<1>2. OneSearchPerRoot /\ ChoiceIsBound /\ LedgerPrecedesCard
  BY DEF Init, OneSearchPerRoot, ChoiceIsBound, LedgerPrecedesCard, NoCard
<1>3. QED
  BY <1>1, <1>2 DEF CreationInv

\* A root has one search at a time, a search is closed over all the candidates it will ever
\* have, each of them a card below the root, and no card made for a search is missing from its
\* ledger, whichever sessions ask and whatever their hooks leave undone (_search_admit).
THEOREM CreationLedgerIsSound == Spec => []LedgerIsSound
<1>1. CreationInv => LedgerIsSound
  BY DEF CreationInv, LedgerIsSound
<1>2. QED
  BY <1>1, CreationInitially, CreationStep, PTL DEF Spec

-----------------------------------------------------------------------------
(* A search that is under way can come to its end                           *)

\* What a search has on record: it is opened once, with a candidate, under a budget that its
\* calls may declare; each of its candidates has its share of that budget and one retry; at most
\* one selector waits for B.
SearchesAreFunded ==
    /\ \A a \in opened : a.budget \in Budgets[a.search] /\ Of(candidates, a) # {}
    /\ \A a, b \in opened : a.root = b.root /\ a.search = b.search => a = b
    /\ \A e \in candidates : \E a \in Of(opened, e) : e.tokens = Share(a.budget) /\ e.retries = 1
    /\ \A d, e \in selectors :
          d.root = e.root /\ d.search = e.search /\ d.state = "pending" /\ e.state = "pending" => d = e

\* The budget of a call is one that the calls of its search may declare.
LEMMA BudgetProperties ==
    ASSUME NEW c, NEW r \in CandidateCalls(c)
    PROVE  r.budget \in Budgets[r.search]
<1>1. PICK x \in Searches :
         r \in [kind : {"candidate"}, root : Mains, search : {x}, id : Candidates,
                key : CandidateKeys, budget : Budgets[x], parents : {{c}}]
  BY DEF CandidateCalls
<1>2. QED
  BY <1>1

\* A candidate is admitted under the budget of its search.
LEMMA FundedByCandidate ==
    ASSUME CreationInv, SearchesAreFunded, NEW s \in Sessions, AdmitCandidate(s)
    PROVE  SearchesAreFunded'
<1>1. CardOf[s] \in Mains
  BY CreationAssumption
<1>2. PICK r \in CandidateCalls(CardOf[s]) :
         /\ MayEnter(CardOf[s], r)
         /\ \/ UNCHANGED ledger
            \/ /\ CandidateFits(r)
               /\ opened' = opened \union {Entry(r)}
               /\ candidates' = candidates \union {CandidateEvent(r)}
               /\ UNCHANGED selectors
  BY DEF AdmitCandidate
<1>3. r.budget \in Budgets[r.search]
  BY <1>2, BudgetProperties
<1>4. CASE UNCHANGED ledger
  BY <1>4 DEF SearchesAreFunded, Of, ledger
<1>5. CASE /\ opened' = opened \union {Entry(r)}
           /\ candidates' = candidates \union {CandidateEvent(r)}
           /\ UNCHANGED selectors
  <2>1. PICK entry : /\ entry = Entry(r) /\ entry.root = r.root /\ entry.search = r.search
                     /\ entry.budget = r.budget
    <3>1. PICK entry : entry = Entry(r)
      OBVIOUS
    <3>2. QED
      BY <3>1 DEF Entry
  <2>2. PICK event : /\ event = CandidateEvent(r) /\ event.root = r.root /\ event.search = r.search
                     /\ event.tokens = Share(r.budget) /\ event.retries = 1
    <3>1. PICK event : event = CandidateEvent(r)
      OBVIOUS
    <3>2. QED
      BY <3>1 DEF CandidateEvent
  <2>3. opened' = opened \union {entry} /\ candidates' = candidates \union {event}
    BY <1>5, <2>1, <2>2
  <2>4. entry \in opened \/ Of(opened, r) = {}
    <3>1. CASE Of(opened, r) = {}
      BY <3>1
    <3>2. CASE \E a \in Of(opened, r) : a.budget = r.budget
      <4>1. PICK a \in Of(opened, r) : a.budget = r.budget
        BY <3>2
      <4>2. a \in Entries /\ entry \in Entries
        <5>1. a \in Entries
          BY <4>1 DEF CreationInv, CreationTypes, Of
        <5>2. entry \in Entries
          BY <5>1, <4>1, <2>1 DEF Entry, Entries, Of
        <5>3. QED
          BY <5>1, <5>2
      <4>3. a = entry
        BY <2>1, <4>1, <4>2 DEF Entries, Of
      <4>4. QED
        BY <4>1, <4>3 DEF Of
    <3>3. QED
      BY <1>2, <3>1, <3>2 DEF MayEnter
  <2>5. \A a \in opened' : a.budget \in Budgets[a.search] /\ Of(candidates, a)' # {}
    BY <1>3, <2>1, <2>2, <2>3 DEF SearchesAreFunded, Of
  <2>6. \A a, b \in opened' : a.root = b.root /\ a.search = b.search => a = b
    BY <2>1, <2>3, <2>4 DEF SearchesAreFunded, Of
  <2>7. \A e \in candidates' : \E a \in Of(opened, e)' : e.tokens = Share(a.budget) /\ e.retries = 1
    BY <2>1, <2>2, <2>3 DEF SearchesAreFunded, Of
  <2>8. QED
    BY <1>5, <2>5, <2>6, <2>7 DEF SearchesAreFunded
<1>6. QED
  BY <1>2, <1>4, <1>5

\* A selector waits for B only where none has been before it.
LEMMA FundedBySelector ==
    ASSUME CreationInv, SearchesAreFunded, NEW s \in Sessions, AdmitSelector(s)
    PROVE  SearchesAreFunded'
<1>1. PICK r \in SelectorCalls :
         \/ UNCHANGED selectors
         \/ SelectorFits(r) /\ selectors' = selectors \union {SelectorEvent(r)}
  BY DEF AdmitSelector
<1>2. UNCHANGED <<opened, candidates>>
  BY DEF AdmitSelector
<1>3. PICK event :
         /\ event = SelectorEvent(r) /\ event.root = r.root /\ event.search = r.search
         /\ event.state = "pending" => r.mode = "awaiting"
  <2>1. PICK event : event = SelectorEvent(r)
    OBVIOUS
  <2>2. QED
    BY <2>1 DEF SelectorEvent
<1>4. CASE UNCHANGED selectors
  BY <1>2, <1>4 DEF SearchesAreFunded, Of
<1>5. CASE SelectorFits(r) /\ selectors' = selectors \union {SelectorEvent(r)}
  <2>1. event.state = "pending" => Of(selectors, r) = {}
    BY <1>3, <1>5 DEF SelectorFits
  <2>2. selectors' = selectors \union {event}
    BY <1>3, <1>5
  <2>3. \A d, e \in selectors' :
          d.root = e.root /\ d.search = e.search /\ d.state = "pending" /\ e.state = "pending" => d = e
    BY <1>3, <2>1, <2>2 DEF SearchesAreFunded, Of
  <2>4. QED
    BY <1>2, <2>3 DEF SearchesAreFunded, Of
<1>6. QED
  BY <1>1, <1>4, <1>5

\* Every step of a session keeps what the searches have on record.
LEMMA FundedStep ==
    ASSUME CreationInv, SearchesAreFunded, [Next]_vars
    PROVE  SearchesAreFunded'
<1>1. CASE UNCHANGED ledger
  BY <1>1 DEF ledger, SearchesAreFunded, Of
<1>2. CASE UNCHANGED vars
  BY <1>1, <1>2 DEF vars, ledger
<1>3. ASSUME NEW s \in Sessions, AdmitPlain(s) \/ TerminalPlain(s) \/ Refuse(s) \/ Materialize(s)
      PROVE  SearchesAreFunded'
  BY <1>1, <1>3 DEF AdmitPlain, TerminalPlain, Refuse, Materialize
<1>4. QED
  BY <1>2, <1>3, FundedByCandidate, FundedBySelector DEF Next

\* What one event reserves is the sum over it alone (MapThenSumSet, a fold by choice).
LEMMA SumOfOne ==
    ASSUME NEW e, e.tokens \in Nat, e.retries \in Nat
    PROVE  /\ MapThenSumSet(LAMBDA d : d.tokens, {e}) = e.tokens
           /\ MapThenSumSet(LAMBDA d : d.retries, {e}) = e.retries
<1>1. (CHOOSE x \in {e} : TRUE) = e /\ {e} \ {e} = {}
  OBVIOUS
<1>2. {} \in SUBSET {e} /\ {e} \in SUBSET {e} /\ {e} # {} /\ \A s \in SUBSET {e} : s = {} \/ s = {e}
  OBVIOUS
<1>3. MapThenSumSet(LAMBDA d : d.tokens, {e}) = e.tokens
  <2> DEFINE Sum(g) == [s \in SUBSET {e} |-> IF s = {} THEN 0
                          ELSE (CHOOSE x \in s : TRUE).tokens + g[s \ {CHOOSE x \in s : TRUE}]]
             known == [s \in SUBSET {e} |-> IF s = {} THEN 0 ELSE e.tokens]
             iter == CHOOSE g : g = Sum(g)
  <2>1. known = Sum(known)
    <3>1. \A s \in SUBSET {e} : known[s] = Sum(known)[s]
      BY <1>1, <1>2
    <3>2. QED
      BY <3>1
  <2>2. iter = Sum(iter)
    BY <2>1
  <2>3. Sum(iter)[{e}] = e.tokens + iter[{}] /\ Sum(iter)[{}] = 0
    BY <1>1, <1>2
  <2>4. iter[{e}] = e.tokens
    <3> HIDE DEF iter, Sum
    <3>1. QED
      BY <2>2, <2>3
  <2>5. QED
    BY <2>4 DEF MapThenSumSet, MapThenFoldSet
<1>4. MapThenSumSet(LAMBDA d : d.retries, {e}) = e.retries
  <2> DEFINE Sum(g) == [s \in SUBSET {e} |-> IF s = {} THEN 0
                          ELSE (CHOOSE x \in s : TRUE).retries + g[s \ {CHOOSE x \in s : TRUE}]]
             known == [s \in SUBSET {e} |-> IF s = {} THEN 0 ELSE e.retries]
             iter == CHOOSE g : g = Sum(g)
  <2>1. known = Sum(known)
    <3>1. \A s \in SUBSET {e} : known[s] = Sum(known)[s]
      BY <1>1, <1>2
    <3>2. QED
      BY <3>1
  <2>2. iter = Sum(iter)
    BY <2>1
  <2>3. Sum(iter)[{e}] = e.retries + iter[{}] /\ Sum(iter)[{}] = 0
    BY <1>1, <1>2
  <2>4. iter[{e}] = e.retries
    <3> HIDE DEF iter, Sum
    <3>1. QED
      BY <2>2, <2>3
  <2>5. QED
    BY <2>4 DEF MapThenSumSet, MapThenFoldSet
<1>5. QED
  BY <1>3, <1>4

\* A call of either kind, put together.
LEMMA CallsExist ==
    ASSUME NEW a \in Entries, a.budget \in Budgets[a.search]
    PROVE  /\ \A k \in CandidateKeys : \E r \in CandidateCalls(a.root) :
                 r.root = a.root /\ r.search = a.search /\ r.budget = a.budget /\ r.id = "A" /\ r.key = k
           /\ \A k \in SelectorKeys : \A m \in {"single", "pair", "expanded"} : \A T \in Named(m) :
                 \E r \in SelectorCalls :
                    /\ r.root = a.root /\ r.search = a.search /\ r.key = k /\ r.mode = m /\ r.parents = T
<1>1. a.root \in Mains /\ a.search \in Searches
  BY DEF Entries
<1>2. ASSUME NEW k \in CandidateKeys
      PROVE  \E r \in CandidateCalls(a.root) :
                 r.root = a.root /\ r.search = a.search /\ r.budget = a.budget /\ r.id = "A" /\ r.key = k
  <2> DEFINE r == [kind |-> "candidate", root |-> a.root, search |-> a.search, id |-> "A",
                   key |-> k, budget |-> a.budget, parents |-> {a.root}]
  <2>1. r \in [kind : {"candidate"}, root : Mains, search : {a.search}, id : Candidates,
               key : CandidateKeys, budget : Budgets[a.search], parents : {{a.root}}]
    BY <1>1, <1>2 DEF Candidates
  <2>2. r \in CandidateCalls(a.root)
    BY <1>1, <2>1 DEF CandidateCalls
  <2>3. QED
    BY <2>2
<1>3. ASSUME NEW k \in SelectorKeys, NEW m \in {"single", "pair", "expanded"}, NEW T \in Named(m)
      PROVE  \E r \in SelectorCalls :
                 r.root = a.root /\ r.search = a.search /\ r.key = k /\ r.mode = m /\ r.parents = T
  <2> DEFINE r == [kind |-> "selector", root |-> a.root, search |-> a.search, key |-> k,
                   budget |-> a.budget, mode |-> m, parents |-> T]
             Calls(x, mode) == [kind : {"selector"}, root : Mains, search : {x}, key : SelectorKeys,
                                budget : Budgets[x], mode : {mode}, parents : Named(mode)]
  <2>1. r \in Calls(a.search, m)
    BY <1>1, <1>3
  <2>2. SelectorCalls = UNION {Calls(x, mode) : x \in Searches, mode \in {"awaiting", "single", "pair", "expanded"}}
    BY DEF SelectorCalls
  <2>3. r.root = a.root /\ r.search = a.search /\ r.key = k /\ r.mode = m /\ r.parents = T
    OBVIOUS
  <2> HIDE DEF r, Calls
  <2>4. r \in SelectorCalls
    BY <1>1, <1>3, <2>1, <2>2
  <2>5. QED
    BY <2>3, <2>4
<1>4. QED
  BY <1>2, <1>3

\* A selector can take the first key that the one before it has not.
LEMMA FreeSelectorKey ==
    ASSUME CreationInv, SearchesAreFunded, NEW a, ~Closed(a)
    PROVE  \E k \in SelectorKeys : \A e \in Of(selectors, a) : e.key # k
<1>1. PICK j, k \in SelectorKeys : j # k
  BY CreationAssumption
<1>2. \A e \in Of(selectors, a) : e.state = "pending"
  BY DEF Closed, Of, CreationInv, CreationTypes, SelectorEvents
<1>3. \A d, e \in Of(selectors, a) : d = e
  BY <1>2 DEF SearchesAreFunded, Of
<1>4. QED
  BY <1>1, <1>3

\* What holds of the candidates of a search holds for every call about it.
LEMMA SameSearch ==
    ASSUME NEW a, NEW r, r.root = a.root, r.search = a.search
    PROVE  /\ Of(candidates, r) = Of(candidates, a) /\ Of(selectors, r) = Of(selectors, a)
           /\ Closed(r) <=> Closed(a)
           /\ \A k : Bound(r, k) <=> Bound(a, k)
BY DEF Of, Closed, Bound

\* A selector closes a search whose candidates it names, over A or over both.
LEMMA SelectorCanClose ==
    ASSUME CreationInv, SearchesAreFunded, NEW a \in opened, ~Closed(a),
           Entered(a) \in {{"A"}, Candidates}, \A e \in Of(candidates, a) : Bound(a, e.key)
    PROVE  \E r \in SelectorCalls :
              r.root = a.root /\ r.search = a.search /\ r.mode # "awaiting" /\ SelectorFits(r)
<1>1. a \in Entries /\ a.budget \in Budgets[a.search] /\ candidates \subseteq CandidateEvents
  BY DEF CreationInv, CreationTypes, SearchesAreFunded
<1>2. PICK k \in SelectorKeys : \A e \in Of(selectors, a) : e.key # k
  BY FreeSelectorKey
<1>3. PICK m \in {"single", "pair", "expanded"}, T \in SUBSET CandidateKeys :
         /\ T \in Named(m) /\ \A n \in T : Bound(a, n)
         /\ m = "pair" => Of(selectors, a) = {}
         /\ m = "expanded" => Of(selectors, a) # {}
         /\ Entered(a) = IF m = "single" THEN {"A"} ELSE Candidates
  <2> DEFINE Closes(m, T) ==
               /\ T \in Named(m) /\ \A n \in T : Bound(a, n)
               /\ m = "pair" => Of(selectors, a) = {}
               /\ m = "expanded" => Of(selectors, a) # {}
               /\ Entered(a) = IF m = "single" THEN {"A"} ELSE Candidates
  <2> SUFFICES \E m \in {"single", "pair", "expanded"}, T \in SUBSET CandidateKeys : Closes(m, T)
    OBVIOUS
  <2>1. CASE Entered(a) = {"A"}
    <3>1. PICK d \in Of(candidates, a) : d.id = "A"
      BY <2>1 DEF Entered
    <3>2. d.key \in CandidateKeys
      BY <1>1, <3>1 DEF Of, CandidateEvents
    <3>3. {d.key} \in Named("single")
      BY <3>2, FS_Singleton DEF Named
    <3>4. {d.key} \in SUBSET CandidateKeys /\ \A n \in {d.key} : Bound(a, n)
      BY <3>1, <3>2
    <3>5. Closes("single", {d.key})
      BY <2>1, <3>3, <3>4
    <3> HIDE DEF Closes
    <3>6. QED
      BY <3>4, <3>5
  <2>2. CASE Entered(a) = Candidates
    <3>1. PICK d \in Of(candidates, a), e \in Of(candidates, a) : d.id = "A" /\ e.id = "B"
      BY <2>2 DEF Entered, Candidates
    <3>2. d.key \in CandidateKeys /\ e.key \in CandidateKeys
      BY <1>1, <3>1 DEF Of, CandidateEvents
    <3>3. d.key # e.key
      BY <3>1 DEF CreationInv, CandidatesDiffer, Of
    <3>4. Cardinality({d.key, e.key}) = MaxCandidates
      <4>1. IsFiniteSet({d.key}) /\ Cardinality({d.key}) = 1
        BY FS_Singleton
      <4>2. {d.key} \union {e.key} = {d.key, e.key} /\ e.key \notin {d.key}
        BY <3>3
      <4>3. Cardinality({d.key} \union {e.key}) = Cardinality({d.key}) + 1
        BY <4>1, <4>2, FS_AddElement
      <4>4. QED
        BY <4>1, <4>2, <4>3 DEF MaxCandidates
    <3>5. {d.key, e.key} \in Named("pair") /\ {d.key, e.key} \in Named("expanded")
      BY <3>2, <3>4 DEF Named
    <3>6. {d.key, e.key} \in SUBSET CandidateKeys /\ \A n \in {d.key, e.key} : Bound(a, n)
      BY <3>1, <3>2
    <3>7. CASE Of(selectors, a) = {}
      <4>1. Closes("pair", {d.key, e.key})
        BY <2>2, <3>5, <3>6, <3>7
      <4> HIDE DEF Closes
      <4>2. QED
        BY <3>6, <4>1
    <3>8. CASE Of(selectors, a) # {}
      <4>1. Closes("expanded", {d.key, e.key})
        BY <2>2, <3>5, <3>6, <3>8
      <4> HIDE DEF Closes
      <4>2. QED
        BY <3>6, <4>1
    <3>9. QED
      BY <3>7, <3>8
  <2>3. QED
    BY <2>1, <2>2
<1>4. PICK r \in SelectorCalls :
         r.root = a.root /\ r.search = a.search /\ r.key = k /\ r.mode = m /\ r.parents = T
  BY <1>1, <1>2, <1>3, CallsExist
<1>5. SelectorFits(r)
  <2>1. /\ Of(candidates, r) = Of(candidates, a) /\ Of(selectors, r) = Of(selectors, a)
        /\ Closed(r) <=> Closed(a) /\ \A n : Bound(r, n) <=> Bound(a, n)
    BY <1>4, SameSearch
  <2>2. /\ \A e \in Of(selectors, r) : e.key # r.key
        /\ r.mode = "pair" => Of(selectors, r) = {}
        /\ r.mode = "expanded" => Of(selectors, r) # {}
        /\ ~Closed(r)
    BY <1>2, <1>3, <1>4, <2>1
  <2>3. {e.id : e \in Of(candidates, r)} =
           IF r.mode \in {"awaiting", "single"} THEN {"A"} ELSE Candidates
    BY <1>3, <1>4, <2>1 DEF Entered
  <2>4. \A n \in r.parents : Bound(r, n)
    <3> SUFFICES ASSUME NEW n \in r.parents  PROVE Bound(r, n)
      OBVIOUS
    <3>1. n \in T
      BY <1>4
    <3>2. Bound(a, n)
      BY <1>3, <3>1
    <3>3. QED
      BY <1>4, <3>2 DEF Bound, Of
  <2>5. QED
    BY <1>3, <1>4, <2>2, <2>3, <2>4 DEF SelectorFits
<1>6. QED
  BY <1>3, <1>4, <1>5

\* A can still join B under an even budget: half of it is left.
LEMMA FirstCanJoin ==
    ASSUME CreationInv, SearchesAreFunded, NEW a \in opened, ~Closed(a),
           Entered(a) = {"B"}, a.budget % 2 = 0
    PROVE  \E r \in CandidateCalls(a.root) :
              r.root = a.root /\ r.search = a.search /\ r.budget = a.budget /\ CandidateFits(r)
<1>1. a \in Entries /\ a.budget \in Budgets[a.search] /\ candidates \subseteq CandidateEvents
  BY DEF CreationInv, CreationTypes, SearchesAreFunded
<1>2. PICK d \in Of(candidates, a) : d.id = "B"
  BY DEF Entered
<1>3. \A e \in Of(candidates, a) : e.id = "B"
  BY DEF Entered
<1>4. Of(candidates, a) = {d}
  BY <1>2, <1>3 DEF CreationInv, CandidatesDiffer, Of
<1>5. d.tokens = Share(a.budget) /\ d.retries = 1
  <2>1. PICK b \in Of(opened, d) : d.tokens = Share(b.budget) /\ d.retries = 1
    BY <1>2 DEF SearchesAreFunded, Of
  <2>2. b = a
    BY <1>2, <2>1 DEF SearchesAreFunded, Of
  <2>3. QED
    BY <2>1, <2>2
<1>6. PICK k \in CandidateKeys : k # d.key
  BY CreationAssumption
<1>7. PICK r \in CandidateCalls(a.root) :
         r.root = a.root /\ r.search = a.search /\ r.budget = a.budget /\ r.id = "A" /\ r.key = k
  BY <1>1, <1>6, CallsExist
<1>8. Of(candidates, r) = {d} /\ ~Closed(r)
  BY <1>4, <1>7, SameSearch
<1>9. a.budget \in Nat /\ Share(a.budget) \in Nat /\ Share(a.budget) + Share(a.budget) <= a.budget
  <2>1. a.budget \in Nat
    BY <1>1 DEF Entries
  <2>2. QED
    BY <2>1 DEF Share, MaxCandidates
<1>10. /\ MapThenSumSet(LAMBDA e : e.tokens, {d}) = Share(a.budget)
       /\ MapThenSumSet(LAMBDA e : e.retries, {d}) = 1
  <2>1. d.tokens \in Nat /\ d.retries \in Nat
    BY <1>5, <1>9
  <2>2. /\ MapThenSumSet(LAMBDA e : e.tokens, {d}) = d.tokens
        /\ MapThenSumSet(LAMBDA e : e.retries, {d}) = d.retries
    BY <2>1, SumOfOne
  <2>3. QED
    BY <1>5, <2>2
<1>11. Cardinality({e.id : e \in {d}}) < MaxCandidates
  <2>1. {e.id : e \in {d}} = {d.id}
    OBVIOUS
  <2>2. Cardinality({d.id}) = 1
    BY FS_Singleton
  <2>3. QED
    BY <2>1, <2>2 DEF MaxCandidates
<1>12. \A e \in {d} : e.id # r.id /\ e.key # r.key
  BY <1>2, <1>6, <1>7
<1>13. CandidateFits(r)
  BY <1>7, <1>8, <1>9, <1>10, <1>11, <1>12 DEF CandidateFits, MaxRetries
<1>14. QED
  BY <1>7, <1>13

\* As long as the cards of a search's candidates hang below its root, the search can be closed
\* or its other candidate can join, whatever the sessions have done so far; B alone under an odd
\* budget is the exception (_search_admit).
THEOREM SearchesCanClose == Spec => []OpenSearchCanClose
<1>1. Init => SearchesAreFunded
  BY DEF Init, SearchesAreFunded, Of
<1>2. CreationInv /\ SearchesAreFunded => OpenSearchCanClose
  <2> SUFFICES ASSUME CreationInv, SearchesAreFunded, NEW a \in opened, ~Closed(a),
                      \A e \in Of(candidates, a) : Bound(a, e.key),
                      Entered(a) # {"B"} \/ a.budget % 2 = 0
               PROVE  \/ \E r \in CandidateCalls(a.root) :
                            /\ r.root = a.root /\ r.search = a.search /\ r.budget = a.budget
                            /\ CandidateFits(r)
                      \/ \E r \in SelectorCalls :
                            /\ r.root = a.root /\ r.search = a.search /\ r.mode # "awaiting"
                            /\ SelectorFits(r)
    BY DEF OpenSearchCanClose
  <2>1. Entered(a) \subseteq Candidates /\ Entered(a) # {}
    BY DEF Entered, Of, SearchesAreFunded, CreationInv, CreationTypes, CandidateEvents
  <2>2. Entered(a) \in {{"A"}, {"B"}, Candidates}
    BY <2>1 DEF Candidates
  <2>3. QED
    BY <2>2, SelectorCanClose, FirstCanJoin
<1>3. CreationInv /\ SearchesAreFunded /\ [Next]_vars => (CreationInv /\ SearchesAreFunded)'
  BY CreationStep, FundedStep
<1>4. QED
  BY <1>1, <1>2, <1>3, CreationInitially, PTL DEF Spec

-----------------------------------------------------------------------------
(* The cutover: what each part of its state carries                         *)

\* The sets of the invariant depend on one variable each.
LEMMA SetsKeep ==
    /\ legacy'.cards = legacy.cards => Now' = Now
    /\ legacy'.at = legacy.at => Live' = Live
    /\ archived' = archived => Then' = Then
    /\ evidence'.sums = evidence.sums => Sums' = Sums
    /\ canonical'.rows = canonical.rows => Known' = Known /\ M!RowsOf' = M!RowsOf
BY DEF Now, Live, Then, Sums, Known, M!CardsOf, M!RowsOf

\* A stage that changes only what it knows has to show only that.
LEMMA ToolStep ==
    ASSUME CutoverInv, UNCHANGED <<legacy, canonical, archived, evidence, imported, missed>>,
           tool' \in Tools, AnchorsAreTraced', StageIsReady', PurgeCoversRows'
    PROVE  CutoverInv'
<1>1. Now' = Now /\ Live' = Live /\ Then' = Then /\ Sums' = Sums /\ Known' = Known
      /\ M!RowsOf' = M!RowsOf
  BY SetsKeep
<1>2. CutoverTypes'
  BY DEF CutoverInv, CutoverTypes, M!NoRows
<1>3. LegacyKeepsCards' /\ EvidenceIsKept' /\ ImportedIsKnown'
  BY <1>1 DEF CutoverInv, LegacyKeepsCards, EvidenceIsKept, ImportedIsKnown
<1>4. QED
  BY <1>2, <1>3 DEF CutoverInv

\* An idle stage knows nothing and owes nothing.
LEMMA IdleProperties ==
    /\ M!Idle \in Tools /\ M!Idle.phase = "idle" /\ M!Idle.cards = M!NoRows
    /\ M!Idle.todo = {} /\ M!Idle.keys = {} /\ \A i \in Issues : M!Idle.ids[i] = "none"
BY DEF M!Idle, Tools, M!NoRows, M!NoIds, M!CardStates, Ids

\* The process of a stage ends (StageFails).
LEMMA FailStep ==
    ASSUME CutoverInv, tool' = M!Idle, UNCHANGED <<legacy, canonical, archived, evidence, imported, missed>>
    PROVE  CutoverInv'
<1>1. Now' = Now /\ Then' = Then
  BY SetsKeep
<1>2. AnchorsAreTraced'
  BY <1>1, IdleProperties DEF CutoverInv, AnchorsAreTraced
<1>3. StageIsReady' /\ PurgeCoversRows'
  BY IdleProperties DEF StageIsReady, PurgeCoversRows
<1>4. QED
  BY <1>2, <1>3, IdleProperties, ToolStep

\* Nothing of the cutover changes when an intake run reads its board or ends, or when the
\* operator cleans a backup (Resolve, IntakeEnds, BackupPruned).
LEMMA CutoverStutters ==
    ASSUME CutoverInv, UNCHANGED <<legacy, canonical, archived, evidence, tool, imported, missed>>
    PROVE  CutoverInv'
<1>1. Now' = Now /\ Live' = Live /\ Then' = Then /\ Sums' = Sums /\ Known' = Known
      /\ M!RowsOf' = M!RowsOf /\ M!CardsOf(tool)' = M!CardsOf(tool)
  BY SetsKeep DEF M!CardsOf
<1>2. AnchorsAreTraced' /\ StageIsReady' /\ PurgeCoversRows'
  BY <1>1 DEF CutoverInv, AnchorsAreTraced, StageIsReady, PurgeCoversRows, M!NoRows
<1>3. QED
  BY <1>2, ToolStep DEF CutoverInv, CutoverTypes

\* While no stage runs, the invariant asks nothing of the stage.
LEMMA FreeStep ==
    ASSUME CutoverInv, tool.phase = "idle", UNCHANGED tool, CutoverTypes',
           LegacyKeepsCards', EvidenceIsKept', ImportedIsKnown',
           \A i \in Issues : evidence'.ids[i] # "none" => evidence.ids[i] # "none",
           Now \union Then \subseteq (Now \union Then)'
    PROVE  CutoverInv'
<1>1. AnchorsAreTraced'
  BY DEF CutoverInv, AnchorsAreTraced
<1>2. StageIsReady' /\ PurgeCoversRows'
  BY DEF StageIsReady, PurgeCoversRows
<1>3. QED
  BY <1>1, <1>2 DEF CutoverInv

\* The intake creates the canonical board (the first-intake path).
LEMMA BootstrapStep ==
    ASSUME CutoverInv, M!Bootstrap
    PROVE  CutoverInv'
<1>1. tool.phase = "idle" /\ UNCHANGED <<legacy, archived, evidence, tool, imported, missed>>
  BY DEF M!Bootstrap, M!LeaseFree
<1>2. /\ canonical' \in Canonicals /\ canonical'.live /\ canonical'.rows = canonical.rows
  BY DEF M!Bootstrap, CutoverInv, CutoverTypes, Canonicals
<1>3. Now' = Now /\ Live' = Live /\ Then' = Then /\ Sums' = Sums /\ Known' = Known
      /\ M!RowsOf' = M!RowsOf
  BY <1>1, <1>2, SetsKeep
<1>4. CutoverTypes'
  BY <1>1, <1>2 DEF CutoverInv, CutoverTypes
<1>5. LegacyKeepsCards' /\ EvidenceIsKept' /\ ImportedIsKnown'
  BY <1>1, <1>2, <1>3 DEF CutoverInv, LegacyKeepsCards, EvidenceIsKept, ImportedIsKnown
<1>6. QED
  BY <1>1, <1>3, <1>4, <1>5, FreeStep

\* A new row of the canonical board is the newest of its Issue.
LEMMA WithRowProperties ==
    ASSUME canonical \in Canonicals, canonical.live, NEW i \in Issues, NEW row \in {"held", "card"},
           canonical' = M!WithRow(i, row)
    PROVE  /\ canonical' \in Canonicals /\ canonical'.live
           /\ Known' = Known \union {i} /\ M!RowsOf' = M!RowsOf \union {i}
           /\ canonical'.rows = [canonical.rows EXCEPT ![i] = row]
<1>1. /\ canonical' \in Canonicals /\ canonical'.live
      /\ canonical'.rows = [canonical.rows EXCEPT ![i] = row]
  BY DEF Canonicals, M!WithRow, M!Rows
<1>2. canonical.rows \in [Issues -> M!Rows]
  BY DEF Canonicals
<1>3. Known' = Known \union {i} /\ M!RowsOf' = M!RowsOf \union {i}
  BY <1>1, <1>2 DEF Known, M!RowsOf
<1>4. QED
  BY <1>1, <1>3

\* An id that is outdated is no new one.
LEMMA OutdatedProperties ==
    ASSUME evidence \in Evidences, NEW i \in Issues,
           evidence' = [evidence EXCEPT !.ids[i] = M!Outdated(@)]
    PROVE  /\ evidence' \in Evidences /\ evidence'.sums = evidence.sums
           /\ evidence'.stage = evidence.stage /\ evidence'.legacy = evidence.legacy
           /\ evidence'.count = evidence.count
           /\ \A j \in Issues : evidence'.ids[j] # "none" => evidence.ids[j] # "none"
<1>1. PICK id : id = M!Outdated(evidence.ids[i])
  OBVIOUS
<1>2. id \in Ids /\ (id # "none" => evidence.ids[i] # "none")
  BY <1>1 DEF Evidences, Ids, M!Outdated
<1>3. evidence' = [evidence EXCEPT !.ids[i] = id]
  BY <1>1
<1>4. QED
  BY <1>2, <1>3 DEF Evidences

\* The intake creates a work card on the board it has resolved (the Kanban write).
LEMMA CreateCardStep ==
    ASSUME CutoverInv, NEW i \in Issues, M!CreateCard(i)
    PROVE  CutoverInv'
<1>1. /\ tool.phase = "idle" /\ UNCHANGED <<archived, tool, missed>>
      /\ imported' = imported \union {i}
      /\ legacy \in Legacies /\ canonical \in Canonicals /\ evidence \in Evidences
  BY DEF M!CreateCard, M!LeaseFree, CutoverInv, CutoverTypes
<1>2. Then' = Then
  BY <1>1, SetsKeep
<1>3. PICK value : /\ value = IF route = "canonical" THEN M!Outdated(evidence.ids[i]) ELSE evidence.ids[i]
                   /\ evidence' = [evidence EXCEPT !.ids[i] = value]
  BY DEF M!CreateCard
<1>4. CASE /\ route = "legacy" /\ Live /\ legacy' = [legacy EXCEPT !.cards[i] = "open"]
           /\ UNCHANGED canonical
  <2>1. /\ legacy' \in Legacies /\ legacy'.at = legacy.at
        /\ legacy'.cards = [legacy.cards EXCEPT ![i] = "open"]
        /\ legacy.cards \in [Issues -> M!CardStates]
    BY <1>1, <1>4 DEF Legacies, M!CardStates
  <2>2. Now' = Now \union {i}
    BY <2>1 DEF Now, M!CardsOf
  <2>3. evidence' = evidence
    <3>1. evidence' = [evidence EXCEPT !.ids[i] = value]
      BY <1>4, <1>3
    <3>2. [evidence.ids EXCEPT ![i] = evidence.ids[i]] = evidence.ids
      BY <1>1 DEF Evidences
    <3>3. QED
      BY <1>1, <1>4, <1>3, <3>1, <3>2 DEF Evidences
  <2>4. Live' = Live /\ Sums' = Sums /\ Known' = Known /\ M!RowsOf' = M!RowsOf
    BY <1>4, <2>1, <2>3, SetsKeep
  <2>5. CutoverTypes'
    BY <1>1, <1>4, <2>1, <2>3 DEF CutoverInv, CutoverTypes
  <2>6. LegacyKeepsCards' /\ EvidenceIsKept' /\ ImportedIsKnown'
    BY <1>1, <1>2, <1>4, <2>1, <2>2, <2>3, <2>4
       DEF CutoverInv, LegacyKeepsCards, EvidenceIsKept, ImportedIsKnown
  <2>7. QED
    BY <1>1, <1>2, <2>2, <2>3, <2>5, <2>6, FreeStep
<1>5. CASE /\ route = "canonical" /\ canonical.live /\ canonical' = M!WithRow(i, "card")
           /\ UNCHANGED legacy
  <2>1. evidence' = [evidence EXCEPT !.ids[i] = M!Outdated(@)]
    BY <1>5, <1>3
  <2>2. /\ evidence' \in Evidences /\ evidence'.sums = evidence.sums
        /\ evidence'.stage = evidence.stage /\ evidence'.legacy = evidence.legacy
        /\ evidence'.count = evidence.count
        /\ \A j \in Issues : evidence'.ids[j] # "none" => evidence.ids[j] # "none"
    BY <1>1, <2>1, OutdatedProperties
  <2>3. /\ canonical' \in Canonicals /\ canonical'.live
        /\ Known' = Known \union {i} /\ M!RowsOf' = M!RowsOf \union {i}
    BY <1>1, <1>5, WithRowProperties
  <2>4. Live' = Live /\ Sums' = Sums /\ Now' = Now
    BY <1>5, <2>2, SetsKeep
  <2>5. CutoverTypes'
    BY <1>1, <1>5, <2>2, <2>3 DEF CutoverInv, CutoverTypes
  <2>6. LegacyKeepsCards' /\ EvidenceIsKept' /\ ImportedIsKnown'
    BY <1>1, <1>2, <1>5, <2>2, <2>3, <2>4
       DEF CutoverInv, LegacyKeepsCards, EvidenceIsKept, ImportedIsKnown
  <2>7. QED
    BY <1>1, <1>2, <2>2, <2>4, <2>5, <2>6, FreeStep
<1>6. QED
  BY <1>4, <1>5 DEF M!CreateCard, M!LegacyLive, Live

\* A worker moves a card of the live legacy board.
LEMMA CardMovesStep ==
    ASSUME CutoverInv, NEW i \in Issues, M!CardMoves(i)
    PROVE  CutoverInv'
<1>1. UNCHANGED <<canonical, archived, evidence, tool, imported, missed>> /\ legacy \in Legacies
  BY DEF M!CardMoves, CutoverInv, CutoverTypes
<1>2. PICK state \in {"open", "closed"} :
        legacy.cards[i] # "none" /\ legacy' = [legacy EXCEPT !.cards[i] = state]
  BY DEF M!CardMoves
<1>3. /\ legacy' \in Legacies /\ legacy'.at = legacy.at
      /\ legacy'.cards = [legacy.cards EXCEPT ![i] = state]
      /\ legacy.cards \in [Issues -> M!CardStates]
  BY <1>1, <1>2 DEF Legacies, M!CardStates
<1>4. Now' = Now
  BY <1>2, <1>3 DEF Now, M!CardsOf
<1>5. Live' = Live /\ Then' = Then /\ Sums' = Sums /\ Known' = Known
      /\ M!RowsOf' = M!RowsOf /\ M!CardsOf(tool)' = M!CardsOf(tool)
  BY <1>1, <1>3, SetsKeep DEF M!CardsOf
<1>6. CutoverTypes'
  BY <1>1, <1>3 DEF CutoverInv, CutoverTypes, M!NoRows
<1>7. LegacyKeepsCards' /\ EvidenceIsKept' /\ ImportedIsKnown'
  BY <1>1, <1>3, <1>4, <1>5 DEF CutoverInv, LegacyKeepsCards, EvidenceIsKept, ImportedIsKnown
<1>8. AnchorsAreTraced' /\ StageIsReady' /\ PurgeCoversRows'
  BY <1>1, <1>3, <1>4, <1>5 DEF CutoverInv, AnchorsAreTraced, StageIsReady, PurgeCoversRows, M!NoRows
<1>9. QED
  BY <1>6, <1>7, <1>8 DEF CutoverInv

-----------------------------------------------------------------------------
(* migrate                                                                  *)

\* A content without a card has no cards.
LEMMA NoCardsIsNoRows ==
    ASSUME NEW content, content.cards \in [Issues -> M!CardStates]
    PROVE  content.cards = M!NoRows <=> M!CardsOf(content) = {}
BY DEF M!CardsOf, M!NoRows

\* migrate looks at the legacy board and finds nothing open (MigrateBegins).
LEMMA MigrateBeginsStep ==
    ASSUME CutoverInv, M!MigrateBegins
    PROVE  CutoverInv'
<1>1. UNCHANGED <<legacy, canonical, archived, evidence, imported, missed>> /\ M!Preflight(legacy, M!NoIds)
  BY DEF M!MigrateBegins
<1>2. legacy \in Legacies /\ legacy.at # "noDb"
  BY <1>1 DEF CutoverInv, CutoverTypes, M!Preflight, M!ScanWorks
<1>3. PICK found : found = IF M!LegacyLive THEN legacy.cards ELSE M!NoRows
  OBVIOUS
<1>4. tool' = [M!Idle EXCEPT !.phase = "provision", !.cards = found]
  BY <1>3 DEF M!MigrateBegins
<1>5. found \in [Issues -> M!CardStates]
  BY <1>2, <1>3 DEF Legacies, M!NoRows, M!CardStates
<1>6. /\ tool' \in Tools /\ tool'.phase = "provision" /\ tool'.cards = found
      /\ \A i \in Issues : tool'.ids[i] = "none"
  BY <1>4, <1>5, IdleProperties DEF Tools
<1>7. Now' = Now /\ Live' = Live /\ Then' = Then /\ (Live <=> M!LegacyLive)
  BY <1>1, SetsKeep DEF Live, M!LegacyLive
<1>8. AnchorsAreTraced'
  BY <1>1, <1>6, <1>7 DEF CutoverInv, AnchorsAreTraced
<1>9. StageIsReady'
  <2>1. CASE Live
    <3>1. M!CardsOf(tool)' = Now /\ found # M!NoRows
      BY <1>2, <1>3, <1>6, <1>7, <2>1
         DEF CutoverInv, LegacyKeepsCards, Now, M!CardsOf, M!NoRows, Legacies
    <3>2. QED
      BY <1>6, <1>7, <2>1, <3>1 DEF StageIsReady, M!NoRows
  <2>2. CASE ~Live
    BY <1>1, <1>2, <1>3, <1>6, <1>7, <2>2 DEF StageIsReady, M!NoRows, Legacies, Live
  <2>3. QED
    BY <2>1, <2>2
<1>10. PurgeCoversRows'
  BY <1>6 DEF PurgeCoversRows
<1>11. QED
  BY <1>1, <1>6, <1>8, <1>9, <1>10, ToolStep

\* migrate creates the canonical board (MigrateProvisions).
LEMMA MigrateProvisionsStep ==
    ASSUME CutoverInv, M!MigrateProvisions
    PROVE  CutoverInv'
<1>1. /\ UNCHANGED <<legacy, archived, evidence, imported, missed>> /\ tool.phase = "provision"
      /\ tool \in Tools /\ canonical \in Canonicals
  BY DEF M!MigrateProvisions, CutoverInv, CutoverTypes
<1>2. canonical' \in Canonicals /\ canonical'.live /\ canonical'.rows = canonical.rows
  BY <1>1 DEF M!MigrateProvisions, Canonicals
<1>3. PICK phase : /\ phase = IF tool.cards = M!NoRows THEN "record" ELSE "copy"
                   /\ tool' = [tool EXCEPT !.phase = phase]
  BY DEF M!MigrateProvisions, M!Step
<1>4. /\ tool' \in Tools /\ tool'.phase = phase /\ tool'.cards = tool.cards
      /\ tool'.ids = tool.ids /\ tool'.todo = tool.todo
  BY <1>1, <1>3 DEF Tools
<1>5. Now' = Now /\ Live' = Live /\ Then' = Then /\ Sums' = Sums /\ Known' = Known
      /\ M!RowsOf' = M!RowsOf /\ M!CardsOf(tool)' = M!CardsOf(tool)
  BY <1>1, <1>2, <1>4, SetsKeep DEF M!CardsOf
<1>6. CutoverTypes'
  BY <1>1, <1>2, <1>4 DEF CutoverInv, CutoverTypes
<1>7. LegacyKeepsCards' /\ EvidenceIsKept' /\ ImportedIsKnown'
  BY <1>1, <1>2, <1>5 DEF CutoverInv, LegacyKeepsCards, EvidenceIsKept, ImportedIsKnown
<1>8. AnchorsAreTraced' /\ PurgeCoversRows'
  BY <1>1, <1>3, <1>4, <1>5 DEF CutoverInv, AnchorsAreTraced, PurgeCoversRows
<1>9. StageIsReady'
  BY <1>1, <1>3, <1>4, <1>5 DEF CutoverInv, StageIsReady, M!NoRows
<1>10. QED
  BY <1>6, <1>7, <1>8, <1>9 DEF CutoverInv

\* migrate copies the legacy board and compares it with the copy (MigrateCopies,
\* MigrateVerifies).
LEMMA MigrateCopiesStep ==
    ASSUME CutoverInv, M!MigrateCopies \/ M!MigrateVerifies
    PROVE  CutoverInv'
<1>1. /\ UNCHANGED <<legacy, canonical, archived, evidence, imported, missed>> /\ tool.phase \in {"copy", "verify"}
      /\ tool \in Tools /\ legacy \in Legacies
  BY DEF M!MigrateCopies, M!MigrateVerifies, CutoverInv, CutoverTypes
<1>2. Now' = Now /\ Live' = Live /\ Then' = Then /\ Now # {} /\ Live
  BY <1>1, SetsKeep DEF CutoverInv, StageIsReady, LegacyKeepsCards
<1>3. tool.cards # M!NoRows /\ M!CardsOf(tool) = Now
  BY <1>1 DEF CutoverInv, StageIsReady
<1>4. /\ tool' \in Tools /\ tool'.phase \in {"verify", "record"} /\ tool'.ids = tool.ids
      /\ tool'.todo = Now /\ tool'.cards \in {tool.cards, legacy.cards}
  <2>1. CASE M!MigrateCopies
    BY <1>1, <1>3, <2>1 DEF M!MigrateCopies, Tools, Legacies, Now, M!CardsOf
  <2>2. CASE M!MigrateVerifies
    BY <1>1, <1>3, <2>2 DEF M!MigrateVerifies, M!Step, Tools, CutoverInv, StageIsReady
  <2>3. QED
    BY <2>1, <2>2
<1>5. M!CardsOf(tool)' = Now /\ tool'.cards # M!NoRows
  BY <1>2, <1>3, <1>4 DEF M!CardsOf, Now, M!NoRows
<1>6. AnchorsAreTraced'
  BY <1>1, <1>2, <1>4 DEF CutoverInv, AnchorsAreTraced
<1>7. StageIsReady' /\ PurgeCoversRows'
  BY <1>2, <1>4, <1>5 DEF StageIsReady, PurgeCoversRows, M!NoRows
<1>8. QED
  BY <1>1, <1>4, <1>6, <1>7, ToolStep

\* Both modules count with the same operator.
LEMMA SameCardinality == \A S : M!Cardinality(S) = Cardinality(S)
BY DEF M!Cardinality, Cardinality

\* Sets of Issues are finite, and so are counted.
LEMMA IssuesAreFinite ==
    /\ IsFiniteSet(Issues)
    /\ \A S \in SUBSET Issues : IsFiniteSet(S) /\ Cardinality(S) \in Nat
<1>1. IsFiniteSet(Issues)
  BY CutoverAssumption DEF M!MigrationAssumption, M!IsFiniteSet, IsFiniteSet
<1>2. ASSUME NEW S \in SUBSET Issues  PROVE IsFiniteSet(S) /\ Cardinality(S) \in Nat
  <2>1. IsFiniteSet(S)
    BY <1>1, FS_Subset
  <2>2. QED
    BY <2>1, FS_CardinalityType
<1>3. QED
  BY <1>1, <1>2

\* migrate writes down what it has copied (MigrateRecords).
LEMMA MigrateRecordsStep ==
    ASSUME CutoverInv, M!MigrateRecords
    PROVE  CutoverInv'
<1>1. /\ UNCHANGED <<legacy, canonical, archived, imported, missed>> /\ tool.phase = "record"
      /\ tool' = M!Idle /\ tool \in Tools /\ evidence \in Evidences /\ legacy \in Legacies
  BY DEF M!MigrateRecords, CutoverInv, CutoverTypes
<1>2. PICK had \in BOOLEAN : had = (tool.cards # M!NoRows)
  OBVIOUS
<1>3. PICK whole \in BOOLEAN : whole = (legacy.whole /\ tool.cards # M!NoRows)
  OBVIOUS
<1>4. PICK count \in Nat : count = Cardinality(tool.todo)
  BY <1>1, IssuesAreFinite DEF Tools
<1>5. evidence' = [evidence EXCEPT !.stage = "migrated", !.legacy = had,
                                   !.sums = [cards |-> tool.cards, whole |-> whole], !.count = count]
  BY <1>2, <1>3, <1>4, SameCardinality DEF M!MigrateRecords, M!Save
<1>6. /\ evidence' \in Evidences /\ evidence'.stage = "migrated" /\ evidence'.legacy = had
      /\ evidence'.count = count /\ evidence'.sums.cards = tool.cards
      /\ evidence'.ids = evidence.ids
  BY <1>1, <1>5 DEF Evidences, Tools, Stages, M!Content
<1>7. Now' = Now /\ Live' = Live /\ Then' = Then /\ Known' = Known /\ M!RowsOf' = M!RowsOf
  BY <1>1, SetsKeep
<1>8. Sums' = M!CardsOf(tool)
  BY <1>6 DEF Sums, M!CardsOf
<1>9. CutoverTypes'
  BY <1>1, <1>6, IdleProperties DEF CutoverInv, CutoverTypes, M!NoRows
<1>10. LegacyKeepsCards' /\ EvidenceIsKept' /\ ImportedIsKnown'
  <2>1. CASE had
    <3>1. Live /\ M!CardsOf(tool) = Now /\ tool.todo = Now
      BY <1>1, <1>2, <2>1 DEF CutoverInv, StageIsReady
    <3>2. QED
      BY <1>1, <1>4, <1>6, <1>7, <1>8, <2>1, <3>1
         DEF CutoverInv, LegacyKeepsCards, EvidenceIsKept, ImportedIsKnown
  <2>2. CASE ~had
    <3>1. legacy.at = "absent" /\ ~Live
      BY <1>1, <1>2, <2>2 DEF CutoverInv, StageIsReady, Live
    <3>2. QED
      BY <1>1, <1>6, <1>7, <2>2, <3>1
         DEF CutoverInv, LegacyKeepsCards, EvidenceIsKept, ImportedIsKnown
  <2>3. QED
    BY <2>1, <2>2
<1>11. AnchorsAreTraced'
  BY <1>1, <1>6, <1>7, IdleProperties DEF CutoverInv, AnchorsAreTraced
<1>12. StageIsReady' /\ PurgeCoversRows'
  BY <1>1, IdleProperties DEF StageIsReady, PurgeCoversRows
<1>13. QED
  BY <1>9, <1>10, <1>11, <1>12 DEF CutoverInv

-----------------------------------------------------------------------------
(* transition                                                               *)

\* What transition adopts is a card of the legacy board (Adopted).
LEMMA AdoptedProperties ==
    ASSUME CutoverInv, NEW ids, ids = M!Adopted
    PROVE  /\ ids \in [Issues -> Ids]
           /\ \A i \in Issues : ids[i] # "none" => evidence.ids[i] # "none" \/ i \in Now
<1>1. evidence.ids \in [Issues -> Ids] /\ M!ClosedOn(legacy) \subseteq Now
  BY DEF CutoverInv, CutoverTypes, Evidences, M!ClosedOn, Now, M!CardsOf
<1>2. QED
  BY <1>1 DEF M!Adopted, Ids

\* Cards that match the evidence are the cards on record (SameAsRecorded).
LEMMA SameAsRecordedProperties ==
    ASSUME CutoverInv, Live, M!CardsOf(tool) = Now, M!SameAsRecorded(tool.cards)
    PROVE  evidence.legacy /\ Now = Sums
<1>1. evidence.legacy /\ Cardinality(Now) = evidence.count
  BY SameCardinality DEF M!SameAsRecorded, M!CardsOf
<1>2. Sums \subseteq Now /\ Cardinality(Sums) = Cardinality(Now)
  BY <1>1 DEF CutoverInv, EvidenceIsKept
<1>3. IsFiniteSet(Now)
  BY IssuesAreFinite DEF Now, M!CardsOf
<1>4. QED
  BY <1>1, <1>2, <1>3, FS_Subset

\* The transition begins with what it scanned (TransitionBegins).
LEMMA TransitionBeginsStep ==
    ASSUME CutoverInv, M!TransitionBegins
    PROVE  CutoverInv'
<1>1. /\ UNCHANGED <<legacy, canonical, archived, evidence, imported, missed>>
      /\ Live /\ canonical.live /\ legacy.cards \in [Issues -> M!CardStates]
      /\ tool' = [M!Idle EXCEPT !.phase = "adopt", !.cards = legacy.cards]
  BY DEF M!TransitionBegins, M!LegacyLive, Live, CutoverInv, CutoverTypes, Legacies
<1>2. /\ tool' \in Tools /\ tool'.phase = "adopt" /\ tool'.cards = legacy.cards
      /\ \A i \in Issues : tool'.ids[i] = "none"
  BY <1>1, IdleProperties DEF Tools
<1>3. Now' = Now /\ Live' = Live /\ Then' = Then /\ M!CardsOf(tool)' = Now
  BY <1>1, <1>2, SetsKeep DEF Now, M!CardsOf
<1>4. AnchorsAreTraced' /\ StageIsReady' /\ PurgeCoversRows'
  BY <1>1, <1>2, <1>3 DEF CutoverInv, AnchorsAreTraced, StageIsReady, PurgeCoversRows
<1>5. QED
  BY <1>1, <1>2, <1>4, ToolStep

\* It adopts what carries a key already, and refuses what does not match (TransitionAdopts).
LEMMA TransitionAdoptsStep ==
    ASSUME CutoverInv, M!TransitionAdopts
    PROVE  CutoverInv'
<1>1. /\ UNCHANGED <<legacy, canonical, archived, imported, missed>> /\ tool.phase = "adopt"
      /\ Live /\ canonical.live /\ M!CardsOf(tool) = Now /\ evidence \in Evidences
      /\ tool \in Tools /\ M!ClosedOn(legacy) \subseteq Issues
  BY DEF M!TransitionAdopts, CutoverInv, CutoverTypes, StageIsReady, M!ClosedOn
<1>2. PICK ids : ids = M!Adopted
  OBVIOUS
<1>3. /\ ids \in [Issues -> Ids]
      /\ \A i \in Issues : ids[i] # "none" => evidence.ids[i] # "none" \/ i \in Now
  BY <1>2, AdoptedProperties
<1>4. PICK closed : closed = M!ClosedOn(legacy)
  OBVIOUS
<1>5. evidence' = evidence \/ evidence' = [evidence EXCEPT !.ids = ids, !.keys = closed]
  BY <1>2, <1>4 DEF M!TransitionAdopts
<1>6. /\ evidence' \in Evidences /\ evidence'.stage = evidence.stage
      /\ evidence'.legacy = evidence.legacy /\ evidence'.sums = evidence.sums
      /\ evidence'.count = evidence.count
      /\ \A i \in Issues : evidence'.ids[i] # "none" => evidence.ids[i] # "none" \/ i \in Now
  <2>1. CASE evidence' = evidence
    BY <1>1, <2>1
  <2>2. CASE evidence' = [evidence EXCEPT !.ids = ids, !.keys = closed]
    BY <1>1, <1>3, <1>4, <2>2 DEF Evidences
  <2>3. QED
    BY <1>5, <2>1, <2>2
<1>7. Now' = Now /\ Live' = Live /\ Then' = Then /\ Sums' = Sums /\ Known' = Known
      /\ M!RowsOf' = M!RowsOf
  BY <1>1, <1>6, SetsKeep
<1>8. LegacyKeepsCards' /\ EvidenceIsKept' /\ ImportedIsKnown'
  BY <1>1, <1>6, <1>7 DEF CutoverInv, LegacyKeepsCards, EvidenceIsKept, ImportedIsKnown
<1>9. CASE tool' = M!Idle
  <2>1. CutoverTypes'
    BY <1>1, <1>6, <1>9, IdleProperties DEF CutoverInv, CutoverTypes, M!NoRows
  <2>2. AnchorsAreTraced' /\ StageIsReady' /\ PurgeCoversRows'
    BY <1>1, <1>6, <1>7, <1>9, IdleProperties
       DEF CutoverInv, AnchorsAreTraced, StageIsReady, PurgeCoversRows
  <2>3. QED
    BY <1>8, <2>1, <2>2 DEF CutoverInv
<1>10. CASE /\ M!SameAsRecorded(tool.cards)
            /\ tool' = [tool EXCEPT !.phase = "read", !.ids = ids, !.keys = closed]
  <2>1. evidence.legacy /\ Now = Sums
    BY <1>1, <1>10, SameAsRecordedProperties
  <2>2. tool' \in Tools /\ tool'.phase = "read" /\ tool'.ids = ids
    BY <1>1, <1>3, <1>4, <1>10 DEF Tools
  <2>3. CutoverTypes'
    BY <1>1, <1>6, <2>2 DEF CutoverInv, CutoverTypes, M!NoRows
  <2>4. AnchorsAreTraced' /\ StageIsReady' /\ PurgeCoversRows'
    BY <1>1, <1>3, <1>6, <1>7, <2>1, <2>2
       DEF CutoverInv, AnchorsAreTraced, StageIsReady, PurgeCoversRows
  <2>5. QED
    BY <1>8, <2>3, <2>4 DEF CutoverInv
<1>11. QED
  BY <1>2, <1>4, <1>9, <1>10 DEF M!TransitionAdopts

\* The carry reads the keys: what is open now is missed (TransitionReads).
LEMMA TransitionReadsStep ==
    ASSUME CutoverInv, M!TransitionReads
    PROVE  CutoverInv'
<1>1. /\ UNCHANGED <<legacy, canonical, archived, evidence, imported>> /\ tool.phase = "read"
      /\ tool \in Tools /\ Live /\ evidence.legacy /\ canonical.live /\ Now = Sums
      /\ legacy.cards \in [Issues -> M!CardStates]
  BY DEF M!TransitionReads, CutoverInv, CutoverTypes, StageIsReady, Legacies
<1>2. PICK closed : closed = M!ClosedOn(legacy)
  OBVIOUS
<1>3. /\ missed' \subseteq Now /\ closed \subseteq Now /\ Now \subseteq missed' \union closed
      /\ Now \subseteq Issues
  BY <1>1, <1>2 DEF M!TransitionReads, M!OpenOn, M!ClosedOn, Now, M!CardsOf, M!CardStates
<1>4. tool' \in Tools /\ tool'.phase = "carry" /\ tool'.ids = tool.ids /\ tool'.todo = closed
  BY <1>1, <1>2, <1>3 DEF M!TransitionReads, Tools
<1>5. Now' = Now /\ Live' = Live /\ Then' = Then /\ Sums' = Sums /\ Known' = Known
      /\ M!RowsOf' = M!RowsOf
  BY <1>1, SetsKeep
<1>6. CutoverTypes'
  BY <1>1, <1>3, <1>4 DEF CutoverInv, CutoverTypes, M!NoRows
<1>7. LegacyKeepsCards' /\ EvidenceIsKept' /\ ImportedIsKnown'
  BY <1>1, <1>3, <1>5 DEF CutoverInv, LegacyKeepsCards, EvidenceIsKept, ImportedIsKnown
<1>8. AnchorsAreTraced' /\ StageIsReady' /\ PurgeCoversRows'
  BY <1>1, <1>3, <1>4, <1>5 DEF CutoverInv, AnchorsAreTraced, StageIsReady, PurgeCoversRows
<1>9. QED
  BY <1>6, <1>7, <1>8 DEF CutoverInv

\* An anchor is created, unless a row with its key is there (CarryCreates).
LEMMA CarryCreatesStep ==
    ASSUME CutoverInv, NEW i \in Issues, M!CarryCreates(i)
    PROVE  CutoverInv'
<1>1. /\ UNCHANGED <<legacy, archived, imported, missed>> /\ tool.phase = "carry" /\ i \in tool.todo
      /\ tool \in Tools /\ canonical \in Canonicals /\ evidence \in Evidences
      /\ Live /\ evidence.legacy /\ canonical.live /\ Now = Sums
      /\ Now \ (missed \union tool.todo) \subseteq Known
  BY DEF M!CarryCreates, CutoverInv, CutoverTypes, StageIsReady
<1>2. /\ tool' \in Tools /\ tool'.phase = "complete" /\ tool'.issue = i
      /\ tool'.todo = tool.todo /\ tool'.ids = tool.ids
  BY <1>1 DEF M!CarryCreates, Tools
<1>3. /\ canonical' \in Canonicals /\ canonical'.live /\ i \in Known' /\ Known \subseteq Known'
      /\ M!RowsOf \subseteq M!RowsOf'
      /\ evidence' \in Evidences /\ evidence'.sums = evidence.sums
      /\ evidence'.stage = evidence.stage /\ evidence'.legacy = evidence.legacy
      /\ evidence'.count = evidence.count
      /\ \A j \in Issues : evidence'.ids[j] # "none" => evidence.ids[j] # "none"
  <2>1. CASE canonical.rows[i] \in {"none", "purging"}
    <3>1. canonical' = M!WithRow(i, "held") /\ evidence' = [evidence EXCEPT !.ids[i] = M!Outdated(@)]
      BY <2>1 DEF M!CarryCreates
    <3>2. /\ canonical' \in Canonicals /\ canonical'.live
          /\ Known' = Known \union {i} /\ M!RowsOf' = M!RowsOf \union {i}
      BY <1>1, <3>1, WithRowProperties
    <3>3. QED
      BY <1>1, <3>1, <3>2, OutdatedProperties
  <2>2. CASE canonical.rows[i] \notin {"none", "purging"}
    <3>1. UNCHANGED <<canonical, evidence>>
      BY <2>2 DEF M!CarryCreates
    <3>2. canonical.rows[i] \in M!Rows
      BY <1>1 DEF Canonicals
    <3>3. i \in Known
      BY <2>2, <3>2 DEF Known, M!Rows
    <3>4. Known' = Known /\ M!RowsOf' = M!RowsOf
      BY <3>1, SetsKeep
    <3>5. QED
      BY <1>1, <3>1, <3>3, <3>4
  <2>3. QED
    BY <2>1, <2>2
<1>4. Now' = Now /\ Live' = Live /\ Then' = Then /\ Sums' = Sums
  BY <1>1, <1>3, SetsKeep
<1>5. CutoverTypes'
  BY <1>1, <1>2, <1>3 DEF CutoverInv, CutoverTypes
<1>6. LegacyKeepsCards' /\ EvidenceIsKept' /\ ImportedIsKnown'
  BY <1>1, <1>3, <1>4 DEF CutoverInv, LegacyKeepsCards, EvidenceIsKept, ImportedIsKnown
<1>7. AnchorsAreTraced'
  BY <1>1, <1>2, <1>3, <1>4 DEF CutoverInv, AnchorsAreTraced
<1>8. StageIsReady' /\ PurgeCoversRows'
  BY <1>1, <1>2, <1>3, <1>4 DEF StageIsReady, PurgeCoversRows
<1>9. QED
  BY <1>5, <1>6, <1>7, <1>8 DEF CutoverInv

\* An anchor is completed (CarryCompletes).
LEMMA CarryCompletesStep ==
    ASSUME CutoverInv, M!CarryCompletes
    PROVE  CutoverInv'
<1>1. /\ UNCHANGED <<legacy, archived, evidence, imported, missed>> /\ tool.phase = "complete"
      /\ tool \in Tools /\ canonical \in Canonicals /\ canonical.live /\ tool.issue \in Known
  BY DEF M!CarryCompletes, CutoverInv, CutoverTypes, StageIsReady
<1>2. /\ tool' \in Tools /\ tool'.phase = "checkpoint" /\ tool'.issue = tool.issue
      /\ tool'.todo = tool.todo /\ tool'.ids = tool.ids
  BY <1>1 DEF M!CarryCompletes, M!Step, Tools
<1>3. PICK i \in Issues : i = tool.issue
  BY <1>1 DEF Known
<1>4. PICK row : row = IF canonical.rows[i] = "held" THEN "anchor" ELSE canonical.rows[i]
  OBVIOUS
<1>5. canonical' = [canonical EXCEPT !.rows[i] = row]
  BY <1>3, <1>4 DEF M!CarryCompletes
<1>6. row \in {"anchor", "card"}
  BY <1>1, <1>3, <1>4 DEF Known
<1>7. /\ canonical' \in Canonicals /\ canonical'.live
      /\ canonical'.rows = [canonical.rows EXCEPT ![i] = row]
      /\ canonical.rows \in [Issues -> M!Rows]
  BY <1>1, <1>5, <1>6 DEF Canonicals, M!Rows
<1>8. Known' = Known /\ M!RowsOf' = M!RowsOf
  BY <1>1, <1>3, <1>6, <1>7 DEF Known, M!RowsOf
<1>9. Now' = Now /\ Live' = Live /\ Then' = Then /\ Sums' = Sums
  BY <1>1, SetsKeep
<1>10. CutoverTypes'
  BY <1>1, <1>2, <1>7 DEF CutoverInv, CutoverTypes
<1>11. LegacyKeepsCards' /\ EvidenceIsKept' /\ ImportedIsKnown'
  BY <1>1, <1>7, <1>8, <1>9 DEF CutoverInv, LegacyKeepsCards, EvidenceIsKept, ImportedIsKnown
<1>12. AnchorsAreTraced' /\ StageIsReady' /\ PurgeCoversRows'
  BY <1>1, <1>2, <1>7, <1>8, <1>9 DEF CutoverInv, AnchorsAreTraced, StageIsReady, PurgeCoversRows
<1>13. QED
  BY <1>10, <1>11, <1>12 DEF CutoverInv

\* The id of a carried anchor is recorded (CarryCheckpoints).
LEMMA CarryCheckpointsStep ==
    ASSUME CutoverInv, M!CarryCheckpoints
    PROVE  CutoverInv'
<1>1. /\ UNCHANGED <<legacy, canonical, archived, imported, missed>> /\ tool.phase = "checkpoint"
      /\ tool \in Tools /\ evidence \in Evidences
      /\ tool.issue \in tool.todo /\ tool.issue \in Known /\ tool.todo \subseteq Now
  BY DEF M!CarryCheckpoints, CutoverInv, CutoverTypes, StageIsReady, AnchorsAreTraced
<1>2. PICK i \in Issues : i = tool.issue
  BY <1>1 DEF Known
<1>3. PICK ids : ids = [tool.ids EXCEPT ![i] = "current"]
  OBVIOUS
<1>4. /\ ids \in [Issues -> Ids]
      /\ \A j \in Issues : ids[j] # "none" => tool.ids[j] # "none" \/ j \in Now
  BY <1>1, <1>2, <1>3 DEF Tools, Ids
<1>5. /\ evidence' = [evidence EXCEPT !.ids = ids, !.keys = tool.keys]
      /\ tool' = [tool EXCEPT !.phase = "carry", !.ids = ids, !.todo = @ \ {i}, !.issue = NoIssue]
  BY <1>2, <1>3 DEF M!CarryCheckpoints, M!Save
<1>6. /\ evidence' \in Evidences /\ evidence'.stage = evidence.stage
      /\ evidence'.legacy = evidence.legacy /\ evidence'.sums = evidence.sums
      /\ evidence'.count = evidence.count /\ evidence'.ids = ids
  BY <1>1, <1>4, <1>5 DEF Evidences, Tools
<1>7. tool' \in Tools /\ tool'.phase = "carry" /\ tool'.ids = ids /\ tool'.todo = tool.todo \ {i}
  BY <1>1, <1>4, <1>5 DEF Tools
<1>8. Now' = Now /\ Live' = Live /\ Then' = Then /\ Sums' = Sums /\ Known' = Known
      /\ M!RowsOf' = M!RowsOf
  BY <1>1, <1>6, SetsKeep
<1>9. CutoverTypes'
  BY <1>1, <1>6, <1>7 DEF CutoverInv, CutoverTypes, M!NoRows
<1>10. LegacyKeepsCards' /\ EvidenceIsKept' /\ ImportedIsKnown'
  BY <1>1, <1>6, <1>8 DEF CutoverInv, LegacyKeepsCards, EvidenceIsKept, ImportedIsKnown
<1>11. AnchorsAreTraced'
  BY <1>1, <1>4, <1>6, <1>7, <1>8 DEF CutoverInv, AnchorsAreTraced
<1>12. StageIsReady' /\ PurgeCoversRows'
  BY <1>1, <1>2, <1>6, <1>7, <1>8 DEF CutoverInv, StageIsReady, PurgeCoversRows
<1>13. QED
  BY <1>9, <1>10, <1>11, <1>12 DEF CutoverInv

\* The second look finds nothing new: every row of the canonical board is an anchor of a card
\* of the legacy board (TransitionRescans).
LEMMA TransitionRescansStep ==
    ASSUME CutoverInv, M!TransitionRescans
    PROVE  CutoverInv'
<1>1. /\ UNCHANGED <<legacy, canonical, archived, imported, missed>> /\ tool.phase = "carry"
      /\ tool.todo = {} /\ tool \in Tools /\ evidence \in Evidences
      /\ Live /\ evidence.legacy /\ canonical.live /\ Now = Sums /\ Now \ missed \subseteq Known
  BY DEF M!TransitionRescans, CutoverInv, CutoverTypes, StageIsReady
<1>2. tool' \in Tools /\ tool'.phase = "archive" /\ tool'.todo = tool.todo /\ tool'.ids = tool.ids
  BY <1>1 DEF M!TransitionRescans, M!Step, Tools
<1>3. evidence' = [evidence EXCEPT !.ids = tool.ids, !.keys = tool.keys]
  BY DEF M!TransitionRescans, M!Save
<1>4. /\ evidence' \in Evidences /\ evidence'.stage = evidence.stage
      /\ evidence'.legacy = evidence.legacy /\ evidence'.sums = evidence.sums
      /\ evidence'.count = evidence.count /\ evidence'.ids = tool.ids
  BY <1>1, <1>3 DEF Evidences, Tools
<1>5. Now' = Now /\ Live' = Live /\ Then' = Then /\ Sums' = Sums /\ Known' = Known
      /\ M!RowsOf' = M!RowsOf
  BY <1>1, <1>4, SetsKeep
<1>6. M!Foreign(tool.ids) = {}
  BY <1>1 DEF M!TransitionRescans, M!Preflight, M!LegacyLive, Live
<1>7. \A i \in M!RowsOf : tool.ids[i] # "none"
  BY <1>6 DEF M!Foreign
<1>8. M!RowsOf \subseteq Now
  BY <1>1, <1>7 DEF CutoverInv, AnchorsAreTraced, LegacyKeepsCards, M!RowsOf
<1>9. imported \ missed \subseteq Known
  BY <1>1, <1>8 DEF CutoverInv, ImportedIsKnown
<1>10. CutoverTypes'
  BY <1>1, <1>2, <1>4 DEF CutoverInv, CutoverTypes, M!NoRows
<1>11. LegacyKeepsCards' /\ EvidenceIsKept' /\ ImportedIsKnown'
  BY <1>1, <1>4, <1>5 DEF CutoverInv, LegacyKeepsCards, EvidenceIsKept, ImportedIsKnown
<1>12. AnchorsAreTraced' /\ StageIsReady' /\ PurgeCoversRows'
  BY <1>1, <1>2, <1>4, <1>5, <1>9 DEF CutoverInv, AnchorsAreTraced, StageIsReady, PurgeCoversRows
<1>13. QED
  BY <1>10, <1>11, <1>12 DEF CutoverInv

\* The legacy board leaves for the archive (TransitionArchives).
LEMMA TransitionArchivesStep ==
    ASSUME CutoverInv, M!TransitionArchives
    PROVE  CutoverInv'
<1>1. /\ UNCHANGED <<canonical, evidence, imported, missed>> /\ tool.phase = "archive"
      /\ tool \in Tools /\ legacy \in Legacies /\ archived \in Seq(M!Content)
      /\ Live /\ evidence.legacy /\ canonical.live /\ Now = Sums
      /\ imported \ missed \subseteq Known
  BY DEF M!TransitionArchives, CutoverInv, CutoverTypes, StageIsReady
<1>2. tool' \in Tools /\ tool'.phase = "finish" /\ tool'.todo = tool.todo /\ tool'.ids = tool.ids
  BY <1>1 DEF M!TransitionArchives, M!Step, Tools
<1>3. PICK content \in M!Content : content = M!LegacyContent /\ content.cards = legacy.cards
  <2>1. PICK content : content = M!LegacyContent
    OBVIOUS
  <2>2. legacy.cards \in [Issues -> M!CardStates] /\ legacy.whole \in BOOLEAN
    BY <1>1 DEF Legacies
  <2>3. QED
    BY <2>1, <2>2 DEF M!LegacyContent, M!Content
<1>4. archived' = Append(archived, content) /\ archived' \in Seq(M!Content)
  BY <1>1, <1>3 DEF M!TransitionArchives
<1>5. /\ DOMAIN archived' = DOMAIN archived \union {Len(archived) + 1}
      /\ archived'[Len(archived) + 1] = content
      /\ \A n \in DOMAIN archived : archived'[n] = archived[n]
  BY <1>1, <1>3, <1>4
<1>6. Then' = Then \union Now
  BY <1>3, <1>5 DEF Then, Now, M!CardsOf
<1>7. legacy' \in Legacies /\ legacy'.at = "absent" /\ legacy'.cards = M!NoRows
  BY DEF M!TransitionArchives, Legacies, M!NoRows, M!CardStates
<1>8. Now' = {} /\ ~Live'
  BY <1>7 DEF Now, Live, M!CardsOf, M!NoRows
<1>9. Sums' = Sums /\ Known' = Known /\ M!RowsOf' = M!RowsOf
  BY <1>1, SetsKeep
<1>10. CutoverTypes'
  BY <1>1, <1>2, <1>4, <1>7 DEF CutoverInv, CutoverTypes, M!NoRows
<1>11. LegacyKeepsCards' /\ EvidenceIsKept' /\ ImportedIsKnown'
  BY <1>1, <1>6, <1>8, <1>9 DEF CutoverInv, LegacyKeepsCards, EvidenceIsKept, ImportedIsKnown
<1>12. AnchorsAreTraced' /\ StageIsReady' /\ PurgeCoversRows'
  BY <1>1, <1>2, <1>6, <1>8 DEF CutoverInv, AnchorsAreTraced, StageIsReady, PurgeCoversRows
<1>13. QED
  BY <1>10, <1>11, <1>12 DEF CutoverInv

\* The transition is written down (TransitionRecords).
LEMMA TransitionRecordsStep ==
    ASSUME CutoverInv, M!TransitionRecords
    PROVE  CutoverInv'
<1>1. /\ UNCHANGED <<legacy, canonical, archived, imported, missed>> /\ tool.phase = "finish"
      /\ tool' = M!Idle /\ evidence \in Evidences /\ evidence.legacy
  BY DEF M!TransitionRecords, CutoverInv, CutoverTypes, StageIsReady
<1>2. /\ evidence' \in Evidences /\ evidence'.stage = "transitioned"
      /\ evidence'.legacy = evidence.legacy /\ evidence'.sums = evidence.sums
      /\ evidence'.count = evidence.count /\ evidence'.ids = evidence.ids
  BY <1>1 DEF M!TransitionRecords, M!Save, Evidences, Stages
<1>3. Now' = Now /\ Live' = Live /\ Then' = Then /\ Sums' = Sums /\ Known' = Known
      /\ M!RowsOf' = M!RowsOf
  BY <1>1, <1>2, SetsKeep
<1>4. CutoverTypes'
  BY <1>1, <1>2, IdleProperties DEF CutoverInv, CutoverTypes, M!NoRows
<1>5. LegacyKeepsCards' /\ EvidenceIsKept' /\ ImportedIsKnown'
  BY <1>1, <1>2, <1>3 DEF CutoverInv, LegacyKeepsCards, EvidenceIsKept, ImportedIsKnown
<1>6. AnchorsAreTraced'
  BY <1>1, <1>2, <1>3, IdleProperties DEF CutoverInv, AnchorsAreTraced
<1>7. StageIsReady' /\ PurgeCoversRows'
  BY <1>1, IdleProperties DEF StageIsReady, PurgeCoversRows
<1>8. QED
  BY <1>4, <1>5, <1>6, <1>7 DEF CutoverInv

-----------------------------------------------------------------------------
(* rollback                                                                 *)

\* Rollback begins when every row of the canonical board is an anchor on record
\* (RollbackBegins).
LEMMA RollbackBeginsStep ==
    ASSUME CutoverInv, M!RollbackBegins
    PROVE  CutoverInv'
<1>1. /\ UNCHANGED <<legacy, canonical, archived, evidence, imported, missed>>
      /\ legacy \in Legacies /\ legacy.at # "noDb" /\ evidence.stage # "none"
      /\ canonical.live => M!Foreign(evidence.ids) = {}
      /\ ~canonical.live => canonical.rows = M!NoRows
  BY DEF M!RollbackBegins, M!RollbackAllowed, M!ScanWorks, CutoverInv, CutoverTypes
<1>2. PICK phase : phase = IF evidence.legacy /\ legacy.at = "absent" THEN "restore" ELSE "purge"
  OBVIOUS
<1>3. PICK todo : todo = IF canonical.live THEN M!Recorded ELSE {}
  OBVIOUS
<1>4. tool' = [M!Idle EXCEPT !.phase = phase, !.todo = todo]
  BY <1>2, <1>3 DEF M!RollbackBegins
<1>5. todo \subseteq Issues /\ phase \in {"restore", "purge"}
  BY <1>2, <1>3 DEF M!Recorded
<1>6. /\ tool' \in Tools /\ tool'.phase = phase /\ tool'.todo = todo
      /\ \A i \in Issues : tool'.ids[i] = "none"
  BY <1>4, <1>5, IdleProperties DEF Tools
<1>7. Now' = Now /\ Live' = Live /\ Then' = Then /\ Sums' = Sums /\ M!RowsOf' = M!RowsOf
  BY <1>1, SetsKeep
<1>8. AnchorsAreTraced'
  BY <1>1, <1>5, <1>6, <1>7 DEF CutoverInv, AnchorsAreTraced
<1>9. todo \subseteq Now \union Then
  BY <1>3 DEF CutoverInv, AnchorsAreTraced, M!Recorded
<1>10. M!RowsOf \subseteq todo
  <2>1. CASE canonical.live
    <3>1. \A i \in M!RowsOf : evidence.ids[i] = "current"
      BY <1>1, <2>1 DEF M!Foreign
    <3>2. QED
      BY <1>3, <2>1, <3>1 DEF M!Recorded, M!RowsOf
  <2>2. CASE ~canonical.live
    BY <1>1, <2>2 DEF M!RowsOf, M!NoRows
  <2>3. QED
    BY <2>1, <2>2
<1>11. phase = "purge" /\ evidence.legacy => Live /\ imported \subseteq Now
  <2>1. SUFFICES ASSUME phase = "purge", evidence.legacy  PROVE Live /\ imported \subseteq Now
    OBVIOUS
  <2>2. Live
    BY <1>1, <1>2, <2>1 DEF Legacies, Live
  <2>3. QED
    BY <1>9, <1>10, <2>2 DEF CutoverInv, ImportedIsKnown, LegacyKeepsCards
<1>12. StageIsReady'
  BY <1>1, <1>2, <1>6, <1>7, <1>11 DEF StageIsReady
<1>13. PurgeCoversRows'
  BY <1>1, <1>3, <1>6, <1>7, <1>9, <1>10 DEF PurgeCoversRows
<1>14. QED
  BY <1>1, <1>6, <1>8, <1>12, <1>13, ToolStep

\* The backup comes back, file by file: the cards on record, or no database yet
\* (RollbackRestores, RollbackFills).
LEMMA RollbackRestoresStep ==
    ASSUME CutoverInv, M!RollbackRestores \/ M!RollbackFills
    PROVE  CutoverInv'
<1>1. /\ UNCHANGED <<canonical, archived, evidence, imported, missed>> /\ tool.phase \in {"restore", "fill"}
      /\ tool \in Tools /\ legacy \in Legacies /\ evidence \in Evidences
      /\ evidence.legacy /\ evidence.stage # "none" /\ Sums # {}
      /\ M!RowsOf \subseteq tool.todo /\ tool.todo \subseteq Now \union Then
  BY DEF M!RollbackRestores, M!RollbackFills, CutoverInv, CutoverTypes, StageIsReady,
         EvidenceIsKept, PurgeCoversRows
<1>2. evidence.sums \in M!Content /\ evidence.sums.cards \in [Issues -> M!CardStates]
      /\ evidence.sums.whole \in BOOLEAN
  BY <1>1 DEF Evidences, M!Content
<1>3. /\ legacy' \in Legacies
      /\ \/ tool.phase = "restore" /\ ~Live /\ legacy'.at = "noDb" /\ legacy'.cards = M!NoRows
         \/ ~Live /\ legacy'.at = "live" /\ legacy'.cards = evidence.sums.cards
         \/ tool.phase = "fill" /\ Live /\ legacy'.at = "live" /\ legacy'.cards = legacy.cards
      /\ tool.phase = "fill" => legacy'.at = "live"
  <2>1. CASE M!RollbackRestores
    <3>1. ~Live /\ tool.phase = "restore"
      BY <2>1 DEF M!RollbackRestores, CutoverInv, StageIsReady, Live
    <3>2. M!NoRows \in [Issues -> M!CardStates]
      BY DEF M!NoRows, M!CardStates
    <3>3. CASE legacy' = [at |-> "noDb", cards |-> M!NoRows, whole |-> FALSE]
      BY <3>1, <3>2, <3>3 DEF Legacies
    <3>4. CASE legacy' = [at |-> "live", cards |-> evidence.sums.cards, whole |-> FALSE]
      BY <1>2, <3>1, <3>4 DEF Legacies
    <3>5. QED
      BY <2>1, <3>3, <3>4 DEF M!RollbackRestores
  <2>2. CASE M!RollbackFills
    <3>1. PICK found : found = IF M!LegacyLive THEN legacy.cards ELSE evidence.sums.cards
      OBVIOUS
    <3>2. legacy' = [at |-> "live", whole |-> evidence.sums.whole, cards |-> found]
          /\ tool.phase = "fill"
      BY <2>2, <3>1 DEF M!RollbackFills
    <3>3. found \in [Issues -> M!CardStates]
      BY <1>1, <1>2, <3>1 DEF Legacies
    <3>4. QED
      BY <1>2, <3>1, <3>2, <3>3 DEF Legacies, M!LegacyLive, Live
  <2>3. QED
    BY <2>1, <2>2
<1>4. /\ tool' \in Tools /\ tool'.todo = tool.todo /\ tool'.ids = tool.ids
      /\ tool.phase = "restore" => tool'.phase = "fill"
      /\ tool.phase = "fill" => tool'.phase = "purge"
  <2>1. CASE M!RollbackRestores
    BY <1>1, <2>1 DEF M!RollbackRestores, M!Step, Tools
  <2>2. CASE M!RollbackFills
    BY <1>1, <2>2 DEF M!RollbackFills, M!Step, Tools
  <2>3. QED
    BY <2>1, <2>2
<1>5. Then' = Then /\ Sums' = Sums /\ Known' = Known /\ M!RowsOf' = M!RowsOf
  BY <1>1, SetsKeep
<1>6. /\ ~Live => Now = {} /\ Then \subseteq Sums
      /\ Live => Sums \subseteq Now /\ Then \subseteq Now
  BY <1>1 DEF CutoverInv, LegacyKeepsCards, EvidenceIsKept
<1>7. \/ tool.phase = "restore" /\ ~Live /\ ~Live' /\ Now' = {}
      \/ ~Live /\ Live' /\ Now' = Sums
      \/ tool.phase = "fill" /\ Live /\ Live' /\ Now' = Now
  BY <1>3 DEF Live, Now, Sums, M!CardsOf, M!NoRows
<1>8. Live' => imported \subseteq Now'
  <2>1. CASE ~Live /\ Live' /\ Now' = Sums
    <3>1. imported \subseteq M!RowsOf \union Sums
      BY <1>1, <2>1 DEF CutoverInv, ImportedIsKnown, Known, M!RowsOf
    <3>2. QED
      BY <1>1, <1>6, <2>1, <3>1
  <2>2. CASE Live /\ Live' /\ Now' = Now
    BY <1>1, <1>6, <2>2 DEF CutoverInv, ImportedIsKnown
  <2>3. QED
    BY <1>7, <2>1, <2>2
<1>9. CutoverTypes'
  BY <1>1, <1>3, <1>4 DEF CutoverInv, CutoverTypes, M!NoRows
<1>10. LegacyKeepsCards' /\ EvidenceIsKept'
  BY <1>1, <1>5, <1>6, <1>7 DEF CutoverInv, LegacyKeepsCards, EvidenceIsKept
<1>11. ImportedIsKnown'
  BY <1>1, <1>5, <1>6, <1>7, <1>8 DEF CutoverInv, ImportedIsKnown
<1>12. Now \union Then \subseteq Now' \union Then'
  BY <1>5, <1>6, <1>7
<1>13. AnchorsAreTraced' /\ PurgeCoversRows'
  BY <1>1, <1>4, <1>5, <1>12 DEF CutoverInv, AnchorsAreTraced, PurgeCoversRows
<1>14. StageIsReady'
  BY <1>1, <1>3, <1>4, <1>5, <1>8 DEF StageIsReady, Live
<1>15. QED
  BY <1>9, <1>10, <1>11, <1>13, <1>14 DEF CutoverInv

\* A row is archived on its way out, then deleted (RollbackPurges).
LEMMA RollbackPurgesStep ==
    ASSUME CutoverInv, NEW i \in Issues, M!RollbackPurges(i)
    PROVE  CutoverInv'
<1>1. /\ UNCHANGED <<legacy, archived, imported, missed>> /\ tool.phase = "purge" /\ i \in tool.todo
      /\ tool \in Tools /\ canonical \in Canonicals /\ evidence \in Evidences /\ evidence.stage # "none"
      /\ evidence.legacy => Live /\ imported \subseteq Now
      /\ M!RowsOf \subseteq tool.todo /\ tool.todo \subseteq Now \union Then
      /\ canonical.rows \in [Issues -> M!Rows]
      /\ canonical.live
  BY DEF M!RollbackPurges, CutoverInv, CutoverTypes, StageIsReady, PurgeCoversRows, Canonicals
<1>2. ~evidence.legacy => ~Live
  BY <1>1 DEF CutoverInv, EvidenceIsKept, Live
<1>3. /\ canonical' \in Canonicals /\ canonical'.live = canonical.live
      /\ tool' \in Tools /\ tool'.phase = "purge" /\ tool'.ids = tool.ids
      /\ tool'.todo \subseteq tool.todo /\ M!RowsOf' \subseteq tool'.todo
      /\ evidence' \in Evidences /\ evidence'.sums = evidence.sums
      /\ evidence'.stage = evidence.stage /\ evidence'.legacy = evidence.legacy
      /\ evidence'.count = evidence.count
      /\ \A j \in Issues : evidence'.ids[j] # "none" => evidence.ids[j] # "none"
  <2>1. CASE canonical.rows[i] # "purging"
    <3>1. canonical' = [canonical EXCEPT !.rows[i] = "purging"] /\ UNCHANGED <<tool, evidence>>
      BY <2>1 DEF M!RollbackPurges
    <3>2. /\ canonical' \in Canonicals /\ canonical'.live = canonical.live
          /\ canonical'.rows = [canonical.rows EXCEPT ![i] = "purging"]
      BY <1>1, <3>1 DEF Canonicals, M!Rows
    <3>3. M!RowsOf' \subseteq M!RowsOf \union {i}
      BY <1>1, <3>2 DEF M!RowsOf
    <3>4. QED
      BY <1>1, <3>1, <3>2, <3>3
  <2>2. CASE canonical.rows[i] = "purging"
    <3>1. /\ canonical' = [canonical EXCEPT !.rows[i] = "none"]
          /\ tool' = [tool EXCEPT !.todo = @ \ {i}]
          /\ evidence' = [evidence EXCEPT !.ids[i] = M!Outdated(@)]
      BY <2>2 DEF M!RollbackPurges
    <3>2. /\ canonical' \in Canonicals /\ canonical'.live = canonical.live
          /\ canonical'.rows = [canonical.rows EXCEPT ![i] = "none"]
      BY <1>1, <3>1 DEF Canonicals, M!Rows
    <3>3. M!RowsOf' \subseteq M!RowsOf \ {i}
      BY <1>1, <3>2 DEF M!RowsOf
    <3>4. tool' \in Tools /\ tool'.phase = "purge" /\ tool'.ids = tool.ids /\ tool'.todo = tool.todo \ {i}
      BY <1>1, <3>1 DEF Tools
    <3>5. QED
      BY <1>1, <3>1, <3>2, <3>3, <3>4, OutdatedProperties
  <2>3. QED
    BY <2>1, <2>2
<1>4. Now' = Now /\ Live' = Live /\ Then' = Then /\ Sums' = Sums
  BY <1>1, <1>3, SetsKeep
<1>5. CutoverTypes'
  BY <1>1, <1>3 DEF CutoverInv, CutoverTypes
<1>6. LegacyKeepsCards' /\ EvidenceIsKept' /\ ImportedIsKnown'
  BY <1>1, <1>2, <1>3, <1>4 DEF CutoverInv, LegacyKeepsCards, EvidenceIsKept, ImportedIsKnown
<1>7. AnchorsAreTraced'
  BY <1>1, <1>3, <1>4 DEF CutoverInv, AnchorsAreTraced
<1>8. StageIsReady' /\ PurgeCoversRows'
  BY <1>1, <1>3, <1>4 DEF StageIsReady, PurgeCoversRows
<1>9. QED
  BY <1>5, <1>6, <1>7, <1>8 DEF CutoverInv

\* The canonical board is removed when nothing is left on it (RollbackDrops).
LEMMA RollbackDropsStep ==
    ASSUME CutoverInv, M!RollbackDrops
    PROVE  CutoverInv'
<1>1. /\ UNCHANGED <<legacy, archived, evidence, imported, missed>> /\ tool.phase = "purge"
      /\ tool \in Tools /\ evidence.stage # "none"
      /\ evidence.legacy => Live /\ imported \subseteq Now
  BY DEF M!RollbackDrops, CutoverInv, CutoverTypes, StageIsReady
<1>2. ~evidence.legacy => ~Live
  BY <1>1 DEF CutoverInv, EvidenceIsKept, Live
<1>3. /\ tool' \in Tools /\ tool'.phase = "revert" /\ tool'.ids = tool.ids /\ tool'.todo = tool.todo
  BY <1>1 DEF M!RollbackDrops, M!Step, Tools
<1>4. canonical' \in Canonicals /\ canonical'.rows = M!NoRows
  BY DEF M!RollbackDrops, Canonicals, M!NoRows, M!Rows
<1>5. Now' = Now /\ Live' = Live /\ Then' = Then /\ Sums' = Sums
  BY <1>1, SetsKeep
<1>6. CutoverTypes'
  BY <1>1, <1>3, <1>4 DEF CutoverInv, CutoverTypes, M!NoRows
<1>7. LegacyKeepsCards' /\ EvidenceIsKept' /\ ImportedIsKnown'
  BY <1>1, <1>2, <1>5 DEF CutoverInv, LegacyKeepsCards, EvidenceIsKept, ImportedIsKnown
<1>8. AnchorsAreTraced' /\ PurgeCoversRows'
  BY <1>1, <1>3, <1>5 DEF CutoverInv, AnchorsAreTraced, PurgeCoversRows
<1>9. StageIsReady'
  BY <1>1, <1>3, <1>5 DEF StageIsReady
<1>10. QED
  BY <1>6, <1>7, <1>8, <1>9 DEF CutoverInv

\* The evidence goes back to the end of migrate (RollbackReverts).
LEMMA RollbackRevertsStep ==
    ASSUME CutoverInv, M!RollbackReverts
    PROVE  CutoverInv'
<1>1. /\ UNCHANGED <<legacy, canonical, archived, imported, missed>> /\ tool.phase = "revert"
      /\ tool' = M!Idle /\ evidence \in Evidences /\ evidence.stage # "none"
  BY DEF M!RollbackReverts, CutoverInv, CutoverTypes, StageIsReady
<1>2. /\ evidence' \in Evidences /\ evidence'.stage = "migrated"
      /\ evidence'.legacy = evidence.legacy /\ evidence'.sums = evidence.sums
      /\ evidence'.count = evidence.count /\ \A i \in Issues : evidence'.ids[i] = "none"
  BY <1>1 DEF M!RollbackReverts, M!Save, Evidences, Stages, M!NoIds, Ids
<1>3. Now' = Now /\ Live' = Live /\ Then' = Then /\ Sums' = Sums /\ Known' = Known
      /\ M!RowsOf' = M!RowsOf
  BY <1>1, <1>2, SetsKeep
<1>4. CutoverTypes'
  BY <1>1, <1>2, IdleProperties DEF CutoverInv, CutoverTypes, M!NoRows
<1>5. LegacyKeepsCards' /\ EvidenceIsKept' /\ ImportedIsKnown'
  BY <1>1, <1>2, <1>3 DEF CutoverInv, LegacyKeepsCards, EvidenceIsKept, ImportedIsKnown
<1>6. AnchorsAreTraced'
  BY <1>1, <1>2, IdleProperties DEF CutoverInv, AnchorsAreTraced
<1>7. StageIsReady' /\ PurgeCoversRows'
  BY <1>1, IdleProperties DEF StageIsReady, PurgeCoversRows
<1>8. QED
  BY <1>4, <1>5, <1>6, <1>7 DEF CutoverInv

-----------------------------------------------------------------------------
(* The cutover as a whole                                                   *)

\* Every step of a stage, of the intake and of a worker keeps the invariant.
LEMMA CutoverStep ==
    ASSUME CutoverInv, [M!Next]_boards
    PROVE  CutoverInv'
<1>1. CASE UNCHANGED boards
  BY <1>1, CutoverStutters DEF boards
<1>2. CASE M!Intake
  <2>1. ASSUME M!Resolve \/ M!IntakeEnds  PROVE CutoverInv'
    BY <2>1, CutoverStutters DEF M!Resolve, M!IntakeEnds
  <2>2. QED
    BY <1>2, <2>1, BootstrapStep, CreateCardStep DEF M!Intake
<1>3. CASE M!Migrate
  BY <1>3, MigrateBeginsStep, MigrateProvisionsStep, MigrateCopiesStep, MigrateRecordsStep
     DEF M!Migrate
<1>4. CASE M!Transition
  BY <1>4, TransitionBeginsStep, TransitionAdoptsStep, TransitionReadsStep, CarryCreatesStep,
     CarryCompletesStep, CarryCheckpointsStep, TransitionRescansStep, TransitionArchivesStep,
     TransitionRecordsStep DEF M!Transition
<1>5. CASE M!Rollback
  BY <1>5, RollbackBeginsStep, RollbackRestoresStep, RollbackPurgesStep, RollbackDropsStep,
     RollbackRevertsStep DEF M!Rollback
<1>6. CASE M!StageFails
  BY <1>6, FailStep DEF M!StageFails
<1>7. CASE M!BackupPruned
  BY <1>7, CutoverStutters DEF M!BackupPruned
<1>8. QED
  BY <1>1, <1>2, <1>3, <1>4, <1>5, <1>6, <1>7, CardMovesStep DEF M!Next

\* The legacy board begins live with all its cards, and nothing else is there.
LEMMA CutoverInitially == M!Init => CutoverInv
<1> SUFFICES ASSUME M!Init  PROVE CutoverInv
  OBVIOUS
<1>1. /\ M!NoRows \in [Issues -> M!CardStates] /\ M!NoRows \in [Issues -> M!Rows]
      /\ M!NoIds \in [Issues -> Ids]
  BY DEF M!NoRows, M!NoIds, M!CardStates, M!Rows, Ids
<1>2. /\ legacy \in Legacies /\ legacy.at = "live" /\ Now # {} /\ imported = Now /\ missed = {}
  BY DEF M!Init, Legacies, Now, M!CardsOf
<1>3. /\ canonical \in Canonicals /\ canonical.rows = M!NoRows /\ archived = <<>> /\ tool = M!Idle
  BY <1>1 DEF M!Init, Canonicals
<1>4. /\ evidence \in Evidences /\ evidence.stage = "none" /\ ~evidence.legacy
      /\ \A i \in Issues : evidence.ids[i] = "none"
  <2>1. [cards |-> M!NoRows, whole |-> FALSE] \in M!Content
    BY <1>1 DEF M!Content
  <2>2. QED
    BY <1>1, <2>1 DEF M!Init, Evidences, Stages, M!NoIds
<1>5. CutoverTypes
  BY <1>2, <1>3, <1>4, IdleProperties DEF CutoverTypes, Now, M!CardsOf
<1>6. Live /\ Then = {}
  BY <1>2, <1>3 DEF Live, Then
<1>7. LegacyKeepsCards /\ EvidenceIsKept /\ ImportedIsKnown
  BY <1>2, <1>4, <1>6 DEF LegacyKeepsCards, EvidenceIsKept, ImportedIsKnown
<1>8. AnchorsAreTraced /\ StageIsReady /\ PurgeCoversRows
  BY <1>3, <1>4, IdleProperties DEF AnchorsAreTraced, StageIsReady, PurgeCoversRows
<1>9. QED
  BY <1>5, <1>7, <1>8 DEF CutoverInv

\* The board that a run resolves knows every imported Issue that was not missed (Route).
LEMMA RouteKnows ==
    ASSUME CutoverInv, tool.phase = "idle", evidence.stage = "none" \/ evidence.legacy,
           NEW i \in imported, M!Route # "none", M!Route = "canonical" => i \notin missed
    PROVE  M!Knows(M!Route, i)
<1>1. /\ i \in Issues /\ canonical.rows \in [Issues -> M!Rows]
      /\ M!LegacyLive <=> Live
      /\ M!CardsOf(legacy) = Now
  BY DEF CutoverInv, CutoverTypes, Canonicals, M!LegacyLive, Live, Now
<1>2. CASE Live
  <2>1. M!HasProvenance("legacy")
    BY <1>1, <1>2 DEF CutoverInv, LegacyKeepsCards, M!HasProvenance
  <2>2. M!Route = "legacy" /\ ~M!HasProvenance("canonical")
    BY <2>1 DEF M!Route
  <2>3. M!RowsOf = {}
    BY <2>2 DEF M!HasProvenance, CutoverInv, CutoverTypes, M!RowsOf, M!NoRows
  <2>4. i \in Now
    BY <1>2, <2>3 DEF CutoverInv, ImportedIsKnown
  <2>5. QED
    BY <2>2, <2>4 DEF M!Knows, Now, M!CardsOf
<1>3. CASE ~Live
  <2>1. evidence.legacy
    BY <1>3 DEF CutoverInv, EvidenceIsKept, Live
  <2>2. canonical.live
    BY <1>3, <2>1 DEF CutoverInv, ImportedIsKnown
  <2>3. ~M!HasProvenance("legacy")
    BY <1>1, <1>3 DEF M!HasProvenance
  <2>4. M!Route = "canonical" /\ i \in Known
    BY <1>3, <2>1, <2>2, <2>3 DEF M!Route, CutoverInv, ImportedIsKnown
  <2>5. QED
    BY <2>4 DEF M!Knows, Known
<1>4. QED
  BY <1>2, <1>3

\* A row that a stage removes is not the only trace of its Issue.
LEMMA TracesKept ==
    ASSUME CutoverInv, [M!Next]_boards, NEW i \in Issues, M!OnlyTrace(i)
    PROVE  canonical'.rows[i] = "card"
<1>1. /\ canonical.rows[i] = "card" /\ i \notin Now \union Then
      /\ canonical \in Canonicals /\ canonical.rows \in [Issues -> M!Rows]
  BY DEF M!OnlyTrace, CutoverInv, CutoverTypes, Canonicals, Now, Then, M!CardsOf
<1>2. CASE UNCHANGED canonical
  BY <1>1, <1>2
<1>3. CASE M!Bootstrap \/ M!MigrateProvisions
  BY <1>1, <1>3 DEF M!Bootstrap, M!MigrateProvisions, Canonicals
<1>4. ASSUME NEW j \in Issues, NEW row \in {"held", "card"}, canonical.rows[j] # "card",
             canonical' = M!WithRow(j, row)
      PROVE  canonical'.rows[i] = "card"
  BY <1>1, <1>4 DEF M!WithRow, Canonicals
<1>5. CASE M!CarryCompletes
  <2>1. PICK row : row = IF canonical.rows[tool.issue] = "held" THEN "anchor" ELSE canonical.rows[tool.issue]
    OBVIOUS
  <2>2. canonical' = [canonical EXCEPT !.rows[tool.issue] = row]
    BY <1>5, <2>1 DEF M!CarryCompletes
  <2>3. QED
    BY <1>1, <2>1, <2>2 DEF Canonicals
<1>6. ASSUME NEW j \in Issues, M!RollbackPurges(j)  PROVE canonical'.rows[i] = "card"
  <2>1. j # i
    BY <1>1, <1>6 DEF CutoverInv, PurgeCoversRows, M!RollbackPurges
  <2>2. PICK row : canonical' = [canonical EXCEPT !.rows[j] = row]
    BY <1>6 DEF M!RollbackPurges
  <2>3. QED
    BY <1>1, <2>1, <2>2 DEF Canonicals
<1>7. CASE M!RollbackDrops
  <2>1. M!RowsOf = {}
    BY <1>7 DEF CutoverInv, PurgeCoversRows, M!RollbackDrops
  <2>2. QED
    BY <1>1, <2>1 DEF M!RowsOf
<1>8. CASE M!Intake
  <2>1. ASSUME NEW j \in Issues, M!CreateCard(j)  PROVE canonical'.rows[i] = "card"
    BY <1>2, <1>4, <2>1 DEF M!CreateCard
  <2>2. QED
    BY <1>2, <1>3, <1>8, <2>1 DEF M!Intake, M!Resolve, M!IntakeEnds
<1>9. CASE M!Migrate
  BY <1>2, <1>3, <1>9
     DEF M!Migrate, M!MigrateBegins, M!MigrateCopies, M!MigrateVerifies, M!MigrateRecords
<1>10. CASE M!Transition
  <2>1. ASSUME NEW j \in Issues, M!CarryCreates(j)  PROVE canonical'.rows[i] = "card"
    BY <1>2, <1>4, <2>1 DEF M!CarryCreates
  <2>2. QED
    BY <1>2, <1>5, <1>10, <2>1
       DEF M!Transition, M!TransitionBegins, M!TransitionAdopts, M!TransitionReads,
           M!TransitionRescans, M!TransitionArchives, M!TransitionRecords, M!CarryCheckpoints
<1>11. CASE M!Rollback
  BY <1>2, <1>6, <1>7, <1>11
     DEF M!Rollback, M!RollbackBegins, M!RollbackRestores, M!RollbackFills, M!RollbackReverts
<1>12. QED
  BY <1>2, <1>8, <1>9, <1>10, <1>11 DEF M!Next, M!StageFails, M!BackupPruned, M!CardMoves, boards

\* The board that the intake is given knows every Issue a work card was ever created for,
\* whatever stage ran and wherever it died, and a postcheck that passes means that every
\* anchor is there; except an Issue whose card was open when the carry read the keys
\* (_transition, _postcheck and _rollback of the migration tool, and the
\* registry the intake reads).
THEOREM CutoverKeepsIssues == M!Spec => []CutoverIsSound
<1>1. CutoverInv => CutoverIsSound
  <2> SUFFICES ASSUME CutoverInv  PROVE CutoverIsSound
    OBVIOUS
  <2>1. M!RouteKnowsImported
    BY RouteKnows DEF M!RouteKnowsImported, M!LeaseFree
  <2>2. M!PostcheckIsSound
    BY DEF M!PostcheckIsSound, M!Postcheck, M!LegacyLive, M!Knows, CutoverInv, ImportedIsKnown,
           Live, Known
  <2>3. QED
    BY <2>1, <2>2 DEF CutoverIsSound
<1>2. [M!Next]_M!vars <=> [M!Next]_boards
  BY DEF M!vars, boards
<1>3. QED
  BY <1>1, <1>2, CutoverInitially, CutoverStep, PTL DEF M!Spec

\* A rollback that removes rows, or the whole board, never removes a card that is the only
\* trace of its Issue (_rollback).
THEOREM CutoverKeepsTraces == M!Spec => OnlyTraceKept
<1>1. [M!Next]_M!vars <=> [M!Next]_boards
  BY DEF M!vars, boards
<1>2. CutoverInv /\ [M!Next]_M!vars =>
        [\A i \in Issues : M!OnlyTrace(i) => canonical'.rows[i] = "card"]_M!vars
  BY <1>1, TracesKept
<1>3. QED
  BY <1>1, <1>2, CutoverInitially, CutoverStep, PTL DEF M!Spec, OnlyTraceKept, M!OnlyTraceKept
=============================================================================
