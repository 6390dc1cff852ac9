---------------------------- MODULE CardCreation ----------------------------
(***************************************************************************)
(* How a worker of kanban-main creates specialist cards: the pre-tool      *)
(* hook admits the card to a bounded investigation search in a ledger of   *)
(* events on the search's root, materialises it under its idempotency key  *)
(* and reads it back, and only then lets the tool run.  A search has two   *)
(* candidates, A and B, and a selector that either closes over A, or       *)
(* waits for B and closes over both.  Each hook is a process of its own.   *)
(***************************************************************************)
EXTENDS Naturals, FiniteSets, FiniteSetsExt

CONSTANTS Mains,     \* cards of kanban-main
          Above,     \* the cards each of them descends from, itself included
          Sessions, CardOf, \* agents, and the card each was started for
          Searches,
          CandidateKeys, SelectorKeys, \* idempotency keys
          Budgets,   \* the max_total_tokens its calls may declare, per search
          MaxOpened  \* bound on the searches

Candidates == {"A", "B"}
MaxCandidates == 2  \* _INVESTIGATION_SEARCH_MAX_CANDIDATES
MaxRetries == 2     \* _INVESTIGATION_SEARCH_MAX_RETRIES

ASSUME CreationAssumption ==
  /\ Above \in [Mains -> SUBSET Mains] /\ \A c \in Mains : c \in Above[c]
  /\ CardOf \in [Sessions -> Mains]
  /\ Budgets \in [Searches -> SUBSET (Nat \ {0})]
  /\ CandidateKeys \intersect SelectorKeys = {}
  /\ \A ks \in {CandidateKeys, SelectorKeys} : \E j, k \in ks : j # k
  /\ MaxOpened \in Nat

VARIABLES opened,     \* admission events: searches with their budgets
          candidates, \* candidate events, with what they reserve
          selectors,  \* selector events
          cards,      \* the cards created, by idempotency key
          hook        \* what each session's hook has let through so far

ledger == <<opened, candidates, selectors>>
vars == <<opened, candidates, selectors, cards, hook>>

Keys == CandidateKeys \union SelectorKeys
NoCard == [kind |-> "none"]
Idle == [at |-> "idle"]

(* What a call may ask for.  A candidate hangs below the asking card, a    *)
(* card without the marker below nothing, and a selector's parents are the *)
(* cards it names.                                                         *)
CandidateCalls(c) ==
  UNION {[kind : {"candidate"}, root : Mains, search : {x}, id : Candidates,
          key : CandidateKeys, budget : Budgets[x], parents : {{c}}] : x \in Searches}
Named(mode) == {T \in SUBSET CandidateKeys :
                  Cardinality(T) = IF mode \in {"awaiting", "single"} THEN 1 ELSE MaxCandidates}
SelectorCalls ==
  UNION {[kind : {"selector"}, root : Mains, search : {x}, key : SelectorKeys,
          budget : Budgets[x], mode : {mode}, parents : Named(mode)] :
           x \in Searches, mode \in {"awaiting", "single", "pair", "expanded"}}
PlainCalls == [kind : {"plain"}, key : CandidateKeys, parents : {{}}]

TypeOK ==
  /\ opened \subseteq [root : Mains, search : Searches, budget : Nat]
  /\ candidates \subseteq [root : Mains, search : Searches, id : Candidates,
                           key : CandidateKeys, tokens : Nat, retries : Nat]
  /\ selectors \subseteq [root : Mains, search : Searches, key : SelectorKeys,
                          state : {"pending", "closed"}, named : SUBSET CandidateKeys]
  /\ \A k \in Keys : cards[k] # NoCard =>
       /\ cards[k].kind \in {"candidate", "selector", "plain"}
       /\ cards[k].below \subseteq Mains
       /\ cards[k].status \in {"open", "blocked"}
  /\ \A s \in Sessions : hook[s].at \in {"idle", "admitted"}

Init ==
  /\ opened = {} /\ candidates = {} /\ selectors = {}
  /\ cards = [k \in Keys |-> NoCard]
  /\ hook = [s \in Sessions |-> Idle]
-----------------------------------------------------------------------------
(* The ledger, as the admission transaction reads it. *)
Of(events, r) == {e \in events : e.root = r.root /\ e.search = r.search}
Closed(r) == \E e \in Of(selectors, r) : e.state = "closed"

Active(c) == {a \in opened : a.root \in Above[c] /\ ~Closed(a)}

(* The asking card descends from the root, the search is the one under     *)
(* way or the first, and it keeps the budget it was opened with.           *)
Authorized(c, r) == r.root \in Above[c]
MayEnter(c, r) ==
  /\ Authorized(c, r)
  /\ \/ \E a \in Of(opened, r) : a.budget = r.budget
     \/ /\ Of(opened, r) = {} /\ {a \in Active(c) : a.search # r.search} = {}
        /\ Cardinality(opened) < MaxOpened

Entry(r) == [root |-> r.root, search |-> r.search, budget |-> r.budget]
Share(budget) == (budget + MaxCandidates - 1) \div MaxCandidates
CandidateEvent(r) ==
  [root |-> r.root, search |-> r.search, id |-> r.id, key |-> r.key,
   tokens |-> Share(r.budget), retries |-> 1]

(* A candidate already on record is let through again under its own key.   *)
CandidateReplayed(r) ==
  \E e \in Of(candidates, r) : e.id = r.id /\ e.key = r.key

(* Wrong on purpose: a late B is admitted to a search that is closed. *)
WrongCandidateFits(r) ==
  LET taken == Of(candidates, r) IN
  /\ \A e \in taken : e.id # r.id /\ e.key # r.key
  /\ MapThenSumSet(LAMBDA e : e.tokens, taken) + Share(r.budget) <= r.budget

CandidateFits(r) ==
  LET taken == Of(candidates, r) IN
  /\ \A e \in taken : e.id # r.id /\ e.key # r.key
  /\ ~Closed(r)
  /\ Cardinality({e.id : e \in taken}) < MaxCandidates
  /\ MapThenSumSet(LAMBDA e : e.tokens, taken) + Share(r.budget) <= r.budget
  /\ MapThenSumSet(LAMBDA e : e.retries, taken) + 1 <= MaxRetries

SelectorEvent(r) ==
  [root |-> r.root, search |-> r.search, key |-> r.key, named |-> r.parents,
   state |-> IF r.mode = "awaiting" THEN "pending" ELSE "closed"]
Bound(r, k) ==
  /\ cards[k] # NoCard /\ cards[k].kind # "selector"
  /\ \E e \in Of(candidates, r) : e.key = k
  /\ r.root \in cards[k].below

SelectorReplayed(r) == SelectorEvent(r) \in selectors

(* Wrong on purpose: whoever waited for B can no longer close over A. *)
WrongSelectorFits(r) ==
  LET earlier == Of(selectors, r) IN
  /\ \A e \in earlier : e.key # r.key
  /\ r.mode \in {"awaiting", "single", "pair"} => earlier = {}
  /\ r.mode = "expanded" => earlier # {}
  /\ ~Closed(r)
  /\ {e.id : e \in Of(candidates, r)} =
       IF r.mode \in {"awaiting", "single"} THEN {"A"} ELSE Candidates
  /\ \A k \in r.parents : Bound(r, k)

(* One selector may wait for B; the one that closes says whether it closes *)
(* over A alone, over the pair at once, or over the pair after waiting.    *)
SelectorFits(r) ==
  LET earlier == Of(selectors, r) IN
  /\ \A e \in earlier : e.key # r.key
  /\ r.mode = "awaiting" => earlier = {}
  /\ r.mode = "pair" => earlier = {}
  /\ r.mode = "expanded" => earlier # {}
  /\ ~Closed(r)
  /\ {e.id : e \in Of(candidates, r)} =
       IF r.mode \in {"awaiting", "single"} THEN {"A"} ELSE Candidates
  /\ \A k \in r.parents : Bound(r, k)
-----------------------------------------------------------------------------
(* The hook of a session runs up to the admission.  A structured call      *)
(* whose live run cannot be proved is refused and changes nothing.         *)
Wanted(r) == [kind |-> r.kind, key |-> r.key, parents |-> r.parents]
Pass(s, r) == hook' = [hook EXCEPT ![s] = [at |-> "admitted", card |-> Wanted(r)]]

AdmitCandidate(s) ==
  /\ hook[s] = Idle
  /\ \E r \in CandidateCalls(CardOf[s]) :
       /\ MayEnter(CardOf[s], r)
       /\ \/ CandidateReplayed(r) /\ UNCHANGED ledger
          \/ /\ CandidateFits(r)
             /\ opened' = opened \union {Entry(r)}
             /\ candidates' = candidates \union {CandidateEvent(r)}
             /\ UNCHANGED selectors
       /\ Pass(s, r)
  /\ UNCHANGED cards

AdmitSelector(s) ==
  /\ hook[s] = Idle
  /\ \E r \in SelectorCalls :
       /\ MayEnter(CardOf[s], r)
       /\ \/ SelectorReplayed(r) /\ UNCHANGED selectors
          \/ SelectorFits(r) /\ selectors' = selectors \union {SelectorEvent(r)}
       /\ Pass(s, r)
  /\ UNCHANGED <<opened, candidates, cards>>

(* A call without the marker waits for the searches above its card, except *)
(* on the terminal, whose hook does not know the card it runs for.         *)
AdmitPlain(s) ==
  /\ hook[s] = Idle /\ Active(CardOf[s]) = {}
  /\ \E r \in PlainCalls : Pass(s, r)
  /\ UNCHANGED <<ledger, cards>>
TerminalPlain(s) ==
  /\ hook[s] = Idle
  /\ \E r \in PlainCalls : Pass(s, r)
  /\ UNCHANGED <<ledger, cards>>

(* The checks that follow the admission (dependency wait, contract,        *)
(* runtime, repository binding, lock) refuse, or the hook times out.  What *)
(* is on record stays.                                                     *)
Leave(s) == hook' = [hook EXCEPT ![s] = Idle]
Refuse(s) == hook[s].at = "admitted" /\ Leave(s) /\ UNCHANGED <<ledger, cards>>

(* Creation and read-back are one transaction under the key's lock.  A new *)
(* card is made as asked; one that is there already must be what is asked  *)
(* for, or it is quarantined unless somebody works on it.  The hook's      *)
(* later read-backs and the tool itself find the card and change nothing.  *)
Below(r) == IF r.kind = "selector" THEN UNION {cards[k].below : k \in r.parents}
                                   ELSE UNION {Above[c] : c \in r.parents}
Made(r) == [kind |-> r.kind, below |-> Below(r), parents |-> r.parents, status |-> "open"]
Exists(k) == cards[k] # NoCard
AsAsked(k, r) == cards[k].parents = r.parents
Quarantine(k) == \/ cards' = [cards EXCEPT ![k].status = "blocked"]
                 \/ UNCHANGED cards  \* somebody has claimed it: no row matches
Materialize(s) ==
  /\ hook[s].at = "admitted"
  /\ LET r == hook[s].card
     IN \/ ~Exists(r.key) /\ cards' = [cards EXCEPT ![r.key] = Made(r)]
        \/ Exists(r.key) /\ AsAsked(r.key, r) /\ UNCHANGED cards
        \/ Exists(r.key) /\ ~AsAsked(r.key, r) /\ Quarantine(r.key)
  /\ Leave(s)
  /\ UNCHANGED ledger
-----------------------------------------------------------------------------
Next == \E s \in Sessions :
  \/ AdmitCandidate(s) \/ AdmitSelector(s) \/ AdmitPlain(s) \/ TerminalPlain(s)
  \/ Refuse(s) \/ Materialize(s)

Spec == Init /\ [][Next]_vars
-----------------------------------------------------------------------------
(* No root ever has two searches under way, whichever sessions below it    *)
(* open them: the look at the searches and the admission are one           *)
(* transaction, and waiting for B does not end a search (_search_admit).   *)
OneSearchPerRoot ==
  \A a, b \in opened : a.root = b.root /\ ~Closed(a) /\ ~Closed(b) => a = b

(* A closed search was closed over all the candidates it will ever have:   *)
(* its selector names exactly the admitted keys, each of them a card that  *)
(* exists below the root (_search_admit's selector branch).                *)
ChoiceIsBound ==
  \A e \in selectors : e.state = "closed" =>
    /\ e.named = {d.key : d \in Of(candidates, e)}
    /\ \A k \in e.named : cards[k] # NoCard /\ e.root \in cards[k].below

(* A card made for a search is on the search's ledger, with its share of   *)
(* the budget reserved, however the session that made it has fared since   *)
(* ("before task mutation", docs/KANBAN_ROLE_CONTRACTS.md).                *)
LedgerPrecedesCard ==
  \A k \in Keys :
    /\ cards[k].kind = "candidate" => \E e \in candidates : e.key = k
    /\ cards[k].kind = "selector" =>
         \E e \in selectors : e.key = k /\ e.named = cards[k].parents

(* No search is left without an end: as long as the cards of its admitted  *)
(* candidates hang below its root, some selector may close it or the other *)
(* candidate may join it.  A search opened with B under an odd budget is   *)
(* the exception: A's share no longer fits.                                *)
Entered(a) == {e.id : e \in Of(candidates, a)}
OpenSearchCanClose ==
  \A a \in opened :
    (/\ ~Closed(a)
     /\ \A e \in Of(candidates, a) : Bound(a, e.key)
     /\ Entered(a) # {"B"} \/ a.budget % 2 = 0)
    => \/ \E r \in CandidateCalls(a.root) :
            r.root = a.root /\ r.search = a.search /\ r.budget = a.budget /\ CandidateFits(r)
       \/ \E r \in SelectorCalls :
            /\ r.root = a.root /\ r.search = a.search /\ r.mode # "awaiting"
            /\ SelectorFits(r)
=============================================================================
