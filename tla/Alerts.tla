------------------------------- MODULE Alerts -------------------------------
(***************************************************************************)
(* Operator attention, from the edge pass that finds an incident to the    *)
(* alert: the event on the card, the entry in the pass's result, the batch *)
(* of an intake run, the deduplication file it reads, the send, and the    *)
(* rewrite of the file.  Every board has one card and three incidents:     *)
(* the card is blocked (a numbered generation, a resolved identity), the   *)
(* board's dispatch lock fails (unresolved, owned by the board), another   *)
(* card reports a failure without identity (unresolved, owned by nobody).  *)
(***************************************************************************)
EXTENDS Naturals, FiniteSets

CONSTANTS Boards,
          Procs,      \* intake processes
          Wake,       \* the one the router wakes; others name one board
          NoBoard,    \* the scope of what no board owns
          MaxChanges, \* bound on incidents that begin or end
          MaxFaults,  \* bound on failing calls and kills
          MaxOverlaps \* reads of a file another run will rewrite, counted so far

AlertsAssumption ==
  /\ IsFiniteSet(Procs) /\ Wake \in Procs /\ NoBoard \notin Boards
  /\ MaxChanges \in Nat /\ MaxFaults \in Nat /\ MaxOverlaps \in Nat

VARIABLES gen,    \* the latest blocked event of each board's card
          open,   \* the incidents that are there now
          noted,  \* generations with an event on their card
          file,   \* the deduplication file
          run,    \* the progress of each process
          changes, faults, overlaps,
          tells,  \* how often each generation was told
          told    \* scopes told since they were last observed clean

vars == <<gen, open, noted, file, run, changes, faults, overlaps, tells, told>>

Gens == Boards \X (1..MaxChanges)
Scopes == Boards \union {NoBoard}
Blocked(b) == [kind |-> "blocked", board |-> b]
Lock(b) == [kind |-> "lock", board |-> b]
Stray(b) == [kind |-> "stray", board |-> b]
Incident == [kind : {"blocked", "lock", "stray"}, board : Boards]

EmptyFile == [keys |-> {}, active |-> {}]
Idle == [pc |-> "idle", todo |-> {}, failed |-> FALSE, seen |-> {},
         keys |-> {}, active |-> {}, mem |-> EmptyFile]

Init ==
  /\ gen = [b \in Boards |-> 0] /\ open = {} /\ noted = {}
  /\ file = EmptyFile
  /\ run = [p \in Procs |-> Idle]
  /\ changes = 0 /\ faults = 0 /\ overlaps = 0
  /\ tells = [k \in Gens |-> 0] /\ told = {}

TypeOK ==
  /\ gen \in [Boards -> 0..MaxChanges] /\ open \subseteq Incident
  /\ noted \subseteq Gens
  /\ file \in [keys : SUBSET Gens, active : SUBSET Scopes]
  /\ \A p \in Procs :
       /\ run[p].pc \in {"idle", "pass", "send", "persist"}
       /\ run[p].keys \subseteq noted
       /\ run[p].active \subseteq Scopes /\ run[p].seen \subseteq Boards
       /\ run[p].mem \in [keys : SUBSET Gens, active : SUBSET Scopes]
  /\ told \subseteq Scopes

-----------------------------------------------------------------------------
At(p, pc) == run[p].pc = pc
Set(p, r) == run' = [run EXCEPT ![p] = r]
Fault == faults < MaxFaults /\ faults' = faults + 1
World == <<gen, open, changes>>

Start(p) ==
  /\ At(p, "idle")
  /\ \E B \in IF p = Wake THEN {Boards} ELSE {{b} : b \in Boards} :
       Set(p, [Idle EXCEPT !.pc = "pass", !.todo = B])
  /\ UNCHANGED <<World, noted, file, faults, overlaps, tells, told>>

\* _operator_attention_payload: a key with an identity, or the scope of none.
KeysOf(b) == IF Blocked(b) \in open THEN {<<b, gen[b]>>} ELSE {}
ActiveOf(b) ==
  (IF Lock(b) \in open THEN {b} ELSE {})
  \union (IF Stray(b) \in open THEN {NoBoard} ELSE {})

(* The edge pass of one board notes an identity on the card once, and      *)
(* reports it in every pass.                                               *)
Observe(p) ==
  /\ At(p, "pass")
  /\ \E b \in run[p].todo :
       /\ noted' = noted \union KeysOf(b)
       /\ Set(p, [run[p] EXCEPT !.todo = @ \ {b}, !.seen = @ \union {b},
                                !.keys = @ \union KeysOf(b),
                                !.active = @ \union ActiveOf(b)])
  /\ UNCHANGED <<World, file, faults, overlaps, tells, told>>

(* A failing pass may have noted its incidents.  A manual run ends there.  *)
ObserveFails(p) ==
  /\ At(p, "pass") /\ Fault
  /\ \E b \in run[p].todo :
       /\ \E K \in {{}, KeysOf(b)} : noted' = noted \union K
       /\ Set(p, IF p # Wake THEN Idle
                 ELSE [run[p] EXCEPT !.todo = @ \ {b}, !.failed = TRUE])
  /\ UNCHANGED <<World, file, overlaps, tells, told>>

\* Other runs that have read the file and are still to write it.
Between(p) == \E q \in Procs \ {p} : run[q].pc \in {"send", "persist"}

(* A wake with a failed board is requeued before anything is sent; the     *)
(* file is read, and what cannot be read counts as empty.                  *)
Read(p) ==
  /\ At(p, "pass") /\ run[p].todo = {}
  /\ \/ run[p].failed /\ Set(p, Idle) /\ UNCHANGED <<faults, overlaps>>
     \/ /\ ~run[p].failed
        /\ overlaps' = IF Between(p) /\ overlaps <= MaxOverlaps THEN overlaps + 1 ELSE overlaps
        /\ \/ Set(p, [run[p] EXCEPT !.pc = "send", !.mem = file]) /\ UNCHANGED faults
           \/ /\ file # EmptyFile /\ Fault
              /\ Set(p, [run[p] EXCEPT !.pc = "send"])
  /\ UNCHANGED <<World, noted, file, tells, told>>

NewKeys(p) == run[p].keys \ run[p].mem.keys
NewActive(p) == run[p].active \ run[p].mem.active
\* How often each was told, counted no further than AlertsAreBounded looks.
Count(K) == [k \in Gens |-> IF k \in K /\ tells[k] <= 1 + MaxFaults + MaxOverlaps
                            THEN tells[k] + 1 ELSE tells[k]]

(* Everything new goes out in one message; nothing new sends none.         *)
Send(p) ==
  /\ At(p, "send")
  /\ tells' = Count(NewKeys(p))
  /\ told' = told \union NewActive(p)
  /\ Set(p, [run[p] EXCEPT !.pc = "persist"])
  /\ UNCHANGED <<World, noted, file, faults, overlaps>>

(* Wrong on purpose: a failed send is recorded like a delivered one.       *)
WrongSendFails(p) ==
  /\ At(p, "send") /\ NewKeys(p) \union NewActive(p) # {} /\ Fault
  /\ Set(p, [run[p] EXCEPT !.pc = "persist"])
  /\ UNCHANGED <<World, noted, file, overlaps, tells, told>>

(* A refused or timed-out send leaves the file alone; the timed-out one    *)
(* may have been delivered.                                                *)
SendFails(p) ==
  /\ At(p, "send") /\ NewKeys(p) \union NewActive(p) # {} /\ Fault
  /\ \/ UNCHANGED <<tells, told>>
     \/ /\ tells' = Count(NewKeys(p))
        /\ told' = told \union NewActive(p)
  /\ Set(p, Idle)
  /\ UNCHANGED <<World, noted, file, overlaps>>

\* The scopes this run speaks for: its boards, and what no board owns only
\* when it met such an incident.
Observed(p) == run[p].seen \union (run[p].active \intersect {NoBoard})

(* Wrong on purpose: scopes that were observed clean are kept.             *)
WrongPersist(p) ==
  /\ At(p, "persist")
  /\ file' = [keys |-> run[p].mem.keys \union NewKeys(p),
              active |-> run[p].mem.active \union run[p].active]
  /\ told' = told \ (Observed(p) \ run[p].active)
  /\ Set(p, Idle)
  /\ UNCHANGED <<World, noted, faults, overlaps, tells>>

(* The whole file is written from what this run read.                      *)
Persist(p) ==
  /\ At(p, "persist")
  /\ file' = [keys |-> run[p].mem.keys \union NewKeys(p),
              active |-> (run[p].mem.active \ Observed(p)) \union run[p].active]
  /\ told' = told \ (Observed(p) \ run[p].active)
  /\ Set(p, Idle)
  /\ UNCHANGED <<World, noted, faults, overlaps, tells>>

(* A failed write is only a warning.                                       *)
PersistFails(p) ==
  /\ At(p, "persist") /\ Fault
  /\ Set(p, Idle)
  /\ UNCHANGED <<World, noted, file, overlaps, tells, told>>

Crash(p) ==
  /\ ~At(p, "idle") /\ Fault
  /\ Set(p, Idle)
  /\ UNCHANGED <<World, noted, file, overlaps, tells, told>>

-----------------------------------------------------------------------------
(* An incident begins or ends; blocking the card again is a new one.       *)
Change ==
  /\ changes < MaxChanges /\ changes' = changes + 1
  /\ \E i \in Incident :
       /\ open' = IF i \in open THEN open \ {i} ELSE open \union {i}
       /\ gen' = IF i.kind = "blocked" /\ i \notin open
                 THEN [gen EXCEPT ![i.board] = @ + 1] ELSE gen
  /\ UNCHANGED <<noted, file, run, faults, overlaps, tells, told>>

Steps(p) == Observe(p) \/ Read(p) \/ Send(p) \/ Persist(p)

Next ==
  \/ \E p \in Procs :
       Start(p) \/ Steps(p) \/ ObserveFails(p) \/ SendFails(p) \/ PersistFails(p) \/ Crash(p)
  \/ Change

(* Wakes recur for as long as the safety net asks for sweeps.              *)
Fairness ==
  /\ WF_vars(Start(Wake))
  /\ \A p \in Procs : WF_vars(Steps(p))

Spec == Init /\ [][Next]_vars /\ Fairness

-----------------------------------------------------------------------------
(* The file never holds back an alert that was not delivered, whatever     *)
(* fails and whichever runs overlap (persist_observer_state only after a   *)
(* delivery, docs/H4V3_OVERVIEW.md "a failed send never marks new delivery *)
(* state").                                                                *)
RecordedWasTold ==
  /\ \A k \in file.keys : tells[k] > 0
  /\ overlaps = 0 => file.active \subseteq told

(* One generation is told once, and once more for every lost write, every  *)
(* uncertain send and every run that read the file between another run's   *)
(* reading and writing of it: no incident is an alert storm.               *)
AlertsAreBounded ==
  overlaps <= MaxOverlaps => \A k \in Gens : tells[k] <= 1 + faults + overlaps

(* A blocked card whose incident stays is told of, and so is a failing     *)
(* dispatch lock, also when it had been told, observed clean and failed    *)
(* again, as long as no manual run reads the file while a wake is between  *)
(* reading and writing it.                                                 *)
IncidentIsTold ==
  \A b \in Boards :
    /\ <>[](Blocked(b) \in open) => <>[](Blocked(b) \in open /\ tells[<<b, gen[b]>>] > 0)
    /\ <>[](Lock(b) \in open) => <>[](b \in told \/ overlaps > 0)
=============================================================================
