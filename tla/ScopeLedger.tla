---------------------------- MODULE ScopeLedger ----------------------------
(***************************************************************************)
(* What the router's scope store promises the rest of the intake, without  *)
(* lists, clocks or places: the life of each scope, one entry per scope.   *)
(* A scope waits, is held by the worker of its latest grant, and then is   *)
(* done for good, waits once more with one try spent, or is parked when    *)
(* its tries are spent; a parked scope may be lost.  ScopeStore implements *)
(* this specification.                                                     *)
(***************************************************************************)
EXTENDS Naturals

CONSTANTS ScopeIds, MaxAttempts

VARIABLE ledger   \* the entry of each scope

Entry(phase, tries, grants) == [phase |-> phase, tries |-> tries, grants |-> grants]

\* The entries a waiting or held scope may have once its wait or its claim ended
\* without success.  A scope parked while the parking lot is full may be lost.
GivenBack(e) ==
    IF e.tries + 1 < MaxAttempts
    THEN {Entry("waiting", e.tries + 1, e.grants)}
    ELSE {Entry("parked", e.tries + 1, e.grants), Entry("lost", 0, e.grants)}

\* The entries recovery, which runs inside every step, may leave of entry e.
Settled(e) ==
    {e} \union (IF e.phase \in {"waiting", "held"} THEN GivenBack(e) ELSE {})
        \union (IF e.phase = "parked" THEN {Entry("lost", 0, e.grants)} ELSE {})

\* What an operation makes of the settled entry e of the scope it is about.
Enqueued(e) == {f \in {Entry("waiting", 0, e.grants)} : e.phase = "absent"}
Granted(e)  == {f \in {Entry("held", e.tries, e.grants + 1)} : e.phase = "waiting"}
Retired(e)  == {f \in {Entry("done", 0, e.grants)} : e.phase = "held"}
Returned(e) == {f \in GivenBack(e) : e.phase = "held"}

Init == ledger = [id \in ScopeIds |-> Entry("absent", 0, 0)]

\* One operation is about at most one scope; the others only settle.
Step(id) ==
    /\ \E e \in Settled(ledger[id]) :
         ledger'[id] \in {e} \union Enqueued(e) \union Granted(e) \union Retired(e) \union Returned(e)
    /\ \A other \in ScopeIds \ {id} : ledger'[other] \in Settled(ledger[other])
    /\ ledger' = [other \in ScopeIds |-> ledger'[other]]

Next == \E id \in ScopeIds : Step(id)

Spec == Init /\ [][Next]_ledger
=============================================================================
