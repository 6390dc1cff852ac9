--------------------------- MODULE HookReconcile ---------------------------
(***************************************************************************)
(* _reconcile_webhooks (automation/n8n/github-router/router.py): each      *)
(* repository that carries the topic gets one hook of the router, those    *)
(* that were recorded before and lost the topic lose theirs, and then the  *)
(* repositories are recorded.  Only the two accesses to the record hold    *)
(* _STATE_LOCK; the requests /reconcile and /fallback run on threads of    *)
(* their own, and each call to GitHub is a step that others come between.  *)
(***************************************************************************)
EXTENDS Naturals, FiniteSets, FiniteSetsExt

CONSTANTS
    Repos,      \* named by their place in the order of the names
    Requests,   \* threads that reconcile
    MaxHooks,   \* bound of the model: hooks ever created
    MaxChanges, \* bound of the model: topics set or removed
    MaxFaults   \* bound of the model: failing calls

HookAssumption ==
    /\ Repos \subseteq Nat /\ IsFiniteSet(Repos)
    /\ MaxHooks \in Nat /\ MaxChanges \in Nat /\ MaxFaults \in Nat

VARIABLES
    topic,   \* the repositories that carry the topic
    hooks,   \* the ids of the router's hooks of each repository
    managed, \* managed_repositories
    run,     \* what each thread is doing
    made, changes, faults,
    loose    \* history: repositories whose hooks and record may differ

vars == <<topic, hooks, managed, run, made, changes, faults, loose>>

Idle == [pc |-> "idle", current |-> {}, previous |-> {}, left |-> {}, listed |-> {},
         touched |-> {}, alone |-> TRUE]
At(p, pc) == run[p].pc = pc
AllIdle == \A p \in Requests : At(p, "idle")

-----------------------------------------------------------------------------
(* The order of a reconciliation                                            *)

\* Wrong on purpose: the record is compared with itself.
WrongGone(current, recorded) == {}

\* The recorded repositories whose hooks are deleted.
Gone(current, recorded) == recorded \ current

\* The current repositories come first.
Visited(p) ==
    LET wanted == run[p].left \intersect run[p].current
    IN Min(IF wanted # {} THEN wanted ELSE run[p].left)

\* The repository is done with unless some of its hooks are still to be deleted.
Proceeds(p, r, listed, touched) ==
    run' = [run EXCEPT ![p] = [@ EXCEPT
               !.pc = IF listed = {} THEN "list" ELSE "delete",
               !.left = IF listed = {} THEN run[p].left \ {r} ELSE run[p].left,
               !.listed = listed,
               !.touched = run[p].touched \union touched]]

\* A call that fails ends the reconciliation before it records anything.
Fails(p) ==
    /\ run' = [run EXCEPT ![p] = Idle]
    /\ loose' = loose \union run[p].touched

Fault == faults < MaxFaults /\ faults' = faults + 1

-----------------------------------------------------------------------------
\* discover_repositories
Discover(p) ==
    /\ At(p, "idle")
    /\ run' = [q \in Requests |->
          IF q = p THEN [Idle EXCEPT !.pc = "record", !.current = topic, !.alone = AllIdle]
          ELSE [run[q] EXCEPT !.alone = At(q, "idle")]]
    /\ UNCHANGED <<topic, hooks, managed, made, changes, faults, loose>>

ReadRecord(p) ==
    /\ At(p, "record")
    /\ run' = [run EXCEPT ![p] = [@ EXCEPT
                  !.pc = "list", !.previous = managed,
                  !.left = run[p].current \union Gone(run[p].current, managed)]]
    /\ UNCHANGED <<topic, hooks, managed, made, changes, faults, loose>>

\* _list_hooks
List(p) ==
    /\ At(p, "list") /\ run[p].left # {}
    /\ LET r == Visited(p) IN
         IF r \in run[p].current
         THEN run' = [run EXCEPT ![p] = [@ EXCEPT
                         !.pc = IF hooks[r] = {} THEN "create" ELSE "keep", !.listed = hooks[r]]]
         ELSE Proceeds(p, r, hooks[r], {})
    /\ UNCHANGED <<topic, hooks, managed, made, changes, faults, loose>>

\* The oldest hook is updated, if it is still there; the others are duplicates.
Keep(p) ==
    /\ At(p, "keep")
    /\ LET r == Visited(p)
           oldest == Min(run[p].listed) IN
         IF oldest \in hooks[r]
         THEN Proceeds(p, r, run[p].listed \ {oldest}, {}) /\ UNCHANGED loose
         ELSE Fails(p)
    /\ UNCHANGED <<topic, hooks, managed, made, changes, faults>>

Delete(p) ==
    /\ At(p, "delete")
    /\ LET r == Visited(p)
           oldest == Min(run[p].listed) IN
         IF oldest \in hooks[r]
         THEN /\ hooks' = [hooks EXCEPT ![r] = @ \ {oldest}]
              /\ Proceeds(p, r, run[p].listed \ {oldest}, {r})
              /\ UNCHANGED loose
         ELSE Fails(p) /\ UNCHANGED hooks
    /\ UNCHANGED <<topic, managed, made, changes, faults>>

\* GitHub may refuse a second hook with the same URL.
Create(p) ==
    /\ At(p, "create")
    /\ LET r == Visited(p) IN
         \/ /\ made < MaxHooks
            /\ made' = made + 1
            /\ hooks' = [hooks EXCEPT ![r] = @ \union {made'}]
            /\ Proceeds(p, r, {}, {r})
            /\ UNCHANGED loose
         \/ hooks[r] # {} /\ Fails(p) /\ UNCHANGED <<hooks, made>>
    /\ UNCHANGED <<topic, managed, changes, faults>>

\* The hook was created, but the answer is lost.
AnswerLost(p) ==
    /\ At(p, "create") /\ made < MaxHooks /\ Fault
    /\ LET r == Visited(p) IN
         /\ made' = made + 1
         /\ hooks' = [hooks EXCEPT ![r] = @ \union {made'}]
         /\ run' = [run EXCEPT ![p] = Idle]
         /\ loose' = loose \union run[p].touched \union {r}
    /\ UNCHANGED <<topic, managed, changes>>

\* A call, the secret, the state file or the router fails.
CallFails(p) ==
    /\ ~At(p, "idle") /\ Fault
    /\ Fails(p)
    /\ UNCHANGED <<topic, hooks, managed, made, changes>>

\* managed_repositories is overwritten with what was discovered.
Save(p) ==
    /\ At(p, "list") /\ run[p].left = {}
    /\ managed' = run[p].current
    /\ LET named == run[p].current \union run[p].previous
       IN loose' = IF run[p].alone THEN loose \ named ELSE loose \union named
    /\ run' = [run EXCEPT ![p] = Idle]
    /\ UNCHANGED <<topic, hooks, made, changes, faults>>

\* Somebody sets or removes the topic.
Retag(r) ==
    /\ changes < MaxChanges /\ changes' = changes + 1
    /\ topic' = IF r \in topic THEN topic \ {r} ELSE topic \union {r}
    /\ UNCHANGED <<hooks, managed, run, made, faults, loose>>

-----------------------------------------------------------------------------
Init ==
    /\ topic \in SUBSET Repos
    /\ hooks = [r \in Repos |-> {}]
    /\ managed = {} /\ loose = {}
    /\ run = [p \in Requests |-> Idle]
    /\ made = 0 /\ changes = 0 /\ faults = 0

Reconciles(p) ==
    \/ Discover(p) \/ ReadRecord(p) \/ List(p) \/ Keep(p) \/ Delete(p) \/ Create(p)
    \/ AnswerLost(p) \/ CallFails(p) \/ Save(p)

Next == (\E p \in Requests : Reconciles(p)) \/ (\E r \in Repos : Retag(r))

Spec == Init /\ [][Next]_vars

-----------------------------------------------------------------------------
TypeOK ==
    /\ topic \subseteq Repos /\ managed \subseteq Repos /\ loose \subseteq Repos
    /\ hooks \in [Repos -> SUBSET (1..MaxHooks)]
    /\ run \in [Requests -> [pc : {"idle", "record", "list", "keep", "delete", "create"},
                             current : SUBSET Repos, previous : SUBSET Repos, left : SUBSET Repos,
                             listed : SUBSET (1..MaxHooks), touched : SUBSET Repos, alone : BOOLEAN]]
    /\ made \in 0..MaxHooks /\ changes \in 0..MaxChanges /\ faults \in 0..MaxFaults

\* A recorded repository has one hook and another one none, when nothing is under way.
\* Only a reconciliation that failed or overlapped another leaves a difference, only in
\* what it touched or named, and the next one alone mends what it names
\* (_reconcile_webhooks, "previous" and "current").
HooksAreAccounted ==
    AllIdle => \A r \in Repos \ loose : Cardinality(hooks[r]) = IF r \in managed THEN 1 ELSE 0

\* docs/OPERATIONS.md:434-437: the reconciliation leaves one hook to each managed
\* repository and removes the hooks "from repositories that are no longer managed".
HooksFollowTopics ==
    [][\A p \in Requests : Save(p) /\ run[p].alone =>
          \A r \in Repos : hooks[r] # {} => r \in managed']_vars
=============================================================================
