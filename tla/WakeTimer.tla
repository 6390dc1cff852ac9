----------------------------- MODULE WakeTimer -----------------------------
(***************************************************************************)
(* The one-shot delayed wake of the router entrypoint                      *)
(* (automation/n8n/github-router/router_entrypoint.py): the process-wide   *)
(* _DELAYED_SCOPE_WAKE_DEADLINE and _GENERATION and the daemon threads     *)
(* that sleep until a deadline, read the durable queue again and wake the  *)
(* intake.  Every step between two lock acquisitions is an action.         *)
(*                                                                         *)
(* Times are seconds still to go, 0 when the time has come: the code only  *)
(* compares deadlines with one another and with the clock.  A generation   *)
(* is the thread that was started for it.  What a thread reads from the    *)
(* queue is a parameter: IntakePlane gives it the queue, its clock and the *)
(* callers of Schedule.                                                    *)
(***************************************************************************)
EXTENDS Naturals

CONSTANTS
    Threads,    \* slots for timer threads; a slot is used again when its thread ended
    NoDeadline, \* None
    MaxDelay    \* the longest delay a caller asks for

TimerAssumption ==
    /\ MaxDelay \in Nat
    /\ NoDeadline \notin Nat
    /\ Threads # {}

VARIABLES
    deadline, \* _DELAYED_SCOPE_WAKE_DEADLINE
    current,  \* the thread of _DELAYED_SCOPE_WAKE_GENERATION
    timers,   \* the state of each thread
    missed    \* history: a hint was coalesced into a thread that slept no more, or
              \* a thread could not read the queue

timerVars == <<deadline, current, timers, missed>>

Delays == 0..MaxDelay

\* pc of a thread: "off", or the lock section or call it is about to do.
Timer(pc, left) == [pc |-> pc, left |-> left]
Off == Timer("off", 0)

\* The steps of a thread that was the current one when it last looked.
Busy == {"sleep", "read", "decide", "wake", "clear", "move"}

TimerInit ==
    /\ deadline = NoDeadline
    /\ current \in Threads
    /\ timers = [k \in Threads |-> Off]
    /\ missed = FALSE

-----------------------------------------------------------------------------
\* One second passes.
Sooner(d) == IF d = NoDeadline \/ d = 0 THEN d ELSE d - 1

TimerTick ==
    /\ deadline' = Sooner(deadline)
    /\ timers' = [k \in Threads |-> Timer(timers[k].pc, Sooner(timers[k].left))]
    /\ UNCHANGED <<current, missed>>

\* Wrong on purpose, like the other definitions named Wrong...: each is the plausible
\* bug that the mutation run of one property puts in place of the definition below it.
WrongCoalesced(d) == deadline # NoDeadline /\ deadline >= d

\* _schedule_delayed_scope_wake: coalesced into a deadline that is no later.
Coalesced(d) == deadline # NoDeadline /\ deadline <= d

Coalesce(d) ==
    /\ Coalesced(d)
    /\ missed' = (missed \/ timers[current].pc # "sleep")
    /\ UNCHANGED <<deadline, current>>

WrongStartTimer(d, ts) ==
    \E k \in Threads :
        /\ ts[k].pc = "off"
        /\ timers' = [ts EXCEPT ![k] = Timer("sleep", d)]
        /\ deadline' = d
        /\ UNCHANGED current

\* The hint starts a thread of its own; "ts" are the threads it starts it among.
StartTimer(d, ts) ==
    \E k \in Threads :
        /\ ts[k].pc = "off"
        /\ timers' = [ts EXCEPT ![k] = Timer("sleep", d)]
        /\ current' = k
        /\ deadline' = d

Schedule(d) ==
    \/ Coalesce(d) /\ UNCHANGED timers
    \/ ~Coalesced(d) /\ StartTimer(d, timers) /\ UNCHANGED missed

-----------------------------------------------------------------------------
\* _delayed_scope_wake_background.
Step(k, from, to) ==
    /\ timers[k].pc = from
    /\ timers' = [timers EXCEPT ![k] = IF to = "off" THEN Off ELSE Timer(to, 0)]

\* The thread slept until its deadline and looks whether it is still the one.
StillCurrent(k) == k = current /\ deadline = timers[k].left

TimerCheck(k) ==
    /\ timers[k].pc = "sleep" /\ timers[k].left = 0
    /\ Step(k, "sleep", IF StillCurrent(k) THEN "read" ELSE "off")
    /\ UNCHANGED <<deadline, current, missed>>

\* It reads the earliest not_before of the durable queue, NoDeadline if empty.
TimerRead(k, earliest) ==
    /\ timers[k].pc = "read"
    /\ timers' = [timers EXCEPT ![k] =
           IF earliest = NoDeadline THEN Timer("clear", 0) ELSE Timer("decide", earliest)]
    /\ UNCHANGED <<deadline, current, missed>>

\* The read raised: the state lock or file could not be had.
TimerReadFails(k) ==
    /\ Step(k, "read", "clear")
    /\ missed' = TRUE
    /\ UNCHANGED <<deadline, current>>

\* It compares what it read with the clock of this moment.
TimerDecide(k) ==
    /\ timers[k].pc = "decide"
    /\ timers' = [timers EXCEPT ![k].pc = IF timers[k].left > 0 THEN "move" ELSE "wake"]
    /\ UNCHANGED <<deadline, current, missed>>

\* core._wake() returned or raised.
TimerWake(k) ==
    /\ Step(k, "wake", "clear")
    /\ UNCHANGED <<deadline, current, missed>>

\* _clear_delayed_scope_wake: only the current generation clears the deadline.
Cleared(k) == IF k = current THEN NoDeadline ELSE deadline

TimerClear(k) ==
    /\ Step(k, "clear", "off")
    /\ deadline' = Cleared(k)
    /\ UNCHANGED <<current, missed>>

\* The queue's earliest time moved later: clear, and then schedule that time.
TimerMove(k) ==
    /\ timers[k].pc = "move"
    /\ timers' = [timers EXCEPT ![k].pc = "again"]
    /\ deadline' = Cleared(k)
    /\ UNCHANGED <<current, missed>>

TimerAgain(k) ==
    LET d == timers[k].left IN
    /\ timers[k].pc = "again"
    /\ \/ Coalesce(d) /\ Step(k, "again", "off")
       \/ ~Coalesced(d) /\ StartTimer(d, [timers EXCEPT ![k] = Off]) /\ UNCHANGED missed

-----------------------------------------------------------------------------
TimerTypeOK ==
    /\ deadline \in Delays \union {NoDeadline}
    /\ current \in Threads
    /\ timers \in [Threads -> [pc : Busy \union {"off", "again"}, left : Delays]]
    /\ missed \in BOOLEAN

\* A deadline that is set belongs to a thread that still runs and will clear it:
\* otherwise every later hint would be coalesced into a wake that never comes.
DeadlineHasThread == deadline # NoDeadline => timers[current].pc \in Busy
=============================================================================
