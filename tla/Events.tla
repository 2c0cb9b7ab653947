------------------------------- MODULE Events -------------------------------
(***************************************************************************)
(* Event objects and the tasks parked on them: src/objects/event.c, with   *)
(* the system calls that wait (35, 58, 81, 85, 86, 101) and the timer's    *)
(* event_tick.  Handlers run with interrupts masked on the CPU that runs   *)
(* tasks, so each is one action.                                           *)
(*                                                                         *)
(* An event and the kernel object that names it are one identity here; the *)
(* index a wait answers is the event it stands for.                        *)
(***************************************************************************)
EXTENDS Ticks, Sequences

CONSTANTS Tasks,      \* task slots
          Events,     \* events[EVENT_MAX]
          WaitMax,    \* EVENT_WAIT_MANY_MAX
          Stoppable   \* the tasks stop signals reach

ASSUME EventsAssumption ==
    /\ Tasks \subseteq Nat
    /\ Stoppable \subseteq Tasks
    /\ WaitMax \in Nat
    /\ Events \cap {"none", "-1", "gone", "ETIMEDOUT"} = {}

VARIABLES
    active, manual, signaled,   \* struct event_state,
    waiters,                    \* its bit per task slot
    wait_set,                   \* wait_sets and wait_counts
    deadline, timed,            \* wait_deadlines, wait_timed
    state,                      \* state of the task
    result,                     \* what its last wait answered
    timer_ticks,
    left                        \* history: ticks a timed wait has left

event == <<active, manual, signaled, waiters>>
waits == <<wait_set, deadline, timed>>
task == <<state, result>>
vars == <<event, waits, task, timer_ticks, left>>

Results == Events \cup {"none", "-1", "gone", "ETIMEDOUT"}

TypeOK ==
    /\ active \in [Events -> BOOLEAN]
    /\ manual \in [Events -> BOOLEAN]
    /\ signaled \in [Events -> BOOLEAN]
    /\ waiters \in [Events -> SUBSET Tasks]
    /\ wait_set \in [Tasks -> SUBSET Events]
    /\ deadline \in [Tasks -> Times]
    /\ timed \in [Tasks -> BOOLEAN]
    /\ state \in [Tasks -> {"running", "event", "stopped", "dead"}]
    /\ result \in [Tasks -> Results]
    /\ timer_ticks \in Times
    /\ left \in [Tasks -> Timeouts \cup Times]

Init ==
    /\ active = [e \in Events |-> FALSE]
    /\ manual = [e \in Events |-> FALSE]
    /\ signaled = [e \in Events |-> FALSE]
    /\ waiters = [e \in Events |-> {}]
    /\ wait_set = [t \in Tasks |-> {}]
    /\ deadline = [t \in Tasks |-> 0]
    /\ timed = [t \in Tasks |-> FALSE]
    /\ state = [t \in Tasks |-> "running"]
    /\ result = [t \in Tasks |-> "none"]
    /\ timer_ticks = 0
    /\ left = [t \in Tasks |-> 0]

----------------------------------------------------------------------------
(***************************************************************************)
(* wake_slot for the tasks of W that are parked, each with answer(t), after *)
(* the caller took the bits of W off the events of E.                      *)
(***************************************************************************)
Parked(W) == {t \in W : state[t] = "event"}

WaitersKept(E, W) == waiters

\* The caller's own bits, and clear_wait_set of every task that wakes: a bit
\* is cleared on the active events of its wait set.
WaitersCleared(E, W) ==
    [e \in Events |->
        {t \in waiters[e] :
            /\ ~(e \in E /\ t \in W)
            /\ ~(t \in Parked(W) /\ e \in wait_set[t] /\ active[e])}]

Wake(E, W, answer) ==
    /\ waiters' = WaitersCleared(E, W)
    /\ wait_set' = [t \in Tasks |-> IF t \in Parked(W) THEN {}
                                    ELSE wait_set[t]]
    /\ deadline' = [t \in Tasks |-> IF t \in Parked(W) THEN 0
                                    ELSE deadline[t]]
    /\ timed' = [t \in Tasks |-> timed[t] /\ t \notin Parked(W)]
    /\ state' = [t \in Tasks |-> IF t \in Parked(W) THEN "running"
                                 ELSE state[t]]
    /\ result' = [t \in Tasks |-> IF t \in Parked(W) THEN answer
                                  ELSE result[t]]

----------------------------------------------------------------------------
\* event_create; which inactive entry it takes makes no difference.
EventCreate(e, m, s) ==
    /\ ~active[e]
    /\ active' = [active EXCEPT ![e] = TRUE]
    /\ manual' = [manual EXCEPT ![e] = m]
    /\ signaled' = [signaled EXCEPT ![e] = s]
    /\ waiters' = [waiters EXCEPT ![e] = {}]
    /\ UNCHANGED <<waits, task, timer_ticks, left>>

\* event_destroy: every waiter is told the event is gone.
EventDestroy(e) ==
    /\ active[e]
    /\ active' = [active EXCEPT ![e] = FALSE]
    /\ signaled' = [signaled EXCEPT ![e] = FALSE]
    /\ Wake({e}, waiters[e], "gone")
    /\ UNCHANGED <<manual, timer_ticks, left>>

\* The first waiting slot, which an auto-reset signal takes.
FirstWaiter(e) == {t \in waiters[e] : \A u \in waiters[e] : t <= u}

SignaledAlways(e) == [signaled EXCEPT ![e] = TRUE]

\* Only a manual event, or one nobody waits for, remembers the signal.
Signaled(e) ==
    IF waiters[e] = {} \/ manual[e] THEN [signaled EXCEPT ![e] = TRUE]
                                    ELSE signaled

WokenAll(e) == waiters[e]
Woken(e) == IF manual[e] THEN waiters[e] ELSE FirstWaiter(e)

\* event_signal.
EventSignal(e) ==
    /\ active[e]
    /\ signaled' = Signaled(e)
    /\ Wake({e}, Woken(e), e)
    /\ UNCHANGED <<active, manual, timer_ticks, left>>

\* event_reset.
EventReset(e) ==
    /\ active[e]
    /\ signaled' = [signaled EXCEPT ![e] = FALSE]
    /\ UNCHANGED <<active, manual, waiters, waits, task, timer_ticks, left>>

----------------------------------------------------------------------------
(***************************************************************************)
(* event_wait_many by task t on the list w; timeout 0 waits forever.       *)
(***************************************************************************)
\* The handles of the list name live events.
Lists == UNION {[1 .. n -> {e \in Events : active[e]}] : n \in 1 .. WaitMax}

\* The scan stops at an entry that is gone or repeated, or is signaled.
Bad(w, i) == ~active[w[i]] \/ \E j \in 1 .. i - 1 : w[j] = w[i]
Stops(w, i) == Bad(w, i) \/ signaled[w[i]]
ScanEnd(w, i) == Stops(w, i) /\ \A j \in 1 .. i - 1 : ~Stops(w, j)

Answer(t, r) ==
    /\ result' = [result EXCEPT ![t] = r]
    /\ UNCHANGED <<state, waits, timer_ticks, left>>

\* A task that still has a wait set is refused, and so is a bad list.
WaitRefused(t, w) ==
    /\ state[t] = "running"
    /\ \/ wait_set[t] # {}
       \/ \E i \in DOMAIN w : ScanEnd(w, i) /\ Bad(w, i)
    /\ Answer(t, "-1")
    /\ UNCHANGED event

\* The first signaled entry answers at once; an auto-reset event is consumed.
WaitReady(t, w) ==
    /\ state[t] = "running" /\ wait_set[t] = {}
    /\ \E i \in DOMAIN w :
          /\ ScanEnd(w, i) /\ ~Bad(w, i)
          /\ signaled' = [signaled EXCEPT ![w[i]] = manual[w[i]]]
          /\ Answer(t, w[i])
    /\ UNCHANGED <<active, manual, waiters>>

WaitParks(t, w, timeout) ==
    LET S == {w[i] : i \in DOMAIN w} IN
    /\ state[t] = "running" /\ wait_set[t] = {}
    /\ \A i \in DOMAIN w : ~Stops(w, i)
    /\ waiters' = [e \in Events |-> IF e \in S THEN waiters[e] \cup {t}
                                    ELSE waiters[e]]
    /\ wait_set' = [wait_set EXCEPT ![t] = S]
    /\ deadline' = [deadline EXCEPT ![t] = Deadline(timer_ticks, timeout)]
    /\ timed' = [timed EXCEPT ![t] = timeout > 0]
    /\ state' = [state EXCEPT ![t] = "event"]
    /\ result' = [result EXCEPT ![t] = "none"]
    /\ left' = [left EXCEPT ![t] = timeout]
    /\ UNCHANGED <<active, manual, signaled, timer_ticks>>

WaitMany(t, w, timeout) ==
    WaitRefused(t, w) \/ WaitReady(t, w) \/ WaitParks(t, w, timeout)

----------------------------------------------------------------------------
\* The timer: event_tick wakes every timed wait whose deadline has come.
Expired(now) == {t \in Tasks : timed[t] /\ ~Before(now, deadline[t])}

EventTick ==
    LET now == NextTick(timer_ticks) IN
    /\ timer_ticks' = now
    /\ Wake({}, Expired(now), "ETIMEDOUT")
    /\ left' = [t \in Tasks |-> IF left[t] > 0 THEN left[t] - 1 ELSE 0]
    /\ UNCHANGED <<active, manual, signaled>>

\* event_cancel_task in terminate64: a wait set goes whatever the state is.
ForgetKept(t) == waiters
ForgetCleared(t) ==
    [e \in Events |-> IF e \in wait_set[t] /\ active[e]
                      THEN waiters[e] \ {t} ELSE waiters[e]]

TaskDies(t) ==
    /\ state[t] # "dead"
    /\ waiters' = ForgetCleared(t)
    /\ wait_set' = [wait_set EXCEPT ![t] = {}]
    /\ deadline' = [deadline EXCEPT ![t] = 0]
    /\ timed' = [timed EXCEPT ![t] = FALSE]
    /\ state' = [state EXCEPT ![t] = "dead"]
    /\ result' = [result EXCEPT ![t] = "none"]
    /\ left' = [left EXCEPT ![t] = 0]
    /\ UNCHANGED <<active, manual, signaled, timer_ticks>>

\* The slot is reaped and handed to a new task.
TaskStarts(t) ==
    /\ state[t] = "dead"
    /\ state' = [state EXCEPT ![t] = "running"]
    /\ UNCHANGED <<event, waits, result, timer_ticks, left>>

\* posix_signal_stop; wake_with_eintr has no case for an event wait.
Stop(t) ==
    /\ t \in Stoppable
    /\ state[t] \in {"running", "event"}
    /\ state' = [state EXCEPT ![t] = "stopped"]
    /\ UNCHANGED <<event, waits, result, timer_ticks, left>>

\* posix_signal_continue_task.
Continue(t) ==
    /\ state[t] = "stopped"
    /\ state' = [state EXCEPT ![t] = "running"]
    /\ UNCHANGED <<event, waits, result, timer_ticks, left>>

----------------------------------------------------------------------------
\* The system calls on the events of E, and what tasks do.
EventCalls(E) ==
    \E e \in E :
        \/ \E m, s \in BOOLEAN : EventCreate(e, m, s)
        \/ EventDestroy(e)
        \/ EventSignal(e)
        \/ EventReset(e)

TaskSteps ==
    \E t \in Tasks :
        \/ \E w \in Lists, timeout \in Timeouts : WaitMany(t, w, timeout)
        \/ TaskDies(t)
        \/ TaskStarts(t)

EventStep == EventCalls(Events) \/ TaskSteps \/ EventTick

JobControl == \E t \in Tasks : Stop(t) \/ Continue(t)

Next == EventStep \/ JobControl

Spec == Init /\ [][Next]_vars

\* Without stop signals.
CoreSpec == Init /\ [][EventStep]_vars

----------------------------------------------------------------------------
\* event_wait_many and the wake paths keep the two records of a wait in step:
\* a bit of an event belongs to a task that lists the event, and a parked
\* task has its bit in every event of its list, all of them alive.
WaitRecordsAgree ==
    /\ \A e \in Events : \A t \in waiters[e] : e \in wait_set[t] /\ active[e]
    /\ \A t \in Tasks : state[t] = "event" =>
           /\ wait_set[t] # {}
           /\ \A e \in wait_set[t] : active[e] /\ t \in waiters[e]

\* No task sleeps on an event that is signaled: event_signal, the multi-event
\* clear_wait_set and event_wait_many never leave a signal unseen.
NoMissedSignal == \A e \in Events : signaled[e] => waiters[e] = {}

\* A dead task has no wait left for a reused slot to inherit
\* (event_cancel_task).
DeadTaskWaitsForNothing ==
    \A t \in Tasks : state[t] = "dead" =>
        wait_set[t] = {} /\ ~timed[t] /\ \A e \in Events : t \notin waiters[e]

\* Who waits for what agrees on both sides, a wait that is parked has nothing to
\* take, and a dead task waits for nothing (event_wait, event_wait_any,
\* event_forget_task).
WaitsSound == WaitRecordsAgree /\ NoMissedSignal /\ DeadTaskWaitsForNothing

\* event_tick ends a timed wait at its deadline, not before and not later,
\* also when timer_ticks wraps.
TimedWaitOnTime ==
    \A t \in Tasks :
        /\ state[t] = "event" /\ timed[t] => left[t] > 0
        /\ result[t] = "ETIMEDOUT" => left[t] = 0

\* A timed wait returns, whatever is signaled meanwhile.
TimedWaitReturns ==
    \A t \in Tasks : state[t] = "event" /\ timed[t] ~> state[t] # "event"

\* Without stop signals event.c implements the promise of AbstractEvents: the
\* waiter bits and the wait sets together are the set a task is parked on.
Abstract == INSTANCE AbstractEvents WITH parked <- wait_set
ImplementsAbstract == Abstract!Spec

\* posix_signal_stop: "A parked call is broken the way any other signal breaks
\* it": a task that is no longer parked has no wait registered.
BrokenWaitIsOver ==
    \A t \in Tasks : state[t] # "event" => wait_set[t] = {}
=============================================================================
