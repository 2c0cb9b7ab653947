-------------------------------- MODULE Async --------------------------------
(***************************************************************************)
(* The objects a task waits for through an event of their own: timers      *)
(* (src/objects/timer_object.c), completions (completion.c) and bridge     *)
(* endpoints (bridge.c, endpoint.c).  The object is the event it owns; only *)
(* these modules signal, reset or destroy it.                              *)
(*                                                                         *)
(* The timer interrupt first ends timed waits, then times out requests,    *)
(* then fires timers, and nothing else runs until it is through: due is    *)
(* the work it has left.                                                   *)
(***************************************************************************)
EXTENDS Events

CONSTANTS
    Timers, Completions, Bridges,   \* disjoint subsets of Events
    REQUEST_MAX,                    \* COMPLETION_REQUEST_MAX
    GENERATIONS,                    \* request generations, 2^32 - 1
    QUEUE_MAX,                      \* BRIDGE_QUEUE_MAX
    SEQUENCES,                      \* sequence numbers, 2^32
    Intervals,                      \* of periodic timers; 0 fires once
    MaxBegins                       \* requests a behaviour begins

ASSUME AsyncAssumption ==
    /\ REQUEST_MAX \in Nat \ {0} /\ QUEUE_MAX \in Nat \ {0}
    /\ GENERATIONS \in Nat /\ GENERATIONS > 1
    /\ SEQUENCES > QUEUE_MAX /\ SEQUENCES \in Nat
    /\ Intervals \subseteq 0 .. (Wrap \div 2 - 1)
    /\ Timers \cup Completions \cup Bridges \subseteq Events
    /\ Timers \cap (Completions \cup Bridges) = {}
    /\ Completions \cap Bridges = {}
    /\ (Completions \X (0 .. REQUEST_MAX - 1)) \cap Timers = {}

VARIABLES
    due,                        \* the timer handler's remaining work
    armed, alarm, interval,     \* struct timer_object_state
    fired,                      \* history: fired since armed or cancelled
    rstate, rgen, expiry, rtimed, next_slot,  \* struct completion_state
    begun,                      \* history: how many requests were begun
    serial, closer,             \* history: which request, and whose finish
    issued,                     \* history: the ids handed out
    queue, head, count, sequence,  \* struct bridge_state
    last,                       \* history: the sequence number read last
    told                        \* history: a waiter was told, nothing taken

timer == <<armed, alarm, interval, fired>>
request == <<rstate, rgen, expiry, rtimed, next_slot, begun, serial, closer,
             issued>>
bridge == <<queue, head, count, sequence, last>>
avars == <<vars, due, timer, request, bridge, told>>

Sources == Completions \cup Bridges
Slots == 0 .. REQUEST_MAX - 1
Requests == Completions \X Slots
Places == 0 .. QUEUE_MAX - 1
Over == {"done", "canceled", "timed_out"}

AsyncTypeOK ==
    /\ TypeOK
    /\ due \subseteq Requests \cup Timers
    /\ armed \in [Timers -> BOOLEAN]
    /\ alarm \in [Timers -> Times]
    /\ interval \in [Timers -> Intervals \cup {0}]
    /\ rstate \in [Requests -> {"free", "pending"} \cup Over]
    /\ rgen \in [Requests -> 1 .. GENERATIONS]
    /\ expiry \in [Requests -> Times]
    /\ rtimed \in [Requests -> BOOLEAN]
    /\ next_slot \in [Completions -> Slots]
    /\ queue \in [Bridges -> [Places -> 0 .. SEQUENCES - 1]]
    /\ head \in [Bridges -> Places]
    /\ count \in [Bridges -> 0 .. QUEUE_MAX]
    /\ sequence \in [Bridges -> 0 .. SEQUENCES - 1]

AsyncInit ==
    /\ Init
    /\ due = {}
    /\ armed = [e \in Timers |-> FALSE]
    /\ alarm = [e \in Timers |-> 0]
    /\ interval = [e \in Timers |-> 0]
    /\ fired = [e \in Timers |-> FALSE]
    /\ rstate = [r \in Requests |-> "free"]
    /\ rgen = [r \in Requests |-> 1]
    /\ expiry = [r \in Requests |-> 0]
    /\ rtimed = [r \in Requests |-> FALSE]
    /\ next_slot = [c \in Completions |-> 0]
    /\ begun = 0
    /\ serial = [r \in Requests |-> 0]
    /\ closer = [r \in Requests |-> 0]
    /\ issued = {}
    /\ queue = [b \in Bridges |-> [i \in Places |-> 0]]
    /\ head = [b \in Bridges |-> 0]
    /\ count = [b \in Bridges |-> 0]
    /\ sequence = [b \in Bridges |-> 0]
    /\ last = [b \in Bridges |-> 0]
    /\ told = [o \in Sources |-> FALSE]

\* A signal to o, or a wait, that some task is told of.
Tell(o, someone) ==
    told' = IF o \in Sources /\ someone THEN [told EXCEPT ![o] = TRUE]
            ELSE told

SignalObject(o) == EventSignal(o) /\ Tell(o, waiters[o] # {})

\* The event of an object is created auto-reset and unsignaled.
CreateObject(o) == EventCreate(o, FALSE, FALSE)

----------------------------------------------------------------------------
(***************************************************************************)
(* Timers.                                                                 *)
(***************************************************************************)
TimerUnset(e) ==
    /\ armed' = [armed EXCEPT ![e] = FALSE]
    /\ alarm' = [alarm EXCEPT ![e] = 0]
    /\ interval' = [interval EXCEPT ![e] = 0]
    /\ fired' = [fired EXCEPT ![e] = FALSE]

TimerCreate(e) == CreateObject(e) /\ TimerUnset(e)
TimerDestroy(e) == EventDestroy(e) /\ TimerUnset(e)

ArmResetsNothing(e) == active[e] /\ UNCHANGED vars
ArmResets(e) == EventReset(e)

\* timer_object_arm; system call 83 refuses a timeout of 0.
TimerArm(e, timeout, i) ==
    /\ timeout > 0
    /\ armed' = [armed EXCEPT ![e] = TRUE]
    /\ alarm' = [alarm EXCEPT ![e] = Deadline(timer_ticks, timeout)]
    /\ interval' = [interval EXCEPT ![e] = i]
    /\ fired' = [fired EXCEPT ![e] = FALSE]
    /\ ArmResets(e)

\* timer_object_cancel.
TimerCancel(e) == armed[e] /\ EventReset(e) /\ TimerUnset(e)

\* The do-while of timer_object_tick: the first multiple past now.
AdvanceWhileLate(e) == IF alarm[e] = timer_ticks THEN alarm[e]
                       ELSE (alarm[e] + interval[e]) % Wrap
Advance(e) ==
    LET at(k) == (alarm[e] + k * interval[e]) % Wrap
        k == CHOOSE k \in 1 .. Wrap :
                /\ Before(timer_ticks, at(k))
                /\ \A j \in 1 .. k - 1 : ~Before(timer_ticks, at(j))
    IN at(k)

TimerFires(e) ==
    /\ SignalObject(e)
    /\ fired' = [fired EXCEPT ![e] = TRUE]
    /\ armed' = [armed EXCEPT ![e] = interval[e] # 0]
    /\ alarm' = [alarm EXCEPT ![e] = IF interval[e] = 0 THEN 0
                                     ELSE Advance(e)]
    /\ UNCHANGED interval

----------------------------------------------------------------------------
(***************************************************************************)
(* Completions.  An id is a slot and the generation it had.                *)
(***************************************************************************)
NextGeneration(r) == IF rgen[r] = GENERATIONS THEN 1 ELSE rgen[r] + 1

CompletionCreate(c) ==
    /\ CreateObject(c)
    /\ next_slot' = [next_slot EXCEPT ![c] = 0]
    /\ UNCHANGED <<rstate, rgen, expiry, rtimed, begun, serial, closer,
                   issued>>

\* completion_destroy: every request is freed and every id made stale.
CompletionDestroy(c) ==
    LET Of(f, x) == [r \in Requests |-> IF r[1] = c THEN x ELSE f[r]] IN
    /\ EventDestroy(c)
    /\ rstate' = Of(rstate, "free")
    /\ rgen' = [r \in Requests |-> IF r[1] = c THEN NextGeneration(r)
                                   ELSE rgen[r]]
    /\ expiry' = Of(expiry, 0)
    /\ rtimed' = Of(rtimed, FALSE)
    /\ next_slot' = [next_slot EXCEPT ![c] = 0]
    /\ UNCHANGED <<begun, serial, closer, issued>>

\* The first free slot from next_slot on.
FreeSlot(c, s) ==
    LET at(k) == (next_slot[c] + k) % REQUEST_MAX IN
    \E k \in Slots :
        /\ s = at(k) /\ rstate[<<c, s>>] = "free"
        /\ \A j \in 0 .. k - 1 : rstate[<<c, at(j)>>] # "free"

\* completion_request_begin.
RequestBegin(c, s, timeout) ==
    LET r == <<c, s>> IN
    /\ active[c] /\ begun < MaxBegins
    /\ FreeSlot(c, s)
    /\ rstate' = [rstate EXCEPT ![r] = "pending"]
    /\ expiry' = [expiry EXCEPT ![r] = Deadline(timer_ticks, timeout)]
    /\ rtimed' = [rtimed EXCEPT ![r] = timeout # 0]
    /\ next_slot' = [next_slot EXCEPT ![c] = (s + 1) % REQUEST_MAX]
    /\ begun' = begun + 1
    /\ serial' = [serial EXCEPT ![r] = begun + 1]
    /\ closer' = [closer EXCEPT ![r] = begun + 1]
    /\ issued' = issued \cup {[r |-> r, gen |-> rgen[r], n |-> begun + 1]}
    /\ UNCHANGED <<vars, rgen>>

\* request_for and the state test of finish_request.
Current(id) == active[id.r[1]] /\ rstate[id.r] # "free" /\ rgen[id.r] = id.gen

Close(r, s) ==
    /\ rstate[r] = "pending"
    /\ rstate' = [rstate EXCEPT ![r] = s]
    /\ expiry' = [expiry EXCEPT ![r] = 0]
    /\ rtimed' = [rtimed EXCEPT ![r] = FALSE]
    /\ SignalObject(r[1])
    /\ UNCHANGED <<rgen, next_slot, begun, serial, issued>>

\* completion_request_finish and completion_request_cancel, with any id that
\* was ever handed out.
RequestFinish(id, s) ==
    /\ Current(id)
    /\ Close(id.r, s)
    /\ closer' = [closer EXCEPT ![id.r] = id.n]

\* completion_tick.
RequestExpires(r) == Close(r, "timed_out") /\ UNCHANGED closer

\* completion_request_poll: the reset and the signal for the next request
\* that is over are one step.
Others(r) == {q \in Requests : q[1] = r[1] /\ q # r /\ rstate[q] \in Over}

PollResets(r) == EventReset(r[1]) /\ told' = [told EXCEPT ![r[1]] = FALSE]

PollAnnounces(r) ==
    LET c == r[1] IN
    \/ /\ Others(r) = {}
       /\ PollResets(r)
    \/ /\ Others(r) # {} /\ active[c]
       /\ signaled' = [signaled EXCEPT ![c] = waiters[c] = {}]
       /\ Wake({c}, Woken(c), c)
       /\ told' = [told EXCEPT ![c] = waiters[c] # {}]
       /\ UNCHANGED <<active, manual, timer_ticks, left>>

PollKeepsGeneration(r) == rgen
PollBumpsGeneration(r) == [rgen EXCEPT ![r] = NextGeneration(r)]

RequestPoll(id) ==
    LET r == id.r IN
    /\ Current(id) /\ rstate[r] \in Over
    /\ rstate' = [rstate EXCEPT ![r] = "free"]
    /\ rgen' = PollBumpsGeneration(r)
    /\ next_slot' = [next_slot EXCEPT
                        ![r[1]] = IF @ > r[2] THEN r[2] ELSE @]
    /\ PollAnnounces(r)
    /\ UNCHANGED <<expiry, rtimed, begun, serial, closer, issued>>

----------------------------------------------------------------------------
(***************************************************************************)
(* Bridges: interrupts queued for a user driver.                           *)
(***************************************************************************)
BridgeEmpty(b, first) ==
    /\ head' = [head EXCEPT ![b] = 0]
    /\ count' = [count EXCEPT ![b] = 0]
    /\ sequence' = [sequence EXCEPT ![b] = first]
    /\ last' = [last EXCEPT ![b] = 0]
    /\ UNCHANGED queue

BridgeCreate(b) == CreateObject(b) /\ BridgeEmpty(b, 1)

\* endpoint_destroy and bridge_cleanup.
BridgeDestroy(b) == EventDestroy(b) /\ BridgeEmpty(b, 0)

RoomAlways(b) == TRUE
Room(b) == count[b] < QUEUE_MAX

\* endpoint_signal and bridge_notify; a full queue refuses.
BridgeNotify(b) ==
    LET tail == (head[b] + count[b]) % QUEUE_MAX IN
    /\ Room(b)
    /\ queue' = [queue EXCEPT ![b][tail] = sequence[b]]
    /\ sequence' = [sequence EXCEPT ![b] = (@ + 1) % SEQUENCES]
    /\ count' = [count EXCEPT ![b] = @ + 1]
    /\ SignalObject(b)
    /\ UNCHANGED <<head, last>>

\* bridge_endpoint_read.
BridgeRead(b) ==
    /\ active[b] /\ count[b] > 0
    /\ last' = [last EXCEPT ![b] = queue[b][head[b]]]
    /\ head' = [head EXCEPT ![b] = (@ + 1) % QUEUE_MAX]
    /\ count' = [count EXCEPT ![b] = @ - 1]
    /\ IF count[b] > 1
       THEN /\ EventSignal(b)
            /\ told' = [told EXCEPT ![b] = waiters[b] # {}]
       ELSE /\ EventReset(b)
            /\ told' = [told EXCEPT ![b] = FALSE]
    /\ UNCHANGED <<queue, sequence>>

----------------------------------------------------------------------------
\* The timer interrupt.
DueRequestsLate(now) ==
    {r \in Requests : /\ rstate[r] = "pending" /\ rtimed[r]
                      /\ ~Before(now, expiry[r]) /\ now # expiry[r]}

DueRequests(now) ==
    {r \in Requests : /\ rstate[r] = "pending" /\ rtimed[r]
                      /\ ~Before(now, expiry[r])}
DueTimers(now) == {e \in Timers : armed[e] /\ ~Before(now, alarm[e])}

TimerInterrupt ==
    /\ due = {}
    /\ EventTick
    /\ due' = DueRequests(timer_ticks') \cup DueTimers(timer_ticks')
    /\ UNCHANGED <<timer, request, bridge, told>>

CompletionTick ==
    \E r \in due \ Timers :
        /\ RequestExpires(r)
        /\ due' = due \ {r}
        /\ UNCHANGED <<timer, bridge>>

TimerTick ==
    /\ due \subseteq Timers
    /\ \E e \in due :
          /\ TimerFires(e)
          /\ due' = due \ {e}
          /\ UNCHANGED <<request, bridge>>

----------------------------------------------------------------------------
\* A wait that returns at once takes the signal of an object.
TaskCalls ==
    /\ TaskSteps
    /\ told' = [o \in Sources |-> told[o] \/ (signaled[o] /\ ~signaled'[o])]
    /\ UNCHANGED <<timer, request, bridge>>

PlainEvents ==
    /\ EventCalls(Events \ (Timers \cup Sources))
    /\ UNCHANGED <<timer, request, bridge, told>>

TimerCalls ==
    /\ \E e \in Timers :
          \/ TimerCreate(e) \/ TimerDestroy(e) \/ TimerCancel(e)
          \/ \E timeout \in Timeouts, i \in Intervals : TimerArm(e, timeout, i)
    /\ UNCHANGED <<request, bridge, told>>

CompletionCalls ==
    /\ \/ \E c \in Completions :
             /\ CompletionCreate(c) \/ CompletionDestroy(c)
             /\ told' = [told EXCEPT ![c] = FALSE]
       \/ \E r \in Requests, timeout \in Timeouts :
             RequestBegin(r[1], r[2], timeout) /\ UNCHANGED told
       \/ \E id \in issued :
             \/ \E s \in {"done", "canceled"} : RequestFinish(id, s)
             \/ RequestPoll(id)
    /\ UNCHANGED <<timer, bridge>>

BridgeCalls ==
    /\ \E b \in Bridges :
          \/ /\ BridgeCreate(b) \/ BridgeDestroy(b)
             /\ told' = [told EXCEPT ![b] = FALSE]
          \/ BridgeNotify(b)
          \/ BridgeRead(b)
    /\ UNCHANGED <<timer, request>>

Calls ==
    /\ due = {} /\ due' = due
    /\ TaskCalls \/ PlainEvents \/ TimerCalls \/ CompletionCalls \/ BridgeCalls

AsyncNext == Calls \/ TimerInterrupt \/ CompletionTick \/ TimerTick

AsyncSpec == AsyncInit /\ [][AsyncNext]_avars

\* Nobody keeps an id while the generations of its slot come round again.
IdsNotReused == \A r \in Requests : rgen'[r] >= rgen[r]

\* The timer keeps interrupting and its handler finishes.
AsyncFairness == WF_avars(TimerInterrupt \/ CompletionTick \/ TimerTick)

----------------------------------------------------------------------------
\* Something a task can take from o: a request that is over, a notification.
Ready(o) ==
    \/ o \in Completions /\ \E s \in Slots : rstate[<<o, s>>] \in Over
    \/ o \in Bridges /\ count[o] > 0

\* What finish_request, completion_tick and bridge_notify make ready stays
\* announced until it is taken, however finishes, polls, reads and waits
\* interleave: the event is signaled, or a wait was answered since the last
\* poll or read.
AnnouncedUntilTaken == \A o \in Sources : Ready(o) => signaled[o] \/ told[o]

\* A finish or cancel with an id whose request was polled, timed out or
\* destroyed never ends the request that now has the slot (request_for).
LateFinishHitsNothing == \A r \in Requests : closer[r] = serial[r]

\* The timer interrupt keeps every deadline, also across the wrap of
\* timer_ticks: a timed wait ends at its deadline (event_tick), and when the
\* interrupt is over no pending request is overdue (completion_tick) and every
\* armed timer lies ahead, a periodic one having caught up (timer_object_tick).
DeadlinesKept ==
    /\ TimedWaitOnTime
    /\ due = {} =>
        /\ \A r \in Requests : rstate[r] = "pending" /\ rtimed[r] =>
                                  Before(timer_ticks, expiry[r])
        /\ \A e \in Timers : armed[e] => Before(timer_ticks, alarm[e])

\* Arming or cancelling a timer takes back a signal nobody saw: a signaled
\* timer has fired since.
NoStaleAlarm == \A e \in Timers : signaled[e] => fired[e]

\* The ring of bridge.c holds the accepted notifications in order, without a
\* gap after the one that was read last.
NotificationsInOrder ==
    \A b \in Bridges : \A i \in 0 .. count[b] - 1 :
        queue[b][(head[b] + i) % QUEUE_MAX] = (last[b] + 1 + i) % SEQUENCES

\* Deadlines of waits, timers and completions are met at their tick and not
\* before, and a timer that was armed again or cancelled never fires for the
\* deadline it had.
AlarmsOnTime == DeadlinesKept /\ NoStaleAlarm

\* A completion or notification is announced until somebody takes it, comes in
\* order, and reaches the request it was made for: an answer that comes after
\* the request was taken or the id reused hits nothing.
CompletionsReachTheirOwn ==
    AsyncTypeOK /\ AnnouncedUntilTaken /\ LateFinishHitsNothing /\ NotificationsInOrder
==============================================================================
