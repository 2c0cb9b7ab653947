----------------------------- MODULE Scheduler ------------------------------
(***************************************************************************)
(* The run queue and the processors (process/task.c, kernel/kernel.c,      *)
(* cpu/smp64.c).  Processor 0 runs the shared queue: a timer tick, a       *)
(* device interrupt that woke a task, a parking system call, an exit and a *)
(* fault all pick the next slot round robin, claim it, and load its        *)
(* context.  The other processors run only tasks pinned to them, which     *)
(* they enter from hlt or rotate on a timer tick or a reschedule IPI.      *)
(*                                                                         *)
(* Interrupts are off in ring 0: on one processor a dispatch runs to its   *)
(* end, and the steps below are the places where another processor can act *)
(* in between.  Registers are one mark, the progress of the task since its *)
(* start (modulo Marks); `done` is the mark each task has really reached.  *)
(***************************************************************************)
EXTENDS Integers, FiniteSets

CONSTANTS SlotCount,   \* MAX_TASKS
          Aps,         \* processors other than 0
          Marks

\* The idle task and the first init have slots, processors are numbers, and a
\* mark is a remainder.
ASSUME SchedulerAssumption ==
    /\ SlotCount \in Nat /\ SlotCount > 1
    /\ Aps \subseteq Nat \ {0}
    /\ Marks \in Nat \ {0}

PoolSlots == 0 .. SlotCount - 1
CpuSet == {0} \union Aps
None == -1             \* TASK_CPU_NONE, SMP64_CURRENT_NONE
Unset == -2            \* a context whose rip was cleared

VARIABLES task,      \* [PoolSlots -> [st, on, idle]]
          ctx,       \* [PoolSlots -> mark]: task_contexts
          cpu,       \* [CpuSet -> [cur, mode, regs, next, ipi, timer]]
          shared,    \* current_task_slot
          pending,   \* resched_pending
          done

schedvars == <<task, ctx, cpu, shared, pending, done>>

Vacant == [st |-> "free", on |-> None, idle |-> FALSE]

\* kernel64_main: the idle task and the first init, running on processor 0.
SchedulerInit ==
    /\ task = [t \in PoolSlots |-> CASE t = 0 -> [st |-> "run", on |-> None, idle |-> TRUE]
                                 [] t = 1 -> [st |-> "run", on |-> 0, idle |-> FALSE]
                                 [] OTHER -> Vacant]
    /\ ctx = [t \in PoolSlots |-> 0] /\ done = [t \in PoolSlots |-> 0]
    /\ cpu = [c \in CpuSet |-> [cur |-> IF c = 0 THEN 1 ELSE None, mode |-> IF c = 0 THEN "user" ELSE "hlt",
                                regs |-> 0, next |-> None, ipi |-> {}, timer |-> FALSE]]
    /\ shared = 1 /\ pending = FALSE

smp64_running_slot(c) == IF cpu[c].cur # None THEN cpu[c].cur ELSE shared

\* The first slot after `from` among S that is not idle, else the first idle one.
RoundRobin(from, S) ==
    LET At(o) == (from + o) % SlotCount
        Least(P) == IF P = {} THEN None ELSE At(CHOOSE o \in P : \A p \in P : o <= p)
        Busy == {o \in 1 .. SlotCount : At(o) \in S /\ ~task[At(o)].idle}
    IN  IF Busy # {} THEN Least(Busy) ELSE Least({o \in 1 .. SlotCount : At(o) \in S})

task_pick_claimed(from, c) == RoundRobin(from, {t \in PoolSlots : task[t].st = "run"})

task_pick_from_start(from, c) == RoundRobin(0, {t \in PoolSlots : task[t].st = "run" /\ task[t].on \in {None, c}})

task_pick_locked(from, c) == RoundRobin(from, {t \in PoolSlots : task[t].st = "run" /\ task[t].on \in {None, c}})

task_pick_pinned(c, from) == RoundRobin(from, {t \in PoolSlots : task[t].st = "run" /\ task[t].on = c})

-----------------------------------------------------------------------------
(* Processor 0 *)

\* A mark on the way: the task runs in ring 3.
User(c) ==
    /\ cpu[c].mode = "user"
    /\ LET m == (cpu[c].regs + 1) % Marks
       IN  cpu' = [cpu EXCEPT ![c].regs = m] /\ done' = [done EXCEPT ![cpu[c].cur] = m]
    /\ UNCHANGED <<task, ctx, shared, pending>>

\* scheduler64_next_slot: the pick and the claim in one critical section.
scheduler64_next_slot(then) ==
    LET p == task_pick_locked(smp64_running_slot(0), 0)
        n == IF p = None THEN smp64_running_slot(0) ELSE p
    IN  /\ task' = IF p = None THEN task ELSE [task EXCEPT ![p].on = 0]
        /\ cpu' = [cpu EXCEPT ![0].mode = then, ![0].next = n]

interrupt_save_nothing(t, c) == UNCHANGED ctx

\* The interrupted registers of processor c, from a timer frame or from the
\* frame of an exception or a device interrupt.
interrupt_save(t, c) == ctx' = [ctx EXCEPT ![t] = cpu[c].regs]

frame64_save_user(t, c) == ctx' = [ctx EXCEPT ![t] = cpu[c].regs]

\* A processor's record once slot t is current and its context is loaded.
interrupt_load(r, t) == [r EXCEPT !.cur = t, !.regs = ctx[t]]

frame64_load_user(r, t) == [r EXCEPT !.cur = t, !.regs = ctx[t], !.mode = "user"]

timer64_dispatch ==
    /\ cpu[0].mode = "user"
    /\ interrupt_save(shared, 0) /\ scheduler64_next_slot("tick")
    /\ UNCHANGED <<shared, pending, done>>

\* scheduler64_set_running and the load of the context that follows it.
scheduler64_set_running(then) ==
    LET n == cpu[0].next
        old == smp64_running_slot(0)
    IN  /\ task' = [t \in PoolSlots |-> IF t = n THEN [task[t] EXCEPT !.on = 0]
                                    ELSE IF t = old THEN [task[t] EXCEPT !.on = None] ELSE task[t]]
        /\ shared' = n
        /\ cpu' = [cpu EXCEPT ![0] = interrupt_load([@ EXCEPT !.next = None, !.mode = then], n)]

Load ==
    /\ cpu[0].mode \in {"tick", "switch"}
    /\ scheduler64_set_running(IF cpu[0].mode = "tick" THEN "ticked" ELSE "user")
    /\ UNCHANGED <<ctx, pending, done>>

\* terminate64 of slot t, up to the zombie, or the free slot of an ignored
\* SIGCHLD (arch_task_release clears the context).
terminate64(t, auto) ==
    /\ task' = [task EXCEPT ![t] = IF auto THEN Vacant ELSE [@ EXCEPT !.st = "zombie", !.on = None]]
    /\ ctx' = IF auto THEN [ctx EXCEPT ![t] = 0] ELSE ctx

\* The rest of the tick: a pending signal kills the task the frame returns to,
\* and then the next one is picked and loaded; or the ticks of the sleeps,
\* polls, events and sends wake the tasks in W.
SignalKills(auto) ==
    /\ cpu[0].mode = "ticked" /\ shared # 0
    /\ terminate64(shared, auto)
    /\ cpu' = [cpu EXCEPT ![0].mode = "gone"]
    /\ UNCHANGED <<shared, pending, done>>

Wakes(W) ==
    /\ W \subseteq {t \in PoolSlots : task[t].st = "blocked"}
    /\ task' = [t \in PoolSlots |-> IF t \in W THEN [task[t] EXCEPT !.st = "run"] ELSE task[t]]

ticks(W) ==
    /\ cpu[0].mode = "ticked" /\ Wakes(W)
    /\ pending' = (pending \/ W # {})
    /\ cpu' = [cpu EXCEPT ![0].mode = "user"]
    /\ UNCHANGED <<ctx, shared, done>>

\* A blocking call parks the task under the pool lock; the switch comes later.
task_wait_park ==
    /\ cpu[0].mode = "user" /\ shared # 0
    /\ task' = [task EXCEPT ![shared].st = "blocked"]
    /\ cpu' = [cpu EXCEPT ![0].mode = "parked"]
    /\ UNCHANGED <<ctx, shared, pending, done>>

scheduler64_switch ==
    /\ cpu[0].mode = "parked"
    /\ interrupt_save(smp64_running_slot(0), 0) /\ scheduler64_next_slot("switch")
    /\ UNCHANGED <<shared, pending, done>>

\* An exit, or the return of a system call that syscall64_validate_return
\* refuses; and a fault that no handler takes.
exit64_dispatch(auto) ==
    /\ cpu[0].mode = "user" /\ shared # 0
    /\ terminate64(shared, auto)
    /\ cpu' = [cpu EXCEPT ![0].mode = "gone"]
    /\ UNCHANGED <<shared, pending, done>>

user_fault(auto) ==
    /\ cpu[0].mode = "user" /\ shared # 0
    /\ task' = [task EXCEPT ![shared] = IF auto THEN Vacant ELSE [@ EXCEPT !.st = "zombie", !.on = None]]
    /\ IF auto THEN ctx' = [ctx EXCEPT ![shared] = 0] ELSE frame64_save_user(shared, 0)
    /\ cpu' = [cpu EXCEPT ![0].mode = "gone"]
    /\ UNCHANGED <<shared, pending, done>>

exit_switch ==
    /\ cpu[0].mode = "gone" /\ scheduler64_next_slot("switch")
    /\ UNCHANGED <<ctx, shared, pending, done>>

\* The calls of a running task that concern other slots: wake, kill, reap,
\* spawn.
WakeOther(t) ==
    /\ cpu[0].mode = "user" /\ task[t].st = "blocked"
    /\ task' = [task EXCEPT ![t].st = "run"] /\ pending' = TRUE
    /\ UNCHANGED <<ctx, cpu, shared, done>>

Kill(t, auto) ==
    /\ cpu[0].mode = "user" /\ t \notin {0, shared} /\ task[t].st \in {"run", "blocked"}
    /\ terminate64(t, auto)
    /\ UNCHANGED <<cpu, shared, pending, done>>

task_free_slot(t) ==
    /\ cpu[0].mode = "user" /\ task[t].st = "zombie" /\ t # shared
    /\ task' = [task EXCEPT ![t] = Vacant] /\ ctx' = [ctx EXCEPT ![t] = 0]
    /\ UNCHANGED <<cpu, shared, pending, done>>

Free == {t \in PoolSlots \ {0} : task[t].st = "free"}

task_alloc_slot == CHOOSE t \in Free : \A u \in Free : t <= u

create_task ==
    /\ cpu[0].mode = "user" /\ Free # {}
    /\ LET t == task_alloc_slot
       IN  /\ task' = [task EXCEPT ![t] = [st |-> "run", on |-> None, idle |-> FALSE]]
           /\ ctx' = [ctx EXCEPT ![t] = 0] /\ done' = [done EXCEPT ![t] = 0]
    /\ UNCHANGED <<cpu, shared, pending>>

-----------------------------------------------------------------------------
(* Device interrupts on processor 0 *)

\* irq64_dispatch up to its last test: the flag is cleared first, and the
\* interrupt wakes the tasks in W.
irq64_dispatch(W) ==
    /\ cpu[0].mode = "user" /\ Wakes(W)
    /\ pending' = (W # {})
    /\ cpu' = [cpu EXCEPT ![0].mode = "irq"]
    /\ UNCHANGED <<ctx, shared, done>>

\* console64_rx_drain: a control character stops or kills the task that was
\* interrupted, and the flag has the return path switch away.
console64_rx_drain(st, auto) ==
    /\ cpu[0].mode = "user" /\ shared # 0
    /\ CASE st = "stop" -> task' = [task EXCEPT ![shared].st = "blocked"] /\ UNCHANGED ctx
         [] st = "kill" -> terminate64(shared, auto)
    /\ pending' = TRUE
    /\ cpu' = [cpu EXCEPT ![0].mode = "irq"]
    /\ UNCHANGED <<shared, done>>

irq64_preempt ==
    /\ cpu[0].mode = "irq" /\ (pending \/ "resched" \in cpu[0].ipi)
    /\ pending' = TRUE
    /\ LET p == task_pick_locked(smp64_running_slot(0), 0)
       IN  IF p = shared \/ p = None
           THEN cpu' = [cpu EXCEPT ![0] = [@ EXCEPT !.mode = "user", !.ipi = {}]] /\ UNCHANGED <<task, ctx>>
           ELSE /\ task' = [task EXCEPT ![p].on = 0] /\ frame64_save_user(shared, 0)
                /\ cpu' = [cpu EXCEPT ![0] = [@ EXCEPT !.mode = "switch", !.next = p, !.ipi = {}]]
    /\ UNCHANGED <<shared, done>>

irq64_return ==
    /\ cpu[0].mode = "irq" /\ ~pending /\ "resched" \notin cpu[0].ipi
    /\ cpu' = [cpu EXCEPT ![0].mode = "user"]
    /\ UNCHANGED <<task, ctx, shared, pending, done>>

-----------------------------------------------------------------------------
(* The other processors *)

\* smp64_pin_stub and the reschedule IPI that has the processor pick it up.
\* The boot arms an idle task on a processor that has none pinned, and pins
\* none before that task is entered.
smp64_pin_task(c) ==
    /\ cpu[0].mode = "user" /\ Free # {} /\ "user" \notin cpu[c].ipi
    /\ LET t == task_alloc_slot
       IN  /\ task' = [task EXCEPT ![t] = [st |-> "run", on |-> c, idle |-> FALSE]]
           /\ ctx' = [ctx EXCEPT ![t] = 0] /\ done' = [done EXCEPT ![t] = 0]
    /\ cpu' = [cpu EXCEPT ![c].ipi = @ \union {"resched"}]
    /\ UNCHANGED <<shared, pending>>

\* smp64_host_start: an idle task armed as the processor's current slot.
smp64_host_start(c) ==
    /\ cpu[0].mode = "user" /\ Free # {} /\ cpu[c].mode = "hlt" /\ cpu[c].cur = None
    /\ \A t \in PoolSlots : task[t].on # c
    /\ LET t == task_alloc_slot
       IN  /\ task' = [task EXCEPT ![t] = [st |-> "run", on |-> c, idle |-> TRUE]]
           /\ ctx' = [ctx EXCEPT ![t] = Unset] /\ done' = [done EXCEPT ![t] = 0]
           /\ cpu' = [cpu EXCEPT ![c] = [@ EXCEPT !.cur = t, !.ipi = cpu[c].ipi \union {"user"}]]
    /\ UNCHANGED <<shared, pending>>

\* The kernel's own IPIs: the receive mailbox, the timer of the processor.
smp64_ipi_cpu(c, v) ==
    /\ cpu[0].mode = "user" /\ v \notin cpu[c].ipi
    /\ cpu' = [cpu EXCEPT ![c].ipi = @ \union {v}]
    /\ UNCHANGED <<task, ctx, shared, pending, done>>

Interruptible(c) == cpu[c].mode \in {"user", "hlt"}

\* irq64_dispatch on another processor clears the flag like processor 0 does;
\* IPI_USER enters the armed task at its fixed entry.
smp64_ipi_dispatch(c, v) ==
    /\ Interruptible(c) /\ v \in cpu[c].ipi \ {"resched"}
    /\ pending' = FALSE
    /\ LET rest == cpu[c].ipi \ {v}
       IN  CASE v = "timer" -> cpu' = [cpu EXCEPT ![c] = [@ EXCEPT !.timer = ~cpu[c].timer, !.ipi = rest]]
             [] v = "net" -> cpu' = [cpu EXCEPT ![c].ipi = rest]
             [] v = "user" -> cpu' = [cpu EXCEPT ![c] = IF @.cur = None THEN [@ EXCEPT !.ipi = rest]
                                                         ELSE [@ EXCEPT !.mode = "user", !.regs = 0, !.ipi = rest]]
    /\ UNCHANGED <<task, ctx, shared, done>>

\* Only tasks pinned to this processor; the one that runs when there is no other.
smp64_pick_next(c, slot) ==
    LET p == task_pick_pinned(c, slot) IN IF p = None THEN slot ELSE p

\* A tick in ring 3: save, pick among the pinned tasks, load.
ap64_timer_preempt(c) ==
    /\ cpu[c].mode = "user" /\ cpu[c].timer
    /\ LET slot == smp64_running_slot(c)
           p == smp64_pick_next(c, slot)
       IN  /\ slot # shared
           /\ interrupt_save(slot, c)
           /\ cpu' = IF p = slot THEN cpu ELSE [cpu EXCEPT ![c] = interrupt_load(@, p)]
    /\ UNCHANGED <<task, shared, pending, done>>

\* smp64_enter_task, or stay as `otherwise` when nothing pinned can run.
EnterPinned(c, ipi, otherwise) ==
    LET p == task_pick_pinned(c, 0)
    IN  cpu' = [cpu EXCEPT ![c] = IF p = None THEN [@ EXCEPT !.ipi = ipi, !.mode = otherwise]
                                  ELSE [frame64_load_user(@, p) EXCEPT !.ipi = ipi]]

ap64_resched(c) ==
    /\ Interruptible(c) /\ "resched" \in cpu[c].ipi
    /\ pending' = FALSE
    /\ LET slot == smp64_running_slot(c)
           p == smp64_pick_next(c, slot)
           rest == cpu[c].ipi \ {"resched"}
       IN  CASE cpu[c].mode = "hlt" -> EnterPinned(c, rest, "hlt") /\ UNCHANGED ctx
             [] cpu[c].mode = "user" /\ slot = shared -> cpu' = [cpu EXCEPT ![c].ipi = rest] /\ UNCHANGED ctx
             [] OTHER -> /\ frame64_save_user(slot, c)
                         /\ cpu' = [cpu EXCEPT ![c] = [(IF p = slot THEN @ ELSE frame64_load_user(@, p))
                                                          EXCEPT !.ipi = rest]]
    /\ UNCHANGED <<task, shared, done>>

\* A fault on another processor ends the task and the processor.
exception64_dispatch(c, auto) ==
    /\ cpu[c].mode = "user" /\ terminate64(cpu[c].cur, auto)
    /\ cpu' = [cpu EXCEPT ![c].cur = None, ![c].mode = "off"]
    /\ UNCHANGED <<shared, pending, done>>

\* A return that may not happen ends the task there, not the processor.
syscall64_validate_return(c, auto) ==
    /\ cpu[c].mode = "user" /\ cpu[c].cur # None
    /\ task' = [task EXCEPT ![cpu[c].cur] = IF auto THEN Vacant ELSE [@ EXCEPT !.st = "zombie", !.on = None]]
    /\ LET t == cpu[c].cur
           P == {u \in PoolSlots \ {t} : task[u].st = "run" /\ task[u].on = c}
           p == RoundRobin(0, P)
       IN  /\ ctx' = IF auto THEN [ctx EXCEPT ![t] = 0] ELSE ctx
           /\ cpu' = [cpu EXCEPT ![c] = IF p = None THEN [@ EXCEPT !.cur = None, !.mode = "off"]
                                        ELSE frame64_load_user(@, p)]
    /\ UNCHANGED <<shared, pending, done>>

-----------------------------------------------------------------------------
(***************************************************************************)
(* What happens, where an interrupt wakes one of the sets of tasks Woken.  *)
(***************************************************************************)
Dispatches(Woken) ==
    \/ Load \/ scheduler64_switch \/ exit_switch \/ irq64_preempt \/ irq64_return
    \/ \E W \in Woken : ticks(W)

Calls ==
    \/ User(0) \/ create_task \/ task_wait_park
    \/ \E t \in PoolSlots : WakeOther(t) \/ task_free_slot(t)
    \/ \E a \in BOOLEAN : exit64_dispatch(a) \/ user_fault(a)

Interrupts(Woken) ==
    \/ \E a \in BOOLEAN : SignalKills(a)
    \/ \E W \in Woken : irq64_dispatch(W)

\* Steps that stop or end a task from outside.  They are taken with processor 0
\* alone: no other processor then clears resched_pending before its test, or
\* runs the task that ends.
Lone ==
    \/ \E a \in BOOLEAN, st \in {"stop", "kill"} : console64_rx_drain(st, a)
    \/ \E a \in BOOLEAN, t \in PoolSlots : Kill(t, a)

Pinned(c) ==
    \/ User(c) \/ smp64_pin_task(c) \/ smp64_host_start(c) \/ ap64_timer_preempt(c) \/ ap64_resched(c)
    \/ \E a \in BOOLEAN : exception64_dispatch(c, a) \/ syscall64_validate_return(c, a)
    \/ \E v \in {"timer", "net"} : smp64_ipi_cpu(c, v)
    \/ \E v \in {"timer", "user", "net"} : smp64_ipi_dispatch(c, v)

SchedulerNext ==
    \/ timer64_dispatch \/ Dispatches(SUBSET PoolSlots) \/ Calls \/ Interrupts(SUBSET PoolSlots)
    \/ Aps = {} /\ Lone
    \/ \E c \in Aps : Pinned(c)

SchedulerSpec == SchedulerInit /\ [][SchedulerNext]_schedvars

-----------------------------------------------------------------------------
\* A task runs on one processor, the one its owner field names, and a claim
\* outlives no switch: two processors that ran one context would overwrite
\* each other's registers.
RunsOnOne ==
    /\ \A c, d \in CpuSet : cpu[c].cur # None /\ cpu[c].cur = cpu[d].cur => c = d
    /\ \A c \in CpuSet : cpu[c].mode = "user" /\ task[cpu[c].cur].st = "run" => task[cpu[c].cur].on = c
    /\ \A t \in PoolSlots : task[t].on = 0 /\ task[t].st # "zombie" => t \in {cpu[0].cur, cpu[0].next}

\* A live task goes on from where it was: what a processor runs and what is
\* saved for a task that does not run are the mark the task has reached.
ContextKept ==
    /\ \A c \in CpuSet : cpu[c].mode = "user" /\ task[cpu[c].cur].st = "run" => cpu[c].regs = done[cpu[c].cur]
    /\ \A t \in PoolSlots : task[t].st \in {"run", "blocked"} /\ (\A c \in CpuSet : cpu[c].cur # t) => ctx[t] = done[t]

\* Processor 0 returns to ring 3 only in a task that may run: one that a
\* control character stopped or killed is left behind.
RunsOnlyRunnable == cpu[0].mode = "user" => task[cpu[0].cur].st = "run"

\* On several processors a task runs on one of them, the one that claimed it,
\* and goes on from the registers it last had: two that ran one context would
\* overwrite each other's save (task_next_slot_claim, smp64_pin_task).
RunsOnOneProcessor == RunsOnOne /\ ContextKept

\* Processor 0 returns to ring 3 only in a task that may run, and lets it go on
\* from where it was (console64_rx_drain, irq64_dispatch, interrupt_load).
ReturnsToRunnable == RunsOnlyRunnable /\ ContextKept

\* A task of the shared queue that may run.
Runnable(t) == task[t].st = "run" /\ task[t].on \in {None, 0} /\ ~task[t].idle
=============================================================================
