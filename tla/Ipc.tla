------------------------------- MODULE Ipc -------------------------------
(***************************************************************************)
(* Message passing between tasks: arch/x86_64/kernel/ipc64.c.              *)
(*                                                                         *)
(* A send and a receive meet: whichever comes second copies the message    *)
(* and wakes the first.  A call that finds no partner parks its task, the  *)
(* context save stages a 0 in the task's rax, and whoever wakes the task   *)
(* stages the answer there; the task reads rax when the scheduler loads it *)
(* again (Resume).  Handlers run with interrupts masked on the one CPU     *)
(* that takes task system calls, so each is one action; the timer tick,    *)
(* the death of a task and job control are the other actors.               *)
(*                                                                         *)
(* Slot 0 holds the idle task, which is always runnable, so a park always  *)
(* finds a task to switch to.                                              *)
(*                                                                         *)
(* A task has at most one call in progress, so the message of slot s is    *)
(* named s and its contents are left out.                                  *)
(***************************************************************************)
EXTENDS Ticks, FiniteSets, FiniteSetsExt, Sequences

CONSTANTS
    Slots,        \* the slots of task_pool that hold tasks (slot 0 idles)
    GenMax,       \* bound: generations a slot goes through
    Stoppable,    \* the slots a POSIX stop signal reaches
    Any           \* the empty pid: no destination, or any sender

ASSUME SlotsAssumption ==
    /\ Slots \subseteq Nat \ {0} /\ IsFiniteSet(Slots)
    /\ GenMax \in Nat
    /\ Any \notin Slots /\ Any \notin Slots \X (0 .. GenMax)

VARIABLES
    state, gen,                        \* task state and slot generation
    send_to, pending, timed, send_deadline,
    recv_buf, recv_expect,
    rax,                               \* the answer staged for the task
    timer_ticks,
    call,                              \* the call slot s is inside
    copies,                            \* history: copies made of s's message
    got,                               \* history: messages s's receive got
    broken,                            \* history: a stop broke the parked call
    left                               \* history: ticks a timed send has left

task == <<state, gen>>
send == <<send_to, pending, timed, send_deadline>>
recv == <<recv_buf, recv_expect>>
vars == <<task, send, recv, rax, timer_ticks, call, copies, got, broken,
          left>>

Pids == Slots \X (0 .. GenMax)
MAX_TASKS == Cardinality(Slots) + 1
Pid(s) == <<s, gen[s]>>

\* task_for_pid finds the task.
Live(pid) == gen[pid[1]] = pid[2] /\ state[pid[1]] \notin {"free", "zombie"}

Init ==
    /\ state \in [Slots -> {"running", "free"}]
    /\ gen = [s \in Slots |-> 0]
    /\ send_to = [s \in Slots |-> Any]
    /\ pending = [s \in Slots |-> FALSE]
    /\ timed = [s \in Slots |-> FALSE]
    /\ send_deadline = [s \in Slots |-> 0]
    /\ recv_buf = [s \in Slots |-> FALSE]
    /\ recv_expect = [s \in Slots |-> Any]
    /\ rax = [s \in Slots |-> "0"]
    /\ timer_ticks = 0
    /\ call = [s \in Slots |-> "none"]
    /\ copies = [s \in Slots |-> 0]
    /\ got = [s \in Slots |-> 0]
    /\ broken = [s \in Slots |-> FALSE]
    /\ left = [s \in Slots |-> 0]

\* f with the values of the set S replaced by v.
Set(f, S, v) == [x \in DOMAIN f |-> IF x \in S THEN v ELSE f[x]]

----------------------------------------------------------------------------
\* A task is in user mode and may make a call.
Ready(s) == state[s] = "running" /\ call[s] = "none"

\* The call returns at once: nothing but the caller's answer changes.
Refuse(s, op, answer) ==
    /\ call' = [call EXCEPT ![s] = op]
    /\ rax' = [rax EXCEPT ![s] = answer]
    /\ UNCHANGED <<task, send, recv, timer_ticks, copies, got, broken,
                   left>>

\* Slot r is parked in a receive that takes a message from slot s.
Accepts(r, s) ==
    /\ state[r] = "recv"
    /\ recv_buf[r]
    /\ recv_expect[r] \in {Any, Pid(s)}

\* Parked sends of the slots S end: the fields a parked send owns are reset
\* and the slots become runnable.
EndSends(S) ==
    /\ send_to' = Set(send_to, S, Any)
    /\ pending' = Set(pending, S, FALSE)
    /\ timed' = Set(timed, S, FALSE)
    /\ send_deadline' = Set(send_deadline, S, 0)

\* The cursor of the walk along parked senders after k steps, Any when the
\* walk left the chain.
Cursor(s, d) ==
    LET at[k \in 0 .. MAX_TASKS] ==
            IF k = 0 THEN d
            ELSE LET c == at[k - 1] IN
                 CASE c = Any \/ c = s -> c
                   [] OTHER -> IF state[c] = "send" /\ send_to[c] # Any
                                  /\ Live(send_to[c])
                               THEN send_to[c][1] ELSE Any
    IN  at

DeadlockWithPeerOnly(s, d) == Cursor(s, d)[1] = s
deadlock(s, d) == Cursor(s, d)[MAX_TASKS] # Any

\* The parked members of the chain that break_deadlock releases.
Chain(s, d) ==
    {c \in {Cursor(s, d)[k] : k \in 0 .. MAX_TASKS} \ {s, Any} :
        state[c] = "send"}

\* deliver: the copy into a buffer that was writable when its owner parked
\* fails if the mapping was revoked since.
AnswerAlwaysZero(copied) == "0"
Answer(copied) == IF copied THEN "0" ELSE "EINVAL"
Count(n, copied) == IF copied THEN n + 1 ELSE n

\* send_now: the second half of a rendezvous with a parked receiver.
SendNow(s, r) ==
    \E copied \in BOOLEAN :
        /\ copies' = [copies EXCEPT ![s] = Count(0, copied)]
        /\ got' = [got EXCEPT ![r] = Count(@, copied)]
        /\ recv_buf' = [recv_buf EXCEPT ![r] = FALSE]
        /\ recv_expect' = [recv_expect EXCEPT ![r] = Any]
        /\ state' = [state EXCEPT ![r] = "running"]
        /\ rax' = Set(rax, {r, s}, Answer(copied))
        /\ call' = [call EXCEPT ![s] = "send"]
        /\ UNCHANGED <<gen, send, timer_ticks, broken, left>>

\* ipc64_send, ipc64_send_timeout (timeout > 0) and ipc64_send_nb refuse a
\* dead or own pid and a message that cannot be read.
SendRefused(s, dest) ==
    /\ Ready(s)
    /\ \E answer \in IF ~Live(dest) THEN {"ESRCH"}
                     ELSE IF dest[1] = s THEN {"EDEADLK"} ELSE {"EINVAL"} :
           Refuse(s, "send", answer)

SendMeets(s, dest) ==
    /\ Ready(s)
    /\ Live(dest) /\ dest[1] # s
    /\ Accepts(dest[1], s)
    /\ SendNow(s, dest[1])

\* A send that would close a cycle of parked sends releases the whole cycle.
SendDeadlocks(s, dest) ==
    /\ Ready(s)
    /\ Live(dest) /\ dest[1] # s
    /\ ~Accepts(dest[1], s)
    /\ deadlock(s, dest[1])
    /\ LET released == Chain(s, dest[1]) IN
           /\ EndSends(released)
           /\ state' = Set(state, released, "running")
           /\ rax' = Set(rax, released \cup {s}, "EDEADLK")
    /\ call' = [call EXCEPT ![s] = "send"]
    /\ UNCHANGED <<gen, recv, timer_ticks, copies, got, broken, left>>

SendParks(s, dest, timeout) ==
    /\ Ready(s)
    /\ Live(dest) /\ dest[1] # s
    /\ ~Accepts(dest[1], s)
    /\ ~deadlock(s, dest[1])
    /\ send_to' = [send_to EXCEPT ![s] = dest]
    /\ pending' = [pending EXCEPT ![s] = TRUE]
    /\ timed' = [timed EXCEPT ![s] = timeout > 0]
    /\ send_deadline' = [send_deadline EXCEPT ![s] =
           IF timeout > 0 THEN Deadline(timer_ticks, timeout) ELSE 0]
    /\ state' = [state EXCEPT ![s] = "send"]
    /\ rax' = [rax EXCEPT ![s] = "0"]
    /\ left' = [left EXCEPT ![s] = timeout]
    /\ call' = [call EXCEPT ![s] = "send"]
    /\ UNCHANGED <<gen, recv, timer_ticks, copies, got, broken>>

\* ipc64_send_nb answers -1 when nobody waits.
SendNbMisses(s, dest) ==
    /\ Ready(s)
    /\ Live(dest) /\ dest[1] # s
    /\ ~Accepts(dest[1], s)
    /\ Refuse(s, "send", "-1")

----------------------------------------------------------------------------
RecvRefused(s, expected) ==
    /\ Ready(s)
    /\ Refuse(s, "recv", IF expected = Pid(s) THEN "EDEADLK" ELSE "EINVAL")

\* Waiting for a task that is gone answers with its death notice.
RecvProbe(s, expected) ==
    /\ Ready(s)
    /\ expected \notin {Any, Pid(s)}
    /\ ~Live(expected)
    /\ got' = [got EXCEPT ![s] = @ + 1]
    /\ call' = [call EXCEPT ![s] = "recv"]
    /\ rax' = [rax EXCEPT ![s] = "0"]
    /\ UNCHANGED <<task, send, recv, timer_ticks, copies, broken, left>>

\* The slots whose parked send the receive may take.
OffersPastSlotOne(s, expected) ==
    {t \in Slots \ {1} : /\ state[t] = "send"
                         /\ send_to[t] = Pid(s)
                         /\ pending[t]
                         /\ expected \in {Any, Pid(t)}}
Offers(s, expected) ==
    {t \in Slots : /\ state[t] = "send"
                   /\ send_to[t] = Pid(s)
                   /\ pending[t]
                   /\ expected \in {Any, Pid(t)}}

RecvWaits(s, expected) ==
    /\ Ready(s)
    /\ expected # Pid(s)
    /\ expected # Any => Live(expected)

RecvMeetsLeavesSender(s, expected) ==
    /\ RecvWaits(s, expected)
    /\ Offers(s, expected) # {}
    /\ copies' = [copies EXCEPT ![Min(Offers(s, expected))] = @ + 1]
    /\ rax' = [rax EXCEPT ![s] = "0"]
    /\ got' = [got EXCEPT ![s] = @ + 1]
    /\ call' = [call EXCEPT ![s] = "recv"]
    /\ UNCHANGED <<task, send, recv, timer_ticks, broken, left>>
RecvMeets(s, expected) ==
    /\ RecvWaits(s, expected)
    /\ Offers(s, expected) # {}
    /\ LET t == Min(Offers(s, expected)) IN
           /\ copies' = [copies EXCEPT ![t] = @ + 1]
           /\ EndSends({t})
           /\ state' = [state EXCEPT ![t] = "running"]
           /\ rax' = Set(rax, {s, t}, "0")
    /\ got' = [got EXCEPT ![s] = @ + 1]
    /\ call' = [call EXCEPT ![s] = "recv"]
    /\ UNCHANGED <<gen, recv, timer_ticks, broken, left>>

RecvParks(s, expected) ==
    /\ RecvWaits(s, expected)
    /\ Offers(s, expected) = {}
    /\ recv_buf' = [recv_buf EXCEPT ![s] = TRUE]
    /\ recv_expect' = [recv_expect EXCEPT ![s] = expected]
    /\ state' = [state EXCEPT ![s] = "recv"]
    /\ rax' = [rax EXCEPT ![s] = "0"]
    /\ call' = [call EXCEPT ![s] = "recv"]
    /\ UNCHANGED <<gen, send, timer_ticks, copies, got, broken, left>>

\* The scheduler loads the task and its call returns rax.
Resume(s) ==
    /\ state[s] = "running"
    /\ call[s] # "none"
    /\ call' = [call EXCEPT ![s] = "none"]
    /\ rax' = [rax EXCEPT ![s] = "0"]
    /\ copies' = [copies EXCEPT ![s] = 0]
    /\ got' = [got EXCEPT ![s] = 0]
    /\ broken' = [broken EXCEPT ![s] = FALSE]
    /\ left' = [left EXCEPT ![s] = 0]
    /\ UNCHANGED <<task, send, recv, timer_ticks>>

----------------------------------------------------------------------------
\* timer64_dispatch: the clock moves and ipc64_tick ends the sends whose
\* deadline has come.
Tick ==
    LET now == NextTick(timer_ticks)
        late == {s \in Slots : /\ state[s] = "send"
                               /\ timed[s]
                               /\ ~Before(now, send_deadline[s])}
    IN  /\ timer_ticks' = now
        /\ send_to' = Set(send_to, late, Any)
        /\ pending' = Set(pending, late, FALSE)
        /\ timed' = Set(timed, late, FALSE)
        /\ send_deadline' = Set(send_deadline, late, 0)
        /\ state' = Set(state, late, "running")
        /\ rax' = Set(rax, late, "ETIMEDOUT")
        /\ left' = [s \in Slots |->
               IF state[s] = "send" /\ timed[s] /\ left[s] > 0
               THEN left[s] - 1 ELSE left[s]]
        /\ UNCHANGED <<gen, recv, call, copies, got, broken>>

\* Who is parked on task d.
Senders(d) == {s \in Slots : state[s] = "send" /\ send_to[s] = Pid(d)}

WaitersForgotten(d) == {}
Waiters(d) ==
    {s \in Slots : state[s] = "recv" /\ recv_buf[s] /\ recv_expect[s] = Pid(d)}

\* terminate64: ipc64_task_died wakes who waits for the dead task, then the
\* slot keeps a zombie, or is free at once when the parent ignores SIGCHLD.
TaskDied(d) ==
    LET senders == Senders(d)
        waiters == Waiters(d)
    IN  /\ state[d] \notin {"free", "zombie"}
        /\ \E after \in {"zombie", "free"}, noticed \in SUBSET waiters :
               /\ after = "free" => gen[d] < GenMax
               /\ state' = [Set(state, senders \cup waiters, "running")
                                EXCEPT ![d] = after]
               /\ gen' = [gen EXCEPT ![d] =
                             IF after = "free" THEN @ + 1 ELSE @]
               /\ rax' = [s \in Slots |->
                      CASE s = d -> "0"
                        [] s \in senders -> "ESRCH"
                        [] s \in waiters -> Answer(s \in noticed)
                        [] OTHER -> rax[s]]
               /\ got' = [s \in Slots |->
                      IF s = d THEN 0 ELSE Count(got[s], s \in noticed)]
        /\ EndSends(senders \cup {d})
        /\ recv_buf' = Set(recv_buf, waiters \cup {d}, FALSE)
        /\ recv_expect' = Set(recv_expect, waiters \cup {d}, Any)
        /\ call' = [call EXCEPT ![d] = "none"]
        /\ copies' = [copies EXCEPT ![d] = 0]
        /\ broken' = [broken EXCEPT ![d] = FALSE]
        /\ left' = [left EXCEPT ![d] = 0]
        /\ UNCHANGED <<timer_ticks>>

\* The zombie is reaped: task_free_slot.
Reap(s) ==
    /\ state[s] = "zombie"
    /\ gen[s] < GenMax
    /\ state' = [state EXCEPT ![s] = "free"]
    /\ gen' = [gen EXCEPT ![s] = @ + 1]
    /\ UNCHANGED <<send, recv, rax, timer_ticks, call, copies, got,
                   broken, left>>

\* A slot is allocated to a new task.
Spawn(s) ==
    /\ state[s] = "free"
    /\ state' = [state EXCEPT ![s] = "running"]
    /\ UNCHANGED <<gen, send, recv, rax, timer_ticks, call, copies, got,
                   broken, left>>

\* posix_signal_stop on a task: wake_with_eintr knows no park of this module,
\* so the fields of the parked call stay as they are.
Stop(s) ==
    /\ s \in Stoppable
    /\ state[s] \in {"running", "send", "recv"}
    /\ state' = [state EXCEPT ![s] = "stopped"]
    /\ broken' = [broken EXCEPT ![s] = @ \/ state[s] # "running"]
    /\ UNCHANGED <<gen, send, recv, rax, timer_ticks, call, copies, got,
                   left>>

\* posix_signal_continue_task.
Continue(s) ==
    /\ s \in Stoppable
    /\ state[s] = "stopped"
    /\ state' = [state EXCEPT ![s] = "running"]
    /\ UNCHANGED <<gen, send, recv, rax, timer_ticks, call, copies, got,
                   broken, left>>

Send(s, dest) ==
    \/ SendRefused(s, dest)
    \/ SendMeets(s, dest)
    \/ SendDeadlocks(s, dest)
    \/ \E timeout \in Timeouts \cup {0} : SendParks(s, dest, timeout)
    \/ SendNbMisses(s, dest)

Recv(s, expected) ==
    \/ RecvRefused(s, expected)
    \/ RecvProbe(s, expected)
    \/ RecvMeets(s, expected)
    \/ RecvParks(s, expected)

Next ==
    \/ \E s \in Slots :
           \/ \E dest \in Pids : Send(s, dest)
           \/ \E expected \in Pids \cup {Any} : Recv(s, expected)
           \/ Resume(s)
           \/ TaskDied(s)
           \/ Reap(s)
           \/ Spawn(s)
           \/ Stop(s)
           \/ Continue(s)
    \/ Tick

Spec == Init /\ [][Next]_vars

\* The timer ticks and the round-robin pick loads every runnable task.
Fairness == WF_vars(Tick) /\ \A s \in Slots : WF_vars(Resume(s))

----------------------------------------------------------------------------
Answers == {"0", "-1", "EINVAL", "EDEADLK", "ESRCH", "ETIMEDOUT"}
States == {"running", "send", "recv", "stopped", "zombie", "free"}

\* Every variable keeps its type; a parked call is the kind its state says.
TypeOK ==
    /\ state \in [Slots -> States]
    /\ gen \in [Slots -> 0 .. GenMax]
    /\ send_to \in [Slots -> Pids \cup {Any}]
    /\ pending \in [Slots -> BOOLEAN]
    /\ timed \in [Slots -> BOOLEAN]
    /\ send_deadline \in [Slots -> Times]
    /\ recv_buf \in [Slots -> BOOLEAN]
    /\ recv_expect \in [Slots -> Pids \cup {Any}]
    /\ rax \in [Slots -> Answers]
    /\ timer_ticks \in Times
    /\ call \in [Slots -> {"none", "send", "recv"}]
    /\ copies \in [Slots -> 0 .. 1]
    /\ got \in [Slots -> 0 .. 1]
    /\ broken \in [Slots -> BOOLEAN]
    /\ left \in [Slots -> Timeouts \cup 0 .. Wrap]

\* No rendezvous is missed: a sender and a receiver that could take its
\* message are never both parked (whichever of send_internal and ipc64_recv
\* comes second finds the first).
NoMissedRendezvous ==
    \A s, r \in Slots :
        ~(state[s] = "send" /\ send_to[s] = Pid(r) /\ Accepts(r, s))

\* deadlock() and break_deadlock() together: the parked sends never form a
\* cycle, whatever order the members parked, died or were stopped in.
SendsAcyclic ==
    \A S \in (SUBSET Slots) \ {{}} :
        \E s \in S : state[s] = "send" => send_to[s][1] \notin S

\* ipc64_task_died: nobody stays parked on a task that is gone, and the
\* message of a parked send is still there to be taken.
ParkedOnLiveTask ==
    \A s \in Slots :
        /\ state[s] = "send" => pending[s] /\ Live(send_to[s])
        /\ state[s] = "recv" =>
               recv_buf[s] /\ (recv_expect[s] = Any \/ Live(recv_expect[s]))

\* A call answers 0 exactly when its message was copied, once: a send when
\* the receiver has the message, a receive when it got one.  (For a task
\* no stop signal took out of the call.)
AnswerTellsDelivery ==
    \A s \in {t \in Slots : ~broken[t]} :
        /\ state[s] = "running" /\ call[s] = "send" =>
               (rax[s] = "0" <=> copies[s] = 1)
        /\ state[s] = "running" /\ call[s] = "recv" =>
               (rax[s] = "0" <=> got[s] = 1)

\* A timed send is parked only while its timeout runs and answers ETIMEDOUT
\* only when it has run out, also when timer_ticks wraps (syscall 31 bounds
\* the timeout, ipc64_tick compares the signed difference).
TimedSendOnTime ==
    \A s \in Slots :
        /\ state[s] = "send" /\ timed[s] => left[s] > 0
        /\ call[s] = "send" /\ rax[s] = "ETIMEDOUT" => left[s] = 0

\* A parked task waits for somebody who lives and has not offered yet: whichever
\* of send_internal and ipc64_recv comes second finds the first, and
\* ipc64_task_died leaves nobody parked on a task that is gone.
ParkedForCause == NoMissedRendezvous /\ ParkedOnLiveTask

\* A call answers what happened: 0 exactly when its message was copied, once,
\* and ETIMEDOUT exactly when its time had run out, across the wrap of the clock.
AnswersTrue == TypeOK /\ AnswerTellsDelivery /\ TimedSendOnTime

\* A timed send always returns to its task, unless a stop signal holds it.
TimedSendReturns ==
    \A s \in Slots : (state[s] = "send" /\ timed[s]) ~>
                         (call[s] = "none" \/ state[s] = "stopped")
=============================================================================
