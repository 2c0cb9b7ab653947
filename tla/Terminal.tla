------------------------------ MODULE Terminal ------------------------------
(***************************************************************************)
(* The console terminal: line discipline, parked readers, process groups,  *)
(* and the signals job control is made of.                                 *)
(*                                                                         *)
(* Input arrives in an interrupt of the boot processor; readers run on any *)
(* processor.  posix_tty_wait_klock orders a park against the wake, but    *)
(* the bytes are queued before that lock is taken, so input is two steps   *)
(* (`irq`) and a read is up to three (`pc`).  The queue counters are not   *)
(* under a lock; one push or one take is treated as atomic.                *)
(*                                                                         *)
(* All tasks have one user id (the EPERM path is not modelled).  Reports   *)
(* of stops to the parent are in module Process.                           *)
(***************************************************************************)
EXTENDS Naturals, FiniteSets, Sequences, SequencesExt

CONSTANTS Slots,      \* task slots, 1 .. N; the id of a task is its slot
          LineMax,    \* POSIX_TTY_LINE_MAX
          QueueMax    \* POSIX_TTY_QUEUE_MAX

VARIABLES tty,        \* struct posix_tty_state
          task,       \* [Slots -> state, call in progress, group]
          sig,        \* [Slots -> struct posix_signal_state]
          irq         \* what the input interrupt still has to do

vars == <<tty, task, sig, irq>>

Stops == {"TSTP", "TTIN", "TTOU"}
Signals == Stops \cup {"INT", "CONT"}

sig_default_stop(s) == s \in Stops
sig_default_term(s) == s # "CONT"

NoSignals == [pending |-> {}, blocked |-> {}, handler |-> [s \in Signals |-> "dfl"]]
FreeTask == [state |-> "free", pc |-> "user", want |-> 0, group |-> 0,
             owes |-> FALSE]

\* posix_tty_create; typed numbers the bytes, taken is the last one read.
NewTty == [line |-> <<>>, queue |-> <<>>, eof |-> FALSE, foreground |-> 0,
           canon |-> TRUE, isig |-> TRUE, tostop |-> FALSE, typed |-> 0, taken |-> 0]

Init ==
    /\ tty = NewTty
    /\ task = [t \in Slots |-> [FreeTask EXCEPT !.state = "run", !.group = t]]
    /\ sig = [t \in Slots |-> NoSignals]
    /\ irq = "idle"

Live(w, t) == w[t].state # "free"
Idle(t) == task[t].state = "run" /\ task[t].pc = "user"
Others(w, t) == \E u \in Slots \ {t} : w[u].state = "run"
Smaller(a, b) == IF a < b THEN a ELSE b

posix_pgroup_members(w, g) == {t \in Slots : Live(w, t) /\ w[t].group = g}
posix_pgroup_live(w, g) == posix_pgroup_members(w, g) # {}

-----------------------------------------------------------------------------
(* Signals (posix_signal.c).  s is the tasks w and their signal states g.     *)

\* A parked read is broken; its park record is cleared with it.
wake_with_eintr(s, t) ==
    IF s.w[t].state # "tty" THEN s
    ELSE [s EXCEPT !.w[t].state = "run", !.w[t].pc = "user", !.w[t].want = 0]

posix_signal_stop(s, t) ==
    IF s.w[t].state = "stopped" THEN s
    ELSE [wake_with_eintr(s, t) EXCEPT !.w[t].state = "stopped"]

\* Pending stops are discarded, and the answer a self-stop owed is published.
posix_signal_continue_task(s, t) ==
    LET r == [s EXCEPT !.g[t].pending = @ \ Stops]
    IN  IF r.w[t].state # "stopped" THEN r
        ELSE [r EXCEPT !.w[t].state = "run", !.w[t].owes = FALSE]

\* Death: descriptors, signals and the group are reset, the slot freed.
terminate(s, t) ==
    [s EXCEPT !.w[t] = FreeTask, !.g[t] = NoSignals]

\* One signal to one target: the new state and the code of posix_signal_one.
\* 1 is acted on at once by every caller, so termination is part of it.
posix_signal_one(s, c, t, n) ==
    LET act == s.g[t].handler[n]
        resumed == IF n = "CONT" THEN posix_signal_continue_task(s, t) ELSE s
    IN  IF act = "ign" THEN [s |-> resumed, code |-> 0]
        ELSE IF n \in s.g[t].blocked
             THEN [s |-> [s EXCEPT !.g[t].pending = @ \cup {n}], code |-> 0]
        ELSE IF act = "catch"
             THEN LET p == [s EXCEPT !.g[t].pending = @ \cup {n}]
                      r == IF n = "CONT" THEN posix_signal_continue_task(p, t) ELSE p
                  IN  [s |-> wake_with_eintr(r, t), code |-> 0]
        ELSE IF n = "CONT" THEN [s |-> resumed, code |-> 0]
        ELSE IF sig_default_stop(n)
             THEN IF t = c /\ ~Others(s.w, c) THEN [s |-> s, code |-> 3]
                  ELSE [s |-> [posix_signal_stop(s, t) EXCEPT !.w[t].owes = @ \/ t = c],
                        code |-> IF t = c THEN 2 ELSE 0]
        ELSE [s |-> terminate(s, t), code |-> 1]

Now == [w |-> task, g |-> sig]
Become(s) == task' = s.w /\ sig' = s.g

kill(c, t, n) ==
    /\ Idle(c) /\ Live(task, t)
    /\ Become(posix_signal_one(Now, c, t, n).s)
    /\ UNCHANGED <<tty, irq>>

posix_signal_action(t, n, h) ==
    /\ Idle(t) /\ sig[t].handler[n] # h
    /\ sig' = [sig EXCEPT ![t].handler[n] = h]
    /\ UNCHANGED <<tty, task, irq>>

posix_signal_procmask(t, mask) ==
    /\ Idle(t) /\ sig[t].blocked # mask
    /\ sig' = [sig EXCEPT ![t].blocked = mask]
    /\ UNCHANGED <<tty, task, irq>>

\* The way out of a system call: the disposition is read again.
posix_signal_deliver(t) ==
    /\ Idle(t)
    /\ \E n \in sig[t].pending \ sig[t].blocked :
         LET cleared == [Now EXCEPT !.g[t].pending = @ \ {n}]
         IN  IF sig[t].handler[n] = "catch"
             THEN Become([cleared EXCEPT !.g[t].blocked = @ \cup {n}])
             ELSE IF sig[t].handler[n] = "ign" \/ ~sig_default_term(n)
                  THEN Become(cleared)
                  ELSE Become(terminate(cleared, t))
    /\ UNCHANGED <<tty, irq>>

\* The handler returns: the mask saved in the frame comes back.
posix_signal_restore(t, mask) ==
    /\ Idle(t) /\ sig[t].blocked # {} /\ mask \subseteq sig[t].blocked
    /\ sig' = [sig EXCEPT ![t].blocked = mask]
    /\ UNCHANGED <<tty, task, irq>>

\* A freed slot is forked into: group and signals are the parent's, the
\* pending set is not.
fork(t, c) ==
    /\ Idle(t) /\ task[c].state = "free"
    /\ task' = [task EXCEPT ![c] = [FreeTask EXCEPT !.state = "run",
                                                    !.group = task[t].group]]
    /\ sig' = [sig EXCEPT ![c] = [sig[t] EXCEPT !.pending = {}]]
    /\ UNCHANGED <<tty, irq>>

posix_pgroup_set(t, g) ==
    /\ Idle(t) /\ task[t].group # g
    /\ g = t \/ posix_pgroup_live(task, g)
    /\ task' = [task EXCEPT ![t].group = g]
    /\ UNCHANGED <<tty, sig, irq>>

-----------------------------------------------------------------------------
(* The line discipline (posix_tty.c).                                         *)

tty_ready(y) == y.queue # <<>> \/ y.eof

\* As many bytes as fit; the others are dropped.
queue_push(y, bytes) ==
    [y EXCEPT !.queue = @ \o SubSeq(bytes, 1, Smaller(Len(bytes), QueueMax - Len(@)))]

\* One byte: an ordinary character, a newline, erase, line kill or end of file.
\* Without ICANON the last three are bytes like any other.
posix_tty_input_byte(kind) ==
    LET n == tty.typed + 1
        input == ~tty.canon \/ kind \in {"char", "newline"}
        y == [tty EXCEPT !.typed = IF input THEN n ELSE @]
        Flush(x) == [queue_push(x, x.line) EXCEPT !.line = <<>>]
        Drop == IF tty.line = <<>> THEN y ELSE [y EXCEPT !.line = Front(@)]
    IN  /\ irq = "idle"
        /\ IF ~tty.canon
           THEN tty' = queue_push(y, <<n>>) /\ irq' = "wake"
           ELSE CASE kind = "newline" -> tty' = queue_push(Flush(y), <<n>>) /\ irq' = "wake"
                  [] kind = "erase"   -> tty' = Drop /\ UNCHANGED irq
                  [] kind = "kill"    -> tty' = [y EXCEPT !.line = <<>>] /\ UNCHANGED irq
                  [] kind = "eof"     -> /\ tty' = IF y.line # <<>> THEN Flush(y)
                                                   ELSE [y EXCEPT !.eof = TRUE]
                                         /\ irq' = "wake"
                  [] kind = "char"    -> /\ tty' = IF Len(y.line) < LineMax
                                                   THEN [y EXCEPT !.line = Append(@, n)]
                                                   ELSE y
                                         /\ UNCHANGED irq
        /\ UNCHANGED <<task, sig>>

\* A control character goes to the foreground group and not to the queue.
posix_tty_deliver(n) ==
    /\ irq = "idle" /\ tty.isig /\ tty.foreground # 0
    /\ LET Post(s, t) == posix_signal_one(s, t, t, n).s
       IN  Become(FoldLeft(Post, Now,
                  SetToSortSeq(posix_pgroup_members(task, tty.foreground), <)))
    /\ UNCHANGED <<tty, irq>>

\* posix_tty_read: an empty queue gives up the pending end of file.
posix_tty_read(y, want) ==
    LET n == Smaller(want, Len(y.queue))
    IN  IF y.queue = <<>> THEN [y EXCEPT !.eof = FALSE]
        ELSE [y EXCEPT !.queue = SubSeq(@, n + 1, Len(@)), !.taken = y.queue[n]]

tty_wake_readers ==
    /\ irq = "wake" /\ irq' = "idle"
    /\ LET Serve(s, t) ==
             IF s.w[t].state # "tty" \/ ~tty_ready(s.y) THEN s
             ELSE [y |-> posix_tty_read(s.y, s.w[t].want),
                   w |-> [s.w EXCEPT ![t].state = "run", ![t].pc = "user", ![t].want = 0]]
           s == FoldLeft(Serve, [y |-> tty, w |-> task], SetToSortSeq(Slots, <))
       IN  tty' = s.y /\ task' = s.w
    /\ UNCHANGED sig

tty_background(t) == tty.foreground # 0 /\ task[t].group # tty.foreground

\* The read call: the background rule, then a look at the queue.  A background
\* caller that stops owes EINTR; one that keeps running fails with EIO.
posix_tty_io_read(t, n) ==
    /\ Idle(t)
    /\ IF tty_background(t)
       THEN Become(posix_signal_one(Now, t, t, "TTIN").s)
       ELSE /\ task' = [task EXCEPT ![t].want = n,
                                    ![t].pc = IF tty_ready(tty) THEN "take" ELSE "park"]
            /\ UNCHANGED sig
    /\ UNCHANGED <<tty, irq>>

posix_tty_park_at_once(t) ==
    /\ task[t].state = "run" /\ task[t].pc = "park" /\ Others(task, t)
    /\ task' = [task EXCEPT ![t].state = "tty", ![t].pc = "user"]
    /\ UNCHANGED <<tty, sig, irq>>

\* posix_tty_park tests the queue again under the lock.
posix_tty_park(t) ==
    /\ task[t].state = "run" /\ task[t].pc = "park"
    /\ \/ /\ tty_ready(tty)
          /\ task' = [task EXCEPT ![t].pc = "take"]
       \/ /\ ~tty_ready(tty) /\ Others(task, t)
          /\ task' = [task EXCEPT ![t].state = "tty", ![t].pc = "user"]
       \/ /\ ~tty_ready(tty)
          /\ task' = [task EXCEPT ![t].pc = "user", ![t].want = 0]
    /\ UNCHANGED <<tty, sig, irq>>

tty_read_ready(t) ==
    /\ task[t].state = "run" /\ task[t].pc = "take"
    /\ tty' = posix_tty_read(tty, task[t].want)
    /\ task' = [task EXCEPT ![t].pc = "user", ![t].want = 0]
    /\ UNCHANGED <<sig, irq>>

\* A background writer on a TOSTOP line, or any background caller that sets the
\* foreground group, is sent SIGTTOU and goes on only if it did not stop.
tty_tou_gate(t, always) ==
    IF tty_background(t) /\ (always \/ tty.tostop)
    THEN posix_signal_one(Now, t, t, "TTOU") ELSE [s |-> Now, code |-> 0]

posix_tty_write(t) ==
    /\ Idle(t) /\ tty_background(t) /\ tty.tostop
    /\ Become(tty_tou_gate(t, FALSE).s)
    /\ UNCHANGED <<tty, irq>>

posix_tty_foreground_set(t, g) ==
    LET r == tty_tou_gate(t, TRUE)
    IN  /\ Idle(t)
        /\ Become(r.s)
        /\ tty' = IF r.code = 0 /\ posix_pgroup_live(r.s.w, g)
                  THEN [tty EXCEPT !.foreground = g] ELSE tty
        /\ UNCHANGED irq

posix_tty_termios_set(t, canon, isig, tostop) ==
    /\ Idle(t)
    /\ tty' = [tty EXCEPT !.canon = canon, !.isig = isig, !.tostop = tostop]
    /\ UNCHANGED <<task, sig, irq>>

-----------------------------------------------------------------------------

\* A reader asleep on the terminal has nothing to read: whenever the input
\* interrupt is not on its way to wake it, no line and no end of file is queued
\* (posix_tty_park's second look closes the window the first look leaves).
TtySleepsForCause ==
    irq = "idle" => \A t \in Slots : task[t].state = "tty" => ~tty_ready(tty)

\* Bytes reach readers in the order they were typed, whoever reads and whatever
\* was erased or dropped: what is queued is older than what is being edited,
\* newer than what was read, and in order.
InputInOrder ==
    LET rest == tty.queue \o tty.line
    IN  \A i \in 1 .. Len(rest) :
          rest[i] > (IF i = 1 THEN tty.taken ELSE rest[i - 1])

=============================================================================
