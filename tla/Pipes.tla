------------------------------- MODULE Pipes -------------------------------
(***************************************************************************)
(* POSIX descriptors, open file descriptions, pipes and poll.              *)
(*                                                                         *)
(* Every task runs its system calls on a processor of its own, so a call   *)
(* is as many steps as it has critical sections:                           *)
(*   - posix_fd_klock (with the pipe lock nested in it) guards tables and  *)
(*     ofds; posix_pipe_klock alone guards the rings and the parked tasks; *)
(*   - posix_poll_notify runs after the lock is released, so a call that   *)
(*     must notify leaves `owes` set and a later step runs the walk;       *)
(*   - posix_poll holds posix_poll_wait_klock from its scan to the state   *)
(*     change, but the walk reads the state before it takes that lock;     *)
(*   - a task that parks still has to save its context, which clears the   *)
(*     answer register (`switching`).                                      *)
(* The io request of a parked task was checked on entry and a parked task  *)
(* cannot unmap it, so the copies into it do not fail.                     *)
(***************************************************************************)
EXTENDS Integers, FiniteSets, Sequences, SequencesExt

CONSTANTS Slots,      \* task slots, 1 .. N, walked in order
          Fds,        \* descriptors of a task, 0 .. POSIX_FD_MAX - 1
          Ofds,       \* open file descriptions, 1 .. POSIX_OFD_MAX
          Pipes,      \* pipes, 1 .. POSIX_PIPE_MAX
          PipeBuf     \* POSIX_PIPE_BUF

VARIABLES tables,     \* [Slots -> [Fds -> [ofd, cloexec]]], ofd 0 when free
          ofds,       \* [Ofds -> the open file description]
          pipes,      \* [Pipes -> struct posix_pipe_state]
          task,       \* [Slots -> the task and its wait records]
          waitLock,   \* holder of posix_poll_wait_klock, 0 when free
          ticking     \* the slot posix_poll_tick is about to complete, or 0

vars == <<tables, ofds, pipes, task, waitLock, ticking>>

EPIPE == -32
EINTR == -4
EIO == -5

NoWait == [pipe |-> 0, end |-> "read", len |-> 0]
Closed == [ofd |-> 0, cloexec |-> FALSE]
FreeOfd == [active |-> FALSE, refs |-> 0, pipe |-> 0, end |-> "read"]

\* `in` and `out` count the bytes ever put and taken: byte number k of the
\* stream has the value k.  `left` remembers that a parked writer has gone, by
\* a signal or by death, since the last walk over the writers.
FreePipe == [ring |-> [i \in 0 .. PipeBuf - 1 |-> 0], tail |-> 0, count |-> 0,
             readers |-> 0, writers |-> 0, active |-> FALSE, in |-> 0, out |-> 0,
             left |-> FALSE]

FreeTask == [state |-> "free", wait |-> NoWait, held |-> 0, making |-> 0, owes |-> FALSE,
             polls |-> {}, timed |-> FALSE, switching |-> FALSE, answer |-> 0]

Init ==
    /\ tables = [t \in Slots |-> [d \in Fds |-> Closed]]
    /\ ofds = [o \in Ofds |-> FreeOfd]
    /\ pipes = [p \in Pipes |-> FreePipe]
    /\ task = [t \in Slots |-> IF t = 1 THEN [FreeTask EXCEPT !.state = "run"]
                                        ELSE FreeTask]
    /\ waitLock = 0
    /\ ticking = 0

Smallest(S) == CHOOSE x \in S : \A y \in S : x <= y
InOrder(S) == SetToSortSeq(S, <)

\* A task that can start a system call.
Ready(t) ==
    /\ task[t].state = "run" /\ ~task[t].switching /\ ~task[t].owes
    /\ task[t].held = 0 /\ task[t].making = 0 /\ waitLock # t /\ task[t].answer = 0

Others(t) == \E u \in Slots \ {t} : task[u].state = "run"

-----------------------------------------------------------------------------
(* The ring and the tasks parked on it (posix_pipe.c).  s is a pipe p and the *)
(* tasks w.                                                                   *)

ring_free(p) == PipeBuf - p.count

ring_put_at_count(p, n) ==
    [p EXCEPT !.ring = [i \in DOMAIN @ |->
                          LET k == (i - p.count) % PipeBuf IN IF k < n THEN p.in + k + 1 ELSE @[i]],
              !.count = @ + n, !.in = @ + n]

ring_put(p, n) ==
    LET head == (p.tail + p.count) % PipeBuf
    IN  [p EXCEPT !.ring = [i \in DOMAIN @ |->
                              LET k == (i - head) % PipeBuf
                              IN  IF k < n THEN p.in + k + 1 ELSE @[i]],
                  !.count = @ + n, !.in = @ + n]

ring_take(p, n) ==
    [p EXCEPT !.tail = (@ + n) % PipeBuf, !.count = @ - n, !.out = @ + n]

Parked(w, t, p, end) ==
    w[t].state = "pipe" /\ w[t].wait.pipe = p /\ w[t].wait.end = end

Wake(w, t, answer) ==
    [w EXCEPT ![t].state = "run", ![t].wait = NoWait, ![t].answer = answer]

wake_readers(q, s) ==
    LET Serve(r, t) ==
          IF ~Parked(r.w, t, q, "read") \/ r.p.count = 0 THEN r
          ELSE LET take == Smallest({r.p.count, r.w[t].wait.len})
               IN  [p |-> ring_take(r.p, take), w |-> Wake(r.w, t, take)]
    IN  FoldLeft(Serve, s, InOrder(Slots))

\* The walk ends at the first parked writer that does not fit.
wake_writers(q, s) ==
    LET Serve(r, t) ==
          IF r.stop \/ ~Parked(r.w, t, q, "write") THEN r
          ELSE LET n == r.w[t].wait.len
               IN  IF n > ring_free(r.p) THEN [r EXCEPT !.stop = TRUE]
                   ELSE [p |-> ring_put(r.p, n), w |-> Wake(r.w, t, n), stop |-> FALSE]
        done == FoldLeft(Serve, [p |-> s.p, w |-> s.w, stop |-> FALSE], InOrder(Slots))
    IN  [p |-> [done.p EXCEPT !.left = FALSE], w |-> done.w]

WakeAllNobody(w, q, end, answer) == w

WakeAll(w, q, end, answer) ==
    [t \in Slots |-> IF Parked(w, t, q, end)
                     THEN [w[t] EXCEPT !.state = "run", !.wait = NoWait,
                                       !.answer = answer]
                     ELSE w[t]]

\* Task t gives up its park; the writers that stay parked are not looked at.
Leave(P, w, t) ==
    LET q == w[t].wait.pipe
    IN  IF /\ w[t].state = "pipe" /\ w[t].wait.end = "write"
           /\ \E u \in Slots \ {t} : Parked(w, u, q, "write")
        THEN [P EXCEPT ![q].left = TRUE] ELSE P

wake_writers_broken(q, w) == WakeAll(w, q, "write", EPIPE)

pipe_retain(P, q, end) ==
    IF q = 0 \/ ~P[q].active THEN P
    ELSE IF end = "read" THEN [P EXCEPT ![q].readers = @ + 1]
         ELSE [P EXCEPT ![q].writers = @ + 1]

\* s holds all the pipes P, all the tasks w and the descriptions o.
pipe_release(s, q, end) ==
    IF q = 0 \/ ~s.P[q].active THEN s
    ELSE LET p == s.P[q]
             Left(x) == [x EXCEPT !.active = x.readers + x.writers > 0]
         IN  IF end = "read"
             THEN IF p.readers > 1 THEN [s EXCEPT !.P[q].readers = @ - 1]
                  ELSE [s EXCEPT !.P[q] = Left([p EXCEPT !.readers = 0]),
                                 !.w = wake_writers_broken(q, s.w)]
             ELSE IF p.writers > 1 THEN [s EXCEPT !.P[q].writers = @ - 1]
                  ELSE LET r == wake_readers(q, [p |-> [p EXCEPT !.writers = 0], w |-> s.w])
                       IN  [s EXCEPT !.P[q] = Left(r.p),
                                     !.w = WakeAll(r.w, q, "read", 0)]

-----------------------------------------------------------------------------
(* Open file descriptions and descriptors (posix_fd.c).                       *)

ofd_retain_alone(s, o) == [s EXCEPT !.o[o].refs = @ + 1]

ofd_retain_locked(s, o) ==
    [s EXCEPT !.o[o].refs = @ + 1, !.P = pipe_retain(s.P, s.o[o].pipe, s.o[o].end)]

ofd_release_locked(s, o) ==
    LET d == s.o[o]
        r == pipe_release([s EXCEPT !.o[o].refs = @ - 1], d.pipe, d.end)
    IN  IF d.refs > 1 THEN r ELSE [r EXCEPT !.o[o] = FreeOfd]

detach_descriptor_locked(s, t, d) ==
    LET o == s.T[t][d].ofd
    IN  IF o = 0 THEN s
        ELSE ofd_release_locked([s EXCEPT !.T[t][d] = Closed], o)

Now == [T |-> tables, o |-> ofds, P |-> pipes, w |-> task]

\* Leave the descriptor lock with state s; unlock_and_notify owes a walk.
unlock(t, s, notify) ==
    /\ tables' = s.T /\ ofds' = s.o /\ pipes' = s.P
    /\ task' = [s.w EXCEPT ![t].owes = notify]

FreeFd(T, t) == {d \in Fds : T[t][d].ofd = 0}
FreeOfds(o) == {i \in Ofds : ~o[i].active}
CanInstall(s, t) == FreeFd(s.T, t) # {} /\ FreeOfds(s.o) # {}

\* q = 0 installs a plain file or socket.
install(s, t, q, end) ==
    LET d == Smallest(FreeFd(s.T, t))
        i == Smallest(FreeOfds(s.o))
    IN  [s EXCEPT !.T[t][d] = [ofd |-> i, cloexec |-> FALSE],
                  !.o[i] = [active |-> TRUE, refs |-> 1, pipe |-> q, end |-> end],
                  !.P = pipe_retain(s.P, q, end)]

posix_fd_install_vfs(t) ==
    /\ Ready(t) /\ CanInstall(Now, t)
    /\ unlock(t, install(Now, t, 0, "read"), FALSE)
    /\ UNCHANGED <<waitLock, ticking>>

\* The pipe call makes a pipe, then installs its two ends, each in a section of
\* its own.  The read end is closed again when the write end does not fit; when
\* the read end itself does not, the pipe stays active without an end.
posix_pipe_create(t) ==
    /\ Ready(t)
    /\ \E q \in {p \in Pipes : ~pipes[p].active} :
         /\ \A p \in Pipes : p < q => pipes[p].active
         /\ pipes' = [pipes EXCEPT ![q] = [FreePipe EXCEPT !.active = TRUE]]
         /\ task' = [task EXCEPT ![t].making = q]
    /\ UNCHANGED <<tables, ofds, waitLock, ticking>>

posix_fd_install_pipe(t) ==
    LET q == task[t].making
        end == IF pipes[q].readers = 0 THEN "read" ELSE "write"
        read_end == CHOOSE d \in Fds : tables[t][d].ofd # 0 /\ ofds[tables[t][d].ofd].pipe = q
        done == [Now EXCEPT !.w[t].making = 0]
    IN  /\ q # 0 /\ ~task[t].owes
        /\ CASE CanInstall(Now, t) ->
                  unlock(t, install(IF end = "read" THEN Now ELSE done, t, q, end), TRUE)
             [] ~CanInstall(Now, t) /\ end = "read" -> unlock(t, done, FALSE)
             [] OTHER -> unlock(t, detach_descriptor_locked(done, t, read_end), TRUE)
        /\ UNCHANGED <<waitLock, ticking>>

posix_fd_close(t, d) ==
    /\ Ready(t) /\ tables[t][d].ofd # 0
    /\ unlock(t, detach_descriptor_locked(Now, t, d), TRUE)
    /\ UNCHANGED <<waitLock, ticking>>

posix_fd_dup(t, d) ==
    /\ Ready(t) /\ tables[t][d].ofd # 0 /\ FreeFd(tables, t) # {}
    /\ LET o == tables[t][d].ofd
           s == ofd_retain_locked(Now, o)
       IN  unlock(t, [s EXCEPT !.T[t][Smallest(FreeFd(tables, t))] =
                                 [ofd |-> o, cloexec |-> FALSE]], TRUE)
    /\ UNCHANGED <<waitLock, ticking>>

\* The new reference is taken before the replaced descriptor is detached.
posix_fd_dup2(t, d, e) ==
    /\ Ready(t) /\ tables[t][d].ofd # 0 /\ d # e
    /\ LET o == tables[t][d].ofd
           s == detach_descriptor_locked(ofd_retain_locked(Now, o), t, e)
       IN  unlock(t, [s EXCEPT !.T[t][e] = [ofd |-> o, cloexec |-> FALSE]], TRUE)
    /\ UNCHANGED <<waitLock, ticking>>

posix_fd_set_cloexec(t, d, on) ==
    /\ Ready(t) /\ tables[t][d].ofd # 0 /\ tables[t][d].cloexec # on
    /\ tables' = [tables EXCEPT ![t][d].cloexec = on]
    /\ UNCHANGED <<ofds, pipes, task, waitLock, ticking>>

posix_fd_fork(t, c) ==
    /\ Ready(t) /\ task[c].state = "free"
    /\ LET Copy(s, d) ==
             IF s.T[t][d].ofd = 0 THEN s
             ELSE [ofd_retain_locked(s, s.T[t][d].ofd) EXCEPT !.T[c][d] = s.T[t][d]]
           s == FoldLeft(Copy, Now, InOrder(Fds))
       IN  unlock(t, [s EXCEPT !.w[c] = [FreeTask EXCEPT !.state = "run"]], TRUE)
    /\ UNCHANGED <<waitLock, ticking>>

close_descriptors(s, t, which) ==
    FoldLeft(LAMBDA r, d : detach_descriptor_locked(r, t, d), s, InOrder(which))

posix_fd_close_cloexec(t) ==
    /\ Ready(t) /\ \E d \in Fds : tables[t][d].cloexec
    /\ unlock(t, close_descriptors(Now, t, {d \in Fds : tables[t][d].cloexec}), TRUE)
    /\ UNCHANGED <<waitLock, ticking>>

\* A task exits, or is killed while it is parked: task_mark_zombie closes its
\* descriptors while the task still has its old state.
task_mark_zombie(t) ==
    /\ task[t].state \in {"run", "pipe", "poll"}
    /\ task[t].held = 0 /\ task[t].making = 0 /\ ~task[t].owes
    /\ ~task[t].switching /\ waitLock # t
    /\ LET s == close_descriptors([Now EXCEPT !.P = Leave(pipes, task, t)], t, Fds)
       IN  unlock(t, [s EXCEPT !.w[t] = [FreeTask EXCEPT !.state = "zombie"]], TRUE)
    /\ UNCHANGED <<waitLock, ticking>>

task_free_slot(t) ==
    /\ task[t].state = "zombie" /\ ~task[t].owes
    /\ task' = [task EXCEPT ![t] = FreeTask]
    /\ UNCHANGED <<tables, ofds, pipes, waitLock, ticking>>

\* File calls hold the description across the file system call.
retain_descriptor(t, d) ==
    /\ Ready(t) /\ tables[t][d].ofd # 0
    /\ unlock(t, [ofd_retain_locked(Now, tables[t][d].ofd) EXCEPT
                    !.w[t].held = tables[t][d].ofd], FALSE)
    /\ UNCHANGED <<waitLock, ticking>>

release_ofd(t) ==
    /\ task[t].held # 0
    /\ unlock(t, [ofd_release_locked(Now, task[t].held) EXCEPT !.w[t].held = 0], FALSE)
    /\ UNCHANGED <<waitLock, ticking>>

-----------------------------------------------------------------------------
(* Pipe input and output.  `answer` is what a wake stages for a parked call;   *)
(* a call that does not park (end of file, EPIPE, EDEADLK included) answers    *)
(* its caller directly.                                                       *)

\* The tail shared by both directions: park, or refuse when nothing else runs.
ParkOnPipe(t, q, end, n) ==
    \/ /\ Others(t)
       /\ task' = [task EXCEPT ![t].state = "pipe", ![t].switching = TRUE,
                               ![t].wait = [pipe |-> q, end |-> end, len |-> n]]
       /\ UNCHANGED pipes
    \/ UNCHANGED <<task, pipes>>

pipe_read(t, q, n) ==
    LET p == pipes[q]
        take == Smallest({p.count, n})
    IN  IF p.count > 0
        THEN LET s == wake_writers(q, [p |-> ring_take(p, take), w |-> task])
             IN  /\ pipes' = [pipes EXCEPT ![q] = s.p]
                 /\ task' = [s.w EXCEPT ![t].owes = TRUE]
        ELSE IF p.writers = 0 THEN UNCHANGED <<task, pipes>>
             ELSE ParkOnPipe(t, q, "read", n)

\* A write with no reader answers EPIPE (and posts SIGPIPE to its caller).
pipe_write(t, q, n) ==
    LET p == pipes[q]
    IN  IF p.readers = 0 THEN UNCHANGED <<task, pipes>>
        ELSE IF n > ring_free(p) THEN ParkOnPipe(t, q, "write", n)
        ELSE LET s == wake_readers(q, [p |-> ring_put(p, n), w |-> task])
             IN  /\ pipes' = [pipes EXCEPT ![q] = s.p]
                 /\ task' = [s.w EXCEPT ![t].owes = TRUE]

posix_pipe_io(t, d, n) ==
    /\ Ready(t) /\ tables[t][d].ofd # 0
    /\ LET o == ofds[tables[t][d].ofd]
       IN  /\ o.pipe # 0
           /\ IF o.end = "read" THEN pipe_read(t, o.pipe, n)
                                ELSE pipe_write(t, o.pipe, n)
    /\ UNCHANGED <<tables, ofds, waitLock, ticking>>

\* scheduler64_switch: the parked task's context is saved with a zero answer.
scheduler64_switch(t) ==
    /\ task[t].switching
    /\ task' = [task EXCEPT ![t].switching = FALSE, ![t].answer = 0]
    /\ UNCHANGED <<tables, ofds, pipes, waitLock, ticking>>

\* The woken task is picked and its call returns the staged answer.
context_load(t) ==
    /\ task[t].state = "run" /\ ~task[t].switching /\ task[t].answer # 0
    /\ task' = [task EXCEPT ![t].answer = 0]
    /\ UNCHANGED <<tables, ofds, pipes, waitLock, ticking>>

\* A caught signal breaks a pipe or a poll park with EINTR.
wake_with_eintr(t) ==
    /\ task[t].state \in {"pipe", "poll"} /\ waitLock = 0
    /\ task' = [task EXCEPT ![t].state = "run", ![t].wait = NoWait,
                            ![t].polls = {}, ![t].timed = FALSE,
                            ![t].answer = EINTR]
    /\ pipes' = Leave(pipes, task, t)
    /\ UNCHANGED <<tables, ofds, waitLock, ticking>>

-----------------------------------------------------------------------------
(* Poll (posix_poll.c).  A poll asks for every event of its descriptors.      *)

posix_pipe_poll(q, end) ==
    IF end = "read" THEN pipes[q].count > 0 \/ pipes[q].writers = 0
                    ELSE pipes[q].readers = 0 \/ ring_free(pipes[q]) > 0

posix_fd_poll_events(t, d) ==
    LET o == tables[t][d].ofd
    IN  \/ o = 0
        \/ ofds[o].pipe = 0
        \/ posix_pipe_poll(ofds[o].pipe, ofds[o].end)

poll_scan(t, S) == {d \in S : posix_fd_poll_events(t, d)}

\* The scan under the lock; when nothing is ready the lock stays held.
posix_poll(t, S, timed) ==
    /\ Ready(t) /\ waitLock = 0
    /\ IF poll_scan(t, S) # {}
       THEN UNCHANGED <<task, waitLock>>
       ELSE /\ task' = [task EXCEPT ![t].polls = S, ![t].timed = timed]
            /\ waitLock' = t
    /\ UNCHANGED <<tables, ofds, pipes, ticking>>

poll_park(t) ==
    /\ waitLock = t
    /\ waitLock' = 0
    /\ \/ /\ Others(t)
          /\ task' = [task EXCEPT ![t].state = "poll", ![t].switching = TRUE]
       \/ task' = [task EXCEPT ![t].polls = {}, ![t].timed = FALSE]
    /\ UNCHANGED <<tables, ofds, pipes, ticking>>

Completed(w, t, answer) ==
    [w EXCEPT ![t].state = "run", ![t].polls = {}, ![t].timed = FALSE,
              ![t].answer = answer]

\* posix_poll_notify: only slots seen in BLOCKED_POLL are completed.
posix_poll_notify(t) ==
    /\ task[t].owes
    /\ waitLock # 0 => \A u \in Slots : task[u].state # "poll"
    /\ LET Hit(u) == task[u].state = "poll" /\ poll_scan(u, task[u].polls) # {}
       IN  task' = [u \in Slots |->
                      LET x == [task[u] EXCEPT !.owes = @ /\ u # t]
                      IN  IF Hit(u)
                          THEN [x EXCEPT !.state = "run", !.polls = {}, !.timed = FALSE,
                                         !.answer = Cardinality(poll_scan(u, task[u].polls))]
                          ELSE x]
    /\ UNCHANGED <<tables, ofds, pipes, waitLock, ticking>>

\* posix_poll_tick finds an expired poll, then completes it under the lock:
\* the record may have been completed by a notification in between.
posix_poll_tick(t) ==
    /\ ticking = 0 /\ task[t].state = "poll" /\ task[t].timed
    /\ ticking' = t
    /\ UNCHANGED <<tables, ofds, pipes, task, waitLock>>

poll_complete ==
    /\ ticking # 0 /\ waitLock = 0
    /\ ticking' = 0
    /\ task' = Completed(task, ticking,
                 IF task[ticking].polls = {} THEN EIO
                 ELSE Cardinality(poll_scan(ticking, task[ticking].polls)))
    /\ UNCHANGED <<tables, ofds, pipes, waitLock>>

-----------------------------------------------------------------------------

\* The ring is the window of the stream between what was read and what was
\* written: byte out + 1 + i sits at tail + i, and nothing is lost or doubled
\* across the wrap, the direct path and the parked paths.
RingIsStream ==
    \A p \in Pipes :
      /\ pipes[p].in = pipes[p].out + pipes[p].count
      /\ \A i \in 0 .. pipes[p].count - 1 :
           pipes[p].ring[(pipes[p].tail + i) % PipeBuf] = pipes[p].out + 1 + i

Entries(o) == {<<t, d>> \in Slots \X Fds : tables[t][d].ofd = o}
Holders(o) == Cardinality(Entries(o)) + Cardinality({t \in Slots : task[t].held = o})
OnEnd(o, p, end) == o # 0 /\ ofds[o].pipe = p /\ ofds[o].end = end
EndsOf(p, end) ==
    Cardinality({<<t, d>> \in Slots \X Fds : OnEnd(tables[t][d].ofd, p, end)})
      + Cardinality({t \in Slots : OnEnd(task[t].held, p, end)})

\* The reference count of every description is the number of descriptors and
\* calls that hold it, an active one is held, and the end counts of a pipe are
\* the descriptors and calls on each end: across dup, dup2, fork, exec and exit,
\* and a pipe call that runs out of descriptors.
EndCountsExact ==
    /\ \A o \in Ofds : /\ ofds[o].refs = Holders(o)
                       /\ ofds[o].active <=> ofds[o].refs > 0
    /\ \A p \in Pipes : pipes[p].active =>
         /\ pipes[p].readers = EndsOf(p, "read")
         /\ pipes[p].writers = EndsOf(p, "write")

\* A task parked on a pipe has a cause: a parked reader faces an empty ring that
\* has a writer, a parked writer a ring that has bytes and a reader, so both are
\* never parked at once and no parked task outlives the other end.  A parked
\* writer, or one in a slot before it, does not fit into the ring, unless one
\* has left since the last read: the walk over the writers ends at the first that
\* does not fit, and whoever is behind it sleeps on even if it would.
ParkedOnPipeForCause ==
    \A t \in Slots : task[t].state = "pipe" =>
      LET q == task[t].wait.pipe
          p == pipes[q]
      IN  /\ p.active
          /\ IF task[t].wait.end = "read" THEN p.count = 0 /\ p.writers > 0
             ELSE /\ p.count > 0 /\ p.readers > 0
                  /\ \/ p.left
                     \/ \E u \in Slots : /\ u <= t /\ Parked(task, u, q, "write")
                                        /\ task[u].wait.len > ring_free(p)

\* A task asleep in poll, with no notification still to be delivered, watches
\* only descriptors that are not ready: poll_park keeps the lock from the scan to
\* the change of state.  posix_poll_notify passes over a task that is not parked
\* yet without taking the lock, so this is a property of one processor.
PollSleepsForCause ==
    (\A u \in Slots : ~task[u].owes) =>
      \A t \in Slots : task[t].state = "poll" => poll_scan(t, task[t].polls) = {}
=============================================================================
