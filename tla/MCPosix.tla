------------------------------ MODULE MCPosix ------------------------------
(***************************************************************************)
(* Instances of the POSIX side of the kernel: pipes, descriptors and poll  *)
(* (Pipes), the terminal and job control (Terminal), sockets (Sockets).    *)
(*                                                                         *)
(* The three share no state, so a behaviour picks a scope at the start and *)
(* only that part moves; the others keep a dummy value.                    *)
(*   table     descriptor tables, fork, dup, cloexec, the pipe and ofd pools*)
(*   io        three tasks on one pipe                                     *)
(*   poll      two tasks on one pipe, one of them may poll                 *)
(*   alone     the same on one processor, where a call runs to its end     *)
(*   line      typing, erasing and reading by three tasks                  *)
(*   jobs      control characters, stops, continues and the foreground     *)
(*   server    a listener, its accept queue and its connections            *)
(*   client    one connection that sends, receives and closes              *)
(*   datagram  a UDP socket                                                *)
(*   shared    two tasks on the sockets of one connection                  *)
(***************************************************************************)
EXTENDS Integers, FiniteSets

CONSTANTS Scopes,
          MaxBytes,   \* bound: bytes written to a pipe
          TypedMax    \* bound: bytes typed

VARIABLES tables, ofds, pipes, ptask, waitLock, ticking,
          tty, ttask, sig, irq,
          conns, socks, held, stask, up,
          scope

pvars == <<tables, ofds, pipes, ptask, waitLock, ticking>>
yvars == <<tty, ttask, sig, irq>>
svars == <<conns, socks, held, stask, up>>

P == INSTANCE Pipes WITH task <- ptask, Slots <- 1 .. 3, Fds <- 0 .. 1, Ofds <- 1 .. 3,
                         Pipes <- 1 .. 2, PipeBuf <- 2
Y == INSTANCE Terminal WITH task <- ttask, Slots <- 1 .. 3, LineMax <- 2, QueueMax <- 3
S == INSTANCE Sockets WITH task <- stask, Tasks <- 1 .. 2, Socks <- 1 .. 2, Conns <- 1 .. 3,
                           Backlog <- 1, DataMax <- 1, GenMax <- 2

OfPipes == {"table", "io", "poll", "alone"}
OfTty == {"line", "jobs"}
OfSockets == {"server", "client", "datagram", "shared"}

PipeIdle == tables = 0 /\ ofds = 0 /\ pipes = 0 /\ ptask = 0 /\ waitLock = 0 /\ ticking = 0
TtyIdle == tty = 0 /\ ttask = 0 /\ sig = 0 /\ irq = 0
SocketIdle == conns = 0 /\ socks = 0 /\ held = 0 /\ stask = 0 /\ up = 0

\* A pipe made by one task and inherited by the others.
Piped ==
    LET n == IF scope = "io" THEN 3 ELSE 2
    IN  /\ tables = [t \in 1 .. 3 |-> [d \in 0 .. 1 |->
                       IF t <= n THEN [ofd |-> d + 1, cloexec |-> FALSE] ELSE P!Closed]]
        /\ ofds = [o \in 1 .. 3 |->
                     IF o = 3 THEN P!FreeOfd
                     ELSE [active |-> TRUE, refs |-> n, pipe |-> 1,
                           end |-> IF o = 1 THEN "read" ELSE "write"]]
        /\ pipes = [p \in 1 .. 2 |->
                      IF p = 2 THEN P!FreePipe
                      ELSE [P!FreePipe EXCEPT !.active = TRUE, !.readers = n, !.writers = n]]
        /\ ptask = [t \in 1 .. 3 |-> IF t <= n THEN [P!FreeTask EXCEPT !.state = "run"]
                                               ELSE P!FreeTask]
        /\ waitLock = 0 /\ ticking = 0

PosixInit ==
    /\ IF scope \notin OfPipes THEN PipeIdle ELSE IF scope = "table" THEN P!Init ELSE Piped
    /\ IF scope \in OfTty THEN Y!Init ELSE TtyIdle
    /\ IF scope \in OfSockets THEN S!Init ELSE SocketIdle

-----------------------------------------------------------------------------

Table(t) ==
    /\ scope = "table"
    /\ \/ P!posix_fd_install_vfs(t)
       \/ t = 1 /\ P!posix_pipe_create(t)
       \/ P!posix_fd_install_pipe(t)
       \/ P!posix_fd_close_cloexec(t)
       \/ P!task_free_slot(t)
       \/ P!release_ofd(t)
       \/ t = 1 /\ P!posix_fd_fork(t, 2)
       \/ \E d \in 0 .. 1 :
            \/ P!posix_fd_dup(t, d)
            \/ \E e \in 0 .. 1 : P!posix_fd_dup2(t, d, e)
            \/ d = 0 /\ P!posix_fd_set_cloexec(t, d, TRUE)
            \/ t = 1 /\ P!retain_descriptor(t, d)

PipeStep(t) ==
    \/ P!task_mark_zombie(t)
    \/ P!scheduler64_switch(t)
    \/ P!context_load(t)
    \/ P!posix_poll_notify(t)
    \/ \E d \in 0 .. 1 : P!posix_fd_close(t, d)
    \/ /\ scope \in {"io", "poll", "alone"}
       /\ \/ (scope = "io" => t = 1) /\ P!wake_with_eintr(t)
          \/ \E d \in 0 .. 1, n \in 1 .. 2 :
               /\ scope # "io" => n = 1
               /\ P!posix_pipe_io(t, d, n) /\ \A p \in 1 .. 2 : pipes'[p].in <= MaxBytes
    \/ /\ scope \in {"poll", "alone"}
       /\ \/ \E d \in 0 .. 1 : P!posix_poll(t, {d}, TRUE)
          \/ P!poll_park(t)
          \/ P!posix_poll_tick(t)

\* On one processor nobody else moves while a task is inside a call.
Turn(t) ==
    scope = "alone" =>
      ticking = 0 /\ waitLock \in {0, t} /\ \A u \in 1 .. 3 \ {t} : ~ptask[u].owes /\ ~ptask[u].switching

PipeNext ==
    /\ scope \in OfPipes
    /\ \/ \E t \in 1 .. 3 : Turn(t) /\ (Table(t) \/ PipeStep(t))
       \/ scope \in {"poll", "alone"} /\ P!poll_complete

Typing ==
    \/ /\ scope = "line" /\ tty.typed < TypedMax
       /\ \E k \in {"char", "newline", "erase", "kill", "eof"} : Y!posix_tty_input_byte(k)
    \/ scope = "jobs" /\ tty.typed < 1 /\ Y!posix_tty_input_byte("newline")
    \/ scope = "jobs" /\ \E n \in {"INT", "TSTP"} : Y!posix_tty_deliver(n)

\* One session leader (task 1) sets the line up; task 2 has dispositions of its own.
Jobs(t) ==
    /\ scope = "jobs"
    /\ \/ t = 1 /\ \E n \in {"CONT", "TSTP"} : Y!kill(t, 2, n)
       \/ t = 2 /\ \E n \in {"TSTP", "TTOU"} : Y!posix_signal_action(t, n, "ign")
       \/ t = 2 /\ Y!posix_signal_action(t, "INT", "catch")
       \/ t = 2 /\ \E m \in {{}, {"TSTP"}} : Y!posix_signal_procmask(t, m)
       \/ Y!posix_signal_deliver(t)
       \/ Y!posix_signal_restore(t, {})
       \/ t = 1 /\ Y!fork(t, 2)
       \/ t = 2 /\ Y!posix_pgroup_set(t, t)
       \/ Y!posix_tty_write(t)
       \/ \E g \in 1 .. 2 : Y!posix_tty_foreground_set(t, g)
       \/ t = 1 /\ Y!posix_tty_termios_set(t, TRUE, TRUE, TRUE)

TtyNext ==
    /\ scope \in OfTty
    /\ \/ Typing
       \/ Y!tty_wake_readers
       \/ \E t \in (IF scope = "line" THEN 1 .. 3 ELSE 1 .. 2) :
            \/ \E n \in (IF scope = "line" THEN 1 .. 2 ELSE {1}) : Y!posix_tty_io_read(t, n)
            \/ Y!posix_tty_park(t)
            \/ Y!tty_read_ready(t)
            \/ /\ scope = "line" /\ t = 1 /\ tty.line = <<>>   \* see InputInOrder
               /\ \E c \in BOOLEAN : Y!posix_tty_termios_set(t, c, TRUE, TRUE)
            \/ Jobs(t)

Kinds == CASE scope = "server"   -> {"accept"}
           [] scope = "client"   -> {"recv", "send"}
           [] scope = "datagram" -> {"recvfrom"}
           [] scope = "shared"   -> {"recv", "send"}

Failures == CASE scope = "server" -> {{}, {"install"}}
              [] scope = "client" -> {{}, {"transmit"}}
              [] OTHER            -> {{}}

Network(c) ==
    \/ S!Syn(c)
    \/ \E f \in Failures : S!Established(c, f)
    \/ S!PeerFin(c)
    \/ S!Broken(c)
    \/ S!Finished(c)
    \/ scope # "server" /\ (S!Data(c) \/ \E f \in Failures : S!Acked(c, f))

Calls(t) ==
    \/ /\ scope = "server" \/ \A u \in 1 .. 2 : held[u] = {}
       /\ t = 1
       /\ S!posix_socket_socket(t, scope = "datagram")
    \/ \E f \in Failures : S!ReadReadiness(t, f) \/ S!complete(t, f)
    \/ S!socket_park(t)
    \/ S!take_notify(t)
    \/ S!posix_socket_signal(t)
    \/ scope # "shared" /\ S!terminate(t)
    \/ scope = "shared" /\ t = 1 /\ S!share(1, 2)
    \/ \E s \in 1 .. 2 :
         \/ scope = "server" /\ S!posix_socket_listen(t, s)
         \/ /\ scope \in {"client", "shared"}
            /\ \A c \in 1 .. 3 : ~conns[c].active /\ (scope = "shared" => conns[c].gen = 1)
            /\ \E f \in Failures : S!posix_socket_connect(t, s, f)
         \/ S!posix_socket_shutdown(t, s)
         \/ S!close(t, s)
         \/ \E k \in Kinds : S!Begin(t, s, k)

SocketNext ==
    /\ scope \in OfSockets
    /\ \/ \E c \in 1 .. 3 : Network(c)
       \/ S!socket_tcp_abort_context
       \/ \E s \in 1 .. 2 : S!socket_udp_notify(s)
       \/ \E t \in 1 .. 2 : Calls(t)

PosixNext ==
    \/ PipeNext /\ UNCHANGED <<yvars, svars>>
    \/ TtyNext /\ UNCHANGED <<pvars, svars>>
    \/ SocketNext /\ UNCHANGED <<pvars, yvars>>
=============================================================================
