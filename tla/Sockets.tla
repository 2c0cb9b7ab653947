------------------------------ MODULE Sockets ------------------------------
(***************************************************************************)
(* Sockets between the calls of tasks and the events of the network: the   *)
(* socket table, the TCP connection table behind it (listeners, their      *)
(* accept queue, generations, detached connections), and the park, notify  *)
(* and complete protocol of the blocking calls.                            *)
(*                                                                         *)
(* Network input, the network tick and the calls of the tasks run on       *)
(* different processors.  net_lock makes each of them one step, but a      *)
(* blocking call is several: it reads the readiness under the lock, lets   *)
(* go of it, and commits to the park later (`pc`).                         *)
(*                                                                         *)
(* Payload is a count.  A connection's segments, windows and retransmission*)
(* are in module Tcp; here one unit of data is queued or in flight.        *)
(*                                                                         *)
(* What may fail in a step is a set f: "transmit", the transmission of a   *)
(* segment; "install", a new descriptor.                                   *)
(***************************************************************************)
EXTENDS Naturals, FiniteSets

CONSTANTS Tasks, Socks, Conns,   \* Conns is 1 .. TCP_CONNECTION_MAX
          Backlog,               \* listen_backlog
          DataMax,               \* bound: received data of a connection
          GenMax                 \* bound: uses of a connection slot

VARIABLES conns,   \* [Conns -> struct tcp_connection]
          socks,   \* [Socks -> struct socket_state]
          held,    \* [Tasks -> set of sockets a descriptor of the task holds]
          task,    \* [Tasks -> the blocking call in progress]
          up       \* the interface of the connections is not revoked

vars == <<conns, socks, held, task, up>>

NoId == <<0, 0>>
FreeConn == [active |-> FALSE, gen |-> 1, state |-> "closed", parent |-> NoId,
             accepted |-> FALSE, detached |-> FALSE, data |-> 0, sendq |-> 0,
             flight |-> 0, error |-> FALSE, eof |-> FALSE]
FreeSock == [active |-> FALSE, dgram |-> FALSE, id |-> NoId, listening |-> FALSE,
             notify |-> FALSE, queued |-> 0,
             shut |-> FALSE]     \* history: shutdown was called on it
\* wait: waits[slot].socket is set; kind and sock: the call's own copy.
NoCall == [pc |-> "user", state |-> "run", wait |-> FALSE, kind |-> "none", sock |-> 0]

Init ==
    /\ conns = [c \in Conns |-> FreeConn]
    /\ socks = [s \in Socks |-> FreeSock]
    /\ held = [t \in Tasks |-> {}]
    /\ task = [t \in Tasks |-> NoCall]
    /\ up = TRUE

id_for(C, c) == <<c, C[c].gen>>
by_id(C, id) == id # NoId /\ C[id[1]].active /\ C[id[1]].gen = id[2]

Trying(f) == [C |-> conns, S |-> socks, H |-> held, T |-> task, fails |-> f]
Now == Trying({})
Become(n) == conns' = n.C /\ socks' = n.S /\ held' = n.H /\ task' = n.T /\ up' = up

-----------------------------------------------------------------------------
(* The connection table (tcp.c).                                              *)

Free(C) == {c \in Conns : ~C[c].active /\ C[c].gen <= GenMax}

\* allocate takes the first free slot.
allocate(C, init) ==
    LET c == CHOOSE x \in Free(C) : \A y \in Free(C) : x <= y
    IN  [C EXCEPT ![c] = [init EXCEPT !.active = TRUE, !.gen = C[c].gen]]

\* active = 0 and the generation moves on, whoever still has the identifier.
Gone(x) == [FreeConn EXCEPT !.gen = x.gen + 1]
freed(C, c) == [C EXCEPT ![c] = Gone(@)]

Children(C, id) == {c \in Conns : C[c].active /\ C[c].parent = id /\ ~C[c].accepted}

tcp_close(C, id) ==
    IF ~by_id(C, id) THEN C
    ELSE LET gone == {id[1]} \cup (IF C[id[1]].state = "listen" THEN Children(C, id) ELSE {})
         IN  [c \in Conns |-> IF c \in gone THEN Gone(C[c]) ELSE C[c]]

\* flush_tcp: what is queued goes out when nothing is in flight.
flush(x) ==
    IF x.sendq = 1 /\ x.flight = 0 /\ x.state \in {"est", "close_wait"}
    THEN [x EXCEPT !.sendq = 0, !.flight = 1] ELSE x

\* The last socket of a connection goes away: refused, aborted, or left to
\* finish by itself.  A closed window with unsent data resets the connection.
tcp_detach(C, id, windowClosed) ==
    IF ~by_id(C, id) THEN C
    ELSE LET x == C[id[1]]
         IN  CASE x.state \in {"listen", "closed", "syn_rcvd", "syn_sent"} -> tcp_close(C, id)
               [] x.state \in {"est", "close_wait"} ->
                    IF windowClosed /\ x.sendq = 1 THEN tcp_close(C, id)
                    ELSE [C EXCEPT ![id[1]].detached = TRUE,
                                   ![id[1]].state = IF x.state = "est" THEN "fin_wait"
                                                                       ELSE "last_ack"]
               [] OTHER -> [C EXCEPT ![id[1]].detached = TRUE]

AcceptQueue(C, id) == {c \in Children(C, id) : C[c].state = "est"}

-----------------------------------------------------------------------------
(* Waiters (posix_socket.c).                                                  *)

Waiting(n, t, s) == n.T[t].wait /\ n.T[t].sock = s
Holders(n, s) == {t \in Tasks : s \in n.H[t] \/ Waiting(n, t, s)}

\* object_release of the last reference runs socket_destroy.
released(n, s, windowClosed) ==
    IF Holders(n, s) # {} THEN n
    ELSE [n EXCEPT !.C = tcp_detach(n.C, n.S[s].id, windowClosed), !.S[s] = FreeSock]

\* finish_wait: the record is cleared and the task runs.  The reference the
\* record held is not the last one, the task's descriptor has another.
finish_wait(n, t) ==
    [n EXCEPT !.T[t] = IF @.pc = "asleep" THEN NoCall
                       ELSE [@ EXCEPT !.state = "run", !.wait = FALSE]]

Hangup(x) == x.eof \/ x.state \in {"close_wait", "last_ack", "closed", "time_wait"}

\* socket_stream_accept and the new descriptor.  With no socket free the
\* connection is closed again; with no descriptor free the new socket is released.
accept(n, t, s) ==
    LET c == CHOOSE x \in AcceptQueue(n.C, n.S[s].id) :
                    \A y \in AcceptQueue(n.C, n.S[s].id) : x <= y
        free == {x \in Socks : ~n.S[x].active}
        m == [n EXCEPT !.C[c].accepted = TRUE, !.C[c].parent = NoId]
    IN  IF free = {} THEN [m EXCEPT !.C = tcp_close(m.C, id_for(m.C, c))]
        ELSE IF "install" \in n.fails
             THEN [m EXCEPT !.C = tcp_detach(m.C, id_for(m.C, c), FALSE)]
        ELSE LET f == CHOOSE x \in free : \A y \in free : x <= y
             IN  [m EXCEPT !.S[f] = [FreeSock EXCEPT !.active = TRUE, !.id = id_for(m.C, c)],
                           !.H[t] = @ \cup {f}]

\* tcp_queue_send takes the data; the flush that follows may fail to transmit.
Takes(x) == x.sendq = 0 /\ x.state \in {"est", "close_wait"}
Fails(n, x) == "transmit" \in n.fails /\ x.flight = 0

\* Would complete_wait answer now?  A send whose flush fails counts as refused.
Answers(n, kind, s) ==
    IF kind = "recvfrom" THEN n.S[s].queued > 0
    ELSE LET id == n.S[s].id
         IN  \/ ~by_id(n.C, id)
             \/ LET x == n.C[id[1]]
                IN  CASE kind = "connect" -> x.state = "est" \/ x.error \/ Hangup(x)
                      [] kind = "accept" -> x.state # "listen" \/ AcceptQueue(n.C, id) # {}
                      [] kind = "recv" -> x.error \/ x.data > 0 \/ Hangup(x)
                      [] kind = "send" -> \/ Takes(x) /\ ~Fails(n, x)
                                          \/ x.error \/ Hangup(x)

\* What the attempt does to the connection: an error is taken, data is received,
\* data is queued and sent, a connection is accepted.  The data of a send whose
\* flush fails stays queued, in flight, under a caller that goes on waiting and
\* will send it once more.
Done(n, t, kind, s) ==
    IF kind = "recvfrom" THEN [n EXCEPT !.S[s].queued = IF @ = 0 THEN 0 ELSE @ - 1]
    ELSE LET id == n.S[s].id
             c == id[1]
         IN  IF ~by_id(n.C, id) THEN n
             ELSE IF kind = "send" /\ Takes(n.C[c])
                  THEN [n EXCEPT !.C[c] = flush([@ EXCEPT !.sendq = 1])]
             ELSE IF kind = "accept"
                  THEN IF AcceptQueue(n.C, id) # {} THEN accept(n, t, s) ELSE n
             ELSE IF n.C[c].error THEN [n EXCEPT !.C[c].error = FALSE]
             ELSE IF kind = "recv" /\ n.C[c].data > 0 THEN [n EXCEPT !.C[c].data = 0]
             ELSE n

complete_wait(n, t) ==
    LET m == Done(n, t, n.T[t].kind, n.T[t].sock)
    IN  IF Answers(n, n.T[t].kind, n.T[t].sock) THEN finish_wait(m, t) ELSE m

\* posix_socket_wake_index, for one parked task or several of the socket.
WaitersOf(n, s) == {t \in Tasks : n.T[t].state = "blocked" /\ Waiting(n, t, s)}

RECURSIVE wake(_, _)
wake(n, W) ==
    IF W = {} THEN n
    ELSE LET t == CHOOSE x \in W : TRUE
         IN  wake(complete_wait(n, t), W \ {t})

\* A notification nobody was parked for is kept on the socket.
RECURSIVE notify(_, _)
notify(n, S) ==
    IF S = {} THEN n
    ELSE LET s == CHOOSE x \in S : TRUE
             W == WaitersOf(n, s)
         IN  notify(IF W = {} THEN [n EXCEPT !.S[s].notify = TRUE] ELSE wake(n, W), S \ {s})

\* The sockets on the connection, and the listener a child still belongs to.
socket_tcp_notify(n, id) ==
    IF id = NoId THEN n
    ELSE LET parent == IF by_id(n.C, id) THEN n.C[id[1]].parent ELSE NoId
         IN  notify(n, {s \in Socks : /\ n.S[s].active /\ ~n.S[s].dgram
                                      /\ \/ n.S[s].id = id
                                         \/ n.S[s].listening /\ n.S[s].id = parent})

-----------------------------------------------------------------------------
(* Network events.  Each handles one segment or timer of connection c, then   *)
(* notifies, then flushes.                                                    *)

Event(c, x, f) ==
    LET id == id_for(conns, c)
        n == socket_tcp_notify([Trying(f) EXCEPT !.C[c] = x], id)
    IN  Become(IF by_id(n.C, id) THEN [n EXCEPT !.C[c] = flush(@)] ELSE n)

Over(c, C) == Become(socket_tcp_notify([Now EXCEPT !.C = C], id_for(conns, c)))

Syn(l) ==
    /\ up /\ conns[l].active /\ conns[l].state = "listen" /\ Free(conns) # {}
    /\ LET id == id_for(conns, l)
       IN  /\ Cardinality({c \in Conns : conns[c].active /\ conns[c].parent = id}) < Backlog
           /\ conns' = allocate(conns, [FreeConn EXCEPT !.state = "syn_rcvd", !.parent = id])
    /\ UNCHANGED <<socks, held, task, up>>

Established(c, f) ==
    /\ up /\ conns[c].active /\ conns[c].state \in {"syn_rcvd", "syn_sent"}
    /\ Event(c, [conns[c] EXCEPT !.state = "est"], f)

Data(c) ==
    /\ up /\ conns[c].active /\ conns[c].state \in {"est", "fin_wait"} /\ conns[c].data < DataMax
    /\ ~conns[c].eof
    /\ Event(c, [conns[c] EXCEPT !.data = @ + 1], {})

Acked(c, f) ==
    /\ up /\ conns[c].active /\ conns[c].flight = 1
    /\ Event(c, [conns[c] EXCEPT !.flight = 0], f)

PeerFin(c) ==
    /\ up /\ conns[c].active /\ conns[c].state \in {"est", "fin_wait"} /\ ~conns[c].eof
    /\ Event(c, [conns[c] EXCEPT !.eof = TRUE,
                                 !.state = IF @ = "est" THEN "close_wait" ELSE "time_wait"], {})

\* A reset, or the last retransmission timing out.  A connection that has no
\* socket any more is freed; another one stays, for its socket to take the error.
Broken(c) ==
    /\ up /\ conns[c].active /\ conns[c].state \notin {"listen", "closed", "time_wait"}
    /\ Over(c, IF conns[c].detached THEN freed(conns, c)
               ELSE [conns EXCEPT ![c] = [@ EXCEPT !.state = "closed", !.error = TRUE,
                                                   !.eof = TRUE, !.sendq = 0, !.flight = 0]])

\* Our FIN is acknowledged after theirs, or TIME_WAIT ends: the connection is
\* freed even when a socket has its identifier.
Finished(c) ==
    /\ up /\ conns[c].active /\ conns[c].state \in {"last_ack", "time_wait"}
    /\ Over(c, freed(conns, c))

\* The interface goes away under its connections (-ENODEV to all of them).
socket_tcp_abort_context ==
    /\ up
    /\ up' = FALSE
    /\ LET aborted == [c \in Conns |-> IF conns[c].active
                         THEN [conns[c] EXCEPT !.state = "closed", !.error = TRUE, !.eof = TRUE,
                                               !.flight = 0]
                         ELSE conns[c]]
           n == notify([Now EXCEPT !.C = aborted],
                       {s \in Socks : socks[s].active /\ socks[s].id # NoId})
       IN  conns' = n.C /\ socks' = n.S /\ held' = n.H /\ task' = n.T

\* A datagram reaches its binding: waiters are tried, nothing is kept.
socket_udp_notify(s) ==
    /\ up /\ socks[s].active /\ socks[s].dgram /\ socks[s].queued < DataMax
    /\ LET n == [Now EXCEPT !.S[s].queued = @ + 1]
       IN  Become(wake(n, WaitersOf(n, s)))

-----------------------------------------------------------------------------
(* Calls.                                                                     *)

Asleep(t) == task[t].pc = "asleep" /\ task[t].state = "blocked"
Idle(t) == task[t].pc = "user" /\ task[t].state = "run"
FreeSocks == {s \in Socks : ~socks[s].active}

posix_socket_socket(t, dgram) ==
    /\ Idle(t) /\ FreeSocks # {}
    /\ LET s == CHOOSE x \in FreeSocks : \A y \in FreeSocks : x <= y
       IN  /\ socks' = [socks EXCEPT ![s] = [FreeSock EXCEPT !.active = TRUE, !.dgram = dgram]]
           /\ held' = [held EXCEPT ![t] = @ \cup {s}]
    /\ UNCHANGED <<conns, task, up>>

Unbound(t, s) == up /\ Idle(t) /\ s \in held[t] /\ ~socks[s].dgram /\ socks[s].id = NoId

posix_socket_listen(t, s) ==
    /\ Unbound(t, s) /\ Free(conns) # {}
    /\ ~\E c \in Conns : conns[c].active /\ conns[c].state = "listen"    \* one port
    /\ LET C == allocate(conns, [FreeConn EXCEPT !.state = "listen"])
           c == CHOOSE x \in Conns : C[x].active /\ ~conns[x].active
       IN  /\ conns' = C
           /\ socks' = [socks EXCEPT ![s].id = id_for(C, c), ![s].listening = TRUE]
    /\ UNCHANGED <<held, task, up>>

\* A connection whose SYN cannot be transmitted is freed again (EHOSTUNREACH).
posix_socket_connect(t, s, f) ==
    /\ Unbound(t, s) /\ Free(conns) # {}
    /\ LET C == allocate(conns, [FreeConn EXCEPT !.state = "syn_sent"])
           c == CHOOSE x \in Conns : C[x].active /\ ~conns[x].active
       IN  IF "transmit" \in f THEN conns' = freed(C, c) /\ UNCHANGED <<socks, task>>
           ELSE /\ conns' = C
                /\ socks' = [socks EXCEPT ![s].id = id_for(C, c)]
                /\ task' = [task EXCEPT ![t].pc = "read", ![t].kind = "connect", ![t].sock = s]
    /\ UNCHANGED <<held, up>>

\* accept, recv, send and recvfrom begin on a socket of the right kind.
Begin(t, s, kind) ==
    /\ Idle(t) /\ s \in held[t]
    /\ CASE kind = "recvfrom" -> socks[s].dgram
         [] kind = "accept"   -> socks[s].listening
         [] OTHER             -> ~socks[s].dgram /\ socks[s].id # NoId /\ ~socks[s].listening
    /\ task' = [task EXCEPT ![t].pc = "read", ![t].kind = kind, ![t].sock = s]
    /\ UNCHANGED <<conns, socks, held, up>>

\* The first look: answer at once or go on to the park.
ReadReadiness(t, f) ==
    /\ task[t].pc = "read"
    /\ LET n == Trying(f)
           m == Done(n, t, task[t].kind, task[t].sock)
       IN  IF Answers(n, task[t].kind, task[t].sock) THEN Become([m EXCEPT !.T[t] = NoCall])
           ELSE Become([m EXCEPT !.T[t].pc = "park"])

\* socket_park: the record and the state, then the notification kept meanwhile.
socket_park(t) ==
    /\ task[t].pc = "park"
    /\ task' = [task EXCEPT ![t].pc = "parked", ![t].state = "blocked", ![t].wait = TRUE]
    /\ UNCHANGED <<conns, socks, held, up>>

\* A wait that is left open: the task sleeps, or is refused (EDEADLK) when
\* nothing else can run.
Sleeps(n, t) ==
    \/ Become([n EXCEPT !.T[t] = IF @.state = "blocked" THEN [@ EXCEPT !.pc = "asleep"]
                                                        ELSE NoCall])
    \/ Become([n EXCEPT !.T[t] = NoCall])

\* A kept notification is spent on one attempt, which first reads the readiness.
take_notify(t) ==
    /\ task[t].pc = "parked"
    /\ LET s == task[t].sock
           n == [Now EXCEPT !.S[s].notify = FALSE]
       IN  IF socks[s].notify /\ task[t].wait /\ Answers(n, task[t].kind, s)
           THEN Become([n EXCEPT !.T[t].pc = "complete"])
           ELSE Sleeps(n, t)

\* The rest of the attempt, in later sections of net_lock: it acts on what it
\* finds, and finishes whatever the readiness has become.  Only a send looks
\* again, and a refused one leaves the wait open.
complete(t, f) ==
    /\ task[t].pc = "complete"
    /\ LET n == Trying(f)
           m == Done(n, t, task[t].kind, task[t].sock)
       IN  IF task[t].kind = "send" /\ ~Answers(n, "send", task[t].sock) THEN Sleeps(m, t)
           ELSE Become([m EXCEPT !.T[t] = NoCall])

posix_socket_signal(t) ==
    /\ Asleep(t)
    /\ task' = [task EXCEPT ![t] = NoCall]
    /\ UNCHANGED <<conns, socks, held, up>>

\* SIGKILL: the descriptors are closed, the record of the wait stays behind.
RECURSIVE releasedAll(_, _)
releasedAll(n, S) ==
    IF S = {} THEN n
    ELSE LET s == CHOOSE x \in S : TRUE IN releasedAll(released(n, s, FALSE), S \ {s})

terminate(t) ==
    /\ Asleep(t)
    /\ Become(releasedAll([Now EXCEPT !.H[t] = {}, !.T[t].state = "dead"], held[t]))

posix_socket_shutdown(t, s) ==
    /\ Idle(t) /\ s \in held[t] /\ by_id(conns, socks[s].id)
    /\ LET c == socks[s].id[1]
       IN  /\ conns[c].state \in {"est", "close_wait"}
           /\ conns' = [conns EXCEPT ![c].state = IF @ = "est" THEN "fin_wait" ELSE "last_ack"]
    /\ socks' = [socks EXCEPT ![s].shut = TRUE]
    /\ UNCHANGED <<held, task, up>>

close(t, s) ==
    /\ Idle(t) /\ s \in held[t]
    /\ \E windowClosed \in BOOLEAN :
         Become(released([Now EXCEPT !.H[t] = @ \ {s}], s, windowClosed))

\* fork: the other task holds the same sockets.
share(t, u) ==
    /\ Idle(t) /\ Idle(u) /\ held[u] = {} /\ held[t] # {}
    /\ held' = [held EXCEPT ![u] = held[t]]
    /\ UNCHANGED <<conns, socks, task, up>>

-----------------------------------------------------------------------------

\* While the interface is there every connection has somebody who will see it
\* end: the socket that holds its identifier, the listener it waits under, or
\* nobody because it was detached and frees itself.  An identifier leads a socket
\* to its own connection or nowhere: never to a detached one, one in an accept
\* queue, or another socket's, whatever has become of the slot since; and it
\* leads nowhere only after the socket's own shutdown.
ConnectionHasOwner ==
    /\ up => \A c \in Conns : conns[c].active =>
         \/ conns[c].detached
         \/ \E s \in Socks : socks[s].active /\ socks[s].id = id_for(conns, c)
         \/ \E l \in Conns : conns[l].active /\ conns[c].parent = id_for(conns, l)
    /\ \A s \in Socks : socks[s].active /\ socks[s].id # NoId =>
         /\ \A r \in Socks : r # s /\ socks[r].active => socks[r].id # socks[s].id
         /\ IF by_id(conns, socks[s].id)
            THEN LET x == conns[socks[s].id[1]]
                 IN  /\ ~x.detached /\ x.parent = NoId
                     /\ x.state = "listen" => socks[s].listening
            ELSE socks[s].shut

InFlight(t) == LET id == socks[task[t].sock].id
               IN  task[t].kind = "send" /\ by_id(conns, id) /\ conns[id[1]].flight = 1

\* A task asleep in a call on a stream socket cannot be answered now: what it
\* waits for has not happened, or (a sender whose room was made by the flush
\* after the notification) an acknowledgement is still to come that notifies
\* again.  It holds while tasks do not share a socket: a notification that finds
\* one task waiting is not kept for another.
StreamSleepsForCause ==
    \A t \in Tasks :
      Asleep(t) /\ task[t].kind # "recvfrom"
        => ~Answers(Now, task[t].kind, task[t].sock) \/ InFlight(t)
=============================================================================
