------------------------------ MODULE MCStack ------------------------------
(***************************************************************************)
(* The byte streams of the kernel for TLC, from a packet buffer to a       *)
(* descriptor: the scopes of MCPosix, and of TCP (Tcp), a network          *)
(* interface (Packets) and the virtual card (Vnic), which take turns with  *)
(* the variables x1 .. x9.  Connections start established, but in the      *)
(* scope handshake.                                                        *)
(*   handshake  the three-way handshake, closes and aborts during it       *)
(*   order      data on a lossy path that keeps the order                  *)
(*   disorder   data on a lossy path that reorders                         *)
(*   copies     data on a path that reorders and duplicates                *)
(*   closing    the client writes a byte, both ends close in any order     *)
(*   both       both ends write a byte and shut down                       *)
(*   eager      timers fire while the segments they guard are in flight    *)
(*   pages      page loans and page grants                                 *)
(*   shrink     a path MTU black hole                                      *)
(*   scarce     transmissions fail and the deadline heap fills up          *)
(*   arp        one next hop that answers, asks or keeps silent            *)
(*   hops       two next hops, a cache of one entry, a ring of one         *)
(*   mailbox    a driver on another processor                              *)
(*   card       the virtual card                                           *)
(* But in eager and shrink, a timer outlasts the segments in flight.  Only *)
(* the client writes, but in both.                                         *)
(***************************************************************************)
EXTENDS MCPosix, Sequences

VARIABLES x1, x2, x3, x4, x5, x6, x7, x8, x9

T == INSTANCE Tcp WITH
       Modulus <- 16, Iss <- [client |-> 13, server |-> 5], Mss <- 2, SmallMss <- 1,
       SendMax <- 3, ReceiveMax <- 2, RetransmissionMax <- 2, OutOfOrderMax <- 2,
       LoanMax <- 2, RetryMax <- 1, NetMax <- 2,
       conn <- x1, net <- x2

\* One next hop; two; and none asked, with a driver here and elsewhere.
A == INSTANCE Packets WITH
       BufferCount <- 2, GenerationTop <- 2, RingCapacity <- 2, Hops <- {1}, CacheSize <- 1,
       PendingMax <- 2, PendingLife <- 2, CacheTtl <- 2, RequestInterval <- 1, RxTick <- 2,
       ReplyWindow <- 2, ReplyMax <- 1, MaxNow <- 2, MaxFrames <- 0, Elsewhere <- {FALSE},
       net <- x1, now <- x2, box <- x3, carry <- x4, driver <- x5, got <- x6, routes <- x7,
       gen <- x8, gone <- x9
W == INSTANCE Packets WITH
       BufferCount <- 3, GenerationTop <- 1, RingCapacity <- 1, Hops <- {1, 2}, CacheSize <- 1,
       PendingMax <- 2, PendingLife <- 2, CacheTtl <- 2, RequestInterval <- 1, RxTick <- 2,
       ReplyWindow <- 2, ReplyMax <- 1, MaxNow <- 1, MaxFrames <- 0, Elsewhere <- {FALSE},
       net <- x1, now <- x2, box <- x3, carry <- x4, driver <- x5, got <- x6, routes <- x7,
       gen <- x8, gone <- x9
B == INSTANCE Packets WITH
       BufferCount <- 3, GenerationTop <- 2, RingCapacity <- 2, Hops <- {1}, CacheSize <- 1,
       PendingMax <- 1, PendingLife <- 2, CacheTtl <- 2, RequestInterval <- 1, RxTick <- 2,
       ReplyWindow <- 2, ReplyMax <- 1, MaxNow <- 0, MaxFrames <- 2, Elsewhere <- BOOLEAN,
       net <- x1, now <- x2, box <- x3, carry <- x4, driver <- x5, got <- x6, routes <- x7,
       gen <- x8, gone <- x9
V == INSTANCE Vnic WITH
       BufferCount <- 3, GenerationTop <- 2, RingCapacity <- 2,
       pool <- x1, rx <- x2, tx <- x3, stack <- x4, filling <- x5

OfTcp == {"handshake", "order", "disorder", "copies", "closing", "pages", "shrink", "scarce", "both", "eager"}
OfPosix == OfPipes \cup OfTty \cup OfSockets

xvars == <<x1, x2, x3, x4, x5, x6, x7, x8, x9>>
allvars == <<pvars, yvars, svars, xvars, scope>>

Established(e) ==
    [T!Fresh(e) EXCEPT !.active = TRUE, !.state = "ESTABLISHED", !.accepted = TRUE,
        !.una = IF e = "client" THEN 14 ELSE 6, !.rcv = IF e = "client" THEN 6 ELSE 14]

Init ==
    /\ scope \in Scopes
    /\ PosixInit
    /\ CASE scope \in OfTcp ->
              /\ x1 = [e \in T!Ends |-> IF scope = "handshake" THEN T!Fresh(e) ELSE Established(e)]
              /\ x2 = [e \in T!Ends |-> <<>>]
              /\ x3 = 0 /\ x4 = 0 /\ x5 = 0 /\ x6 = 0 /\ x7 = 0 /\ x8 = 0 /\ x9 = 0
         [] scope = "arp" -> A!Init
         [] scope = "hops" -> W!Init
         [] scope = "mailbox" -> B!Init
         [] scope = "card" -> V!vnic_create /\ x6 = 0 /\ x7 = 0 /\ x8 = 0 /\ x9 = 0
         [] scope \in OfPosix ->
              x1 = 0 /\ x2 = 0 /\ x3 = 0 /\ x4 = 0 /\ x5 = 0 /\ x6 = 0 /\ x7 = 0 /\ x8 = 0 /\ x9 = 0

-----------------------------------------------------------------------------
(* A connection: its two ends and the path between them.                      *)

Writes(e) == CASE e = "server" -> IF scope = "both" THEN 1 ELSE 0
               [] scope = "order" -> 5
               [] scope \in {"disorder", "pages", "shrink", "scarce"} -> 3
               [] scope = "copies" -> 2
               [] OTHER -> 1

\* What a step finds below it: enough of everything, but in scarce.  Two bytes
\* fit into the smaller congestion window, so only longer streams tell it apart.
Below == CASE scope = "scarce" ->
                [cwnd : {4}, sends : {0, 1, 4}, timers : {0, 1, 4}, fast : 0..2]
           [] OTHER -> [cwnd : IF Writes("client") > 2 THEN {2, 4} ELSE {4},
                        sends : {4}, timers : {4}, fast : {0}]

Quiet == \A e \in T!Ends : x2[e] = <<>>
Late == scope \in {"shrink", "eager"} \/ Quiet

Path(e, i) ==
    /\ scope \in {"order", "both", "eager", "pages", "shrink", "scarce"} => i = 1
    /\ \/ T!Lose(e, i)
       \/ \E v \in Below : T!Receive(e, i, FALSE, v)
       \/ scope = "copies" /\ \E v \in Below : T!Receive(e, i, TRUE, v)

Application(e) ==
    \/ scope = "handshake" /\ (T!Accept(e) \/ T!Abort(e) \/ \E v \in Below, n \in {0, 4} :
                               T!Connect(e, [v EXCEPT !.sends = n]))
    \/ scope \in {"handshake", "closing"} /\ \E v \in Below : T!Close(e, v)
    \/ scope = "scarce" /\ T!TakeError(e)
    \/ scope # "shrink" /\ (scope \in {"handshake", "order", "pages"} => e = "client")
         /\ (scope = "scarce" => e = "server") /\ \E v \in Below : T!Shutdown(e, v)
    \/ \E n \in 1 .. (Writes(e) - x1[e].written), v \in Below :
         \/ scope # "pages" /\ (scope \in {"copies", "disorder", "scarce"} => n = Writes(e)) /\ T!Send(e, n, v)
         \/ scope = "pages" /\ T!SendPages(e, n, v)
    \/ \E n \in 1 .. Len(x1[e].rbuf) : (scope # "order" => n = Len(x1[e].rbuf)) /\ T!Read(e, n)
    \/ scope = "pages" /\ x1[e].grant = 0 /\ T!GrantPages(e, 2)

Timer(e) ==
    \/ \E x \in x1[e].rtx, blackhole \in BOOLEAN, v \in Below :
         Late /\ (blackhole => scope = "shrink") /\ T!Retransmit(e, x, blackhole, v)
    \/ Late /\ \E v \in Below : T!Persist(e, v) \/ T!PendingSend(e, v)
    \/ T!TimeWait(e)

TcpNext ==
    /\ scope \in OfTcp
    /\ \E e \in T!Ends : (\E i \in DOMAIN x2[e] : Path(e, i)) \/ Application(e) \/ Timer(e)
    /\ UNCHANGED <<x3, x4, x5, x6, x7, x8, x9>>

-----------------------------------------------------------------------------
(* An interface: the stack above it, its driver, the clock, and its owner.    *)

Arp ==
    /\ scope = "arp"
    /\ \/ A!ipv4_tx(1) \/ A!net_interface_tick \/ A!Clock
       \/ A!net_interface_driver_acquire_rx
       \/ \E id \in x5.filled :
            \/ \E k \in {"reply", "request"} : A!net_interface_driver_receive(id, k, 1, FALSE)
            \/ A!net_interface_driver_release_rx(id)
       \/ A!net_interface_driver_dequeue_tx \/ A!net_interface_driver_dequeue_none
       \/ A!event_wait \/ A!OtherWake
       \/ \E id \in x5.sending : A!net_interface_driver_complete_tx(id)
       \/ \E link \in BOOLEAN : A!net_interface_set_link(link)
       \/ (\E fits \in BOOLEAN : A!net_interface_configure_ipv4(fits)) \/ A!revoke_interface \/ A!net_interface_remove

Resolving ==
    /\ scope = "hops"
    /\ \/ W!net_interface_tick \/ W!Clock \/ W!net_interface_driver_acquire_rx
       \/ \E h \in {1, 2} : W!ipv4_tx(h)
       \/ \E id \in x5.filled, h \in {1, 2} : W!net_interface_driver_receive(id, "reply", h, FALSE)
       \/ W!net_interface_driver_dequeue_tx \/ W!net_interface_driver_dequeue_none
       \/ W!event_wait
       \/ \E id \in x5.sending : W!net_interface_driver_complete_tx(id)
       \/ W!net_interface_set_link(TRUE) \/ W!net_interface_configure_ipv4(TRUE)

\* The link stays up here: a mailbox that is drained when it is down keeps its
\* buffer.
Mailbox ==
    /\ scope = "mailbox"
    /\ \/ B!ipv4_tx(1) \/ B!net_interface_driver_acquire_rx
       \/ B!net_rx_drain \/ B!net_interface_receive_buffer
       \/ \E id \in x5.filled : \/ B!net_interface_driver_release_rx(id)
                                \/ B!net_interface_driver_receive_batch(id, "data", 1)
                                \/ (\E e \in BOOLEAN : B!net_interface_driver_receive(id, "data", 1, e))
       \/ B!net_interface_driver_dequeue_tx \/ B!net_interface_driver_dequeue_none \/ B!event_wait
       \/ \E id \in x5.sending : B!net_interface_driver_complete_tx(id)
       \/ B!net_interface_set_link(TRUE) \/ B!net_interface_configure_ipv4(TRUE)
       \/ B!revoke_interface \/ B!net_interface_remove

Card == scope = "card" /\ V!Next /\ UNCHANGED <<x6, x7, x8, x9>>

Next ==
    /\ UNCHANGED scope
    /\ \/ PosixNext /\ UNCHANGED xvars
       \/ (TcpNext \/ Arp \/ Resolving \/ Mailbox \/ Card) /\ UNCHANGED <<pvars, yvars, svars>>

Spec == Init /\ [][Next]_allvars

-----------------------------------------------------------------------------

\* Bytes come out in the order and with the values they went in: from the send
\* queue of a connection whose path loses, reorders and repeats segments and
\* whose transmissions fail, through the ring of a pipe shared by several tasks,
\* and through the line discipline.
BytesInOrder ==
    /\ scope \in OfTcp => T!StreamPrefix
    /\ scope \in OfPipes => P!RingIsStream
    /\ scope \in OfTty => Y!InputInOrder

\* An end of a connection keeps every byte its peer has not taken, and on a
\* path that keeps the order there is a timer behind it, or work for the next
\* tick; but for a timer that the full deadline heap refused, and a flush over a
\* closed window skipped after a response that could not be transmitted.
NoByteLost ==
    /\ scope \in OfTcp => T!NoByteLost
    /\ scope \in OfTcp \ {"disorder", "copies"} => T!NoStall

\* End of file means all of the stream: a reader told so without an error has
\* every byte the peer wrote, and an acknowledged FIN covers every byte before it.
OrderlyEnd == scope \in OfTcp => T!OrderlyEnd

\* Nobody sleeps on what is there: a task parked on a pipe, the terminal or a
\* stream socket of its own, in poll (on one processor), and a driver waiting
\* for frames to send, would find nothing if it looked again.  Two sleep longer:
\* a pipe writer behind one that does not fit, or that was behind one that has
\* left, and a sender whose data in flight will be acknowledged.
SleepsForCause ==
    /\ scope \in OfPipes => P!ParkedOnPipeForCause
    /\ scope = "alone" => P!PollSleepsForCause
    /\ scope \in OfTty => Y!TtySleepsForCause
    /\ scope \in OfSockets \ {"shared"} => S!StreamSleepsForCause
    /\ scope = "arp" => A!DriverSleepsForCause
    /\ scope = "hops" => W!DriverSleepsForCause
    /\ scope = "mailbox" => B!DriverSleepsForCause

\* Ends are counted exactly: the readers, writers and references of pipes and
\* open files through fork, dup, close on exec and death; and a connection in
\* use has one socket, waits in one accept queue or is detached, and a socket's
\* identifier leads to its own connection or, once it was shut down, nowhere.
EndsCounted ==
    /\ scope \in OfPipes => P!EndCountsExact
    /\ scope \in OfSockets => S!ConnectionHasOwner

\* Every packet buffer is in exactly one place, the one its state names: the
\* queue of an unresolved hop, a ring, the driver, the mailbox, or the pool;
\* and the stack gets no frame twice.
BuffersExact ==
    /\ scope = "arp" => A!BuffersExact
    /\ scope = "hops" => W!BuffersExact
    /\ scope = "mailbox" => B!BuffersExact /\ B!FramesOnce
    /\ scope = "card" => V!VnicBuffersExact

\* No active route names a generation of the interface that was revoked.
RoutesFollowRevoke ==
    /\ scope = "arp" => A!RoutesFollowRevoke
    /\ scope = "mailbox" => B!RoutesFollowRevoke
=============================================================================
