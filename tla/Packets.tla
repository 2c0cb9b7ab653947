------------------------------ MODULE Packets -------------------------------
(***************************************************************************)
(* A network interface (net/net_interface.c): packets on their way to the  *)
(* driver through the neighbour cache (net/arp.c), the packets that wait   *)
(* for an answer from it, and the transmit ring; frames on their way from  *)
(* the driver to the stack, directly or, when the driver runs on another   *)
(* processor, through the one-place mailbox of net/net_rx.c; link changes, *)
(* revoke, removal and the routes that name the interface.                 *)
(*                                                                         *)
(* A call under the net lock is one step.  The driver's calls that do not  *)
(* take it (acquire, release, dequeue, complete) are steps of their own;   *)
(* so are the two halves of net_rx_drain.                                  *)
(***************************************************************************)
EXTENDS PacketPool, SequencesExt

CONSTANTS Hops,          \* next hops
          CacheSize,     \* ARP_CACHE_MAX
          PendingMax,    \* NET_INTERFACE_PENDING_MAX
          PendingLife,   \* 300 ticks
          CacheTtl, RequestInterval, RxTick,
          ReplyWindow, ReplyMax,
          MaxNow,        \* bound: ticks
          MaxFrames,     \* bound: frames with data from the wire
          Elsewhere      \* BOOLEAN subset: the driver may run on another processor

VARIABLES net,      \* struct net_interface: pool, ring, bell (the event is
                    \* signalled), cache, window, replies, swept, pending,
                    \* link, ready (ARP and IPv4 are set up), address (it is configured)
          now,      \* timer_ticks
          box,      \* the receive mailbox of the interface's processor
          carry,    \* what a drain has taken and not yet delivered
          driver,   \* filled: buffers to receive into; sending: dequeued ones;
                    \* pc: run, found nothing to send, asleep; seen: frames with data;
                    \* batch: in a batch the mailbox refused
          got,      \* frames with data given to the stack, in order
          routes,   \* generations of the interface named by active routes
          gen,      \* generation of the interface
          gone      \* generations revoked

vars == <<net, now, box, carry, driver, got, routes, gen, gone>>

Entry(hop, state, updated, expires, last) ==
    [hop |-> hop, state |-> state, updated |-> updated, expires |-> expires, last |-> last]
Empty == Entry(0, "EMPTY", 0, 0, 0)

arp_init == [k \in 1 .. CacheSize |-> Empty]

\* net_interface_create and net_interface_register have run.
Init ==
    /\ net = [pool |-> packet_pool_create, ring |-> ring_resource_create, bell |-> TRUE,
              cache |-> arp_init, window |-> 0, replies |-> 0, swept |-> 0, ready |-> FALSE,
              address |-> FALSE,
              pending |-> [i \in 1 .. PendingMax |-> None], link |-> "DOWN"]
    /\ now = 0 /\ box = None /\ carry = None
    /\ driver = [filled |-> {}, sending |-> {}, pc |-> "run", seen |-> 0,
                 batch |-> FALSE]
    /\ got = <<>> /\ routes = {} /\ gen = 1 /\ gone = {}

-----------------------------------------------------------------------------
(* Transmission.                                                           *)

publish_frame(n, id) ==
    IF ring_room(n.ring) /\ packet_pool_data(n.pool, id, "TX")
    THEN [n EXCEPT !.pool = packet_pool_transition(@, id, "TX", "TX_QUEUED"),
                   !.ring = ring_resource_submit(@, id), !.bell = TRUE]
    ELSE n

Published(n, m) == Len(m.ring.queue) > Len(n.ring.queue)

transmit_arp_keeps(n) ==
    IF n.link # "UP" THEN n
    ELSE Given(packet_pool_acquire(n.pool, "TX"), LAMBDA a : publish_frame([n EXCEPT !.pool = a.pool], a.id))

transmit_arp(n) ==
    IF n.link # "UP" THEN n
    ELSE Given(packet_pool_acquire(n.pool, "TX"), LAMBDA a :
           Given(publish_frame([n EXCEPT !.pool = a.pool], a.id), LAMBDA m :
             [m EXCEPT !.pool = packet_pool_release(@, a.id, "TX")]))

\* Every packet that waits for hop goes to the ring while the ring has room.
flush_pending(n, hop) ==
    LET Flush(m, i) ==
          IF m.pending[i] = None \/ m.pending[i].hop # hop THEN m
          ELSE Given(publish_frame(m, m.pending[i].id), LAMBDA p :
                 IF Published(m, p) \/ ~packet_pool_data(m.pool, m.pending[i].id, "TX")
                 THEN [p EXCEPT !.pending[i] = None] ELSE p)
    IN  FoldLeft(Flush, n, [i \in 1 .. PendingMax |-> i])

neighbor_updated(n, hop) == IF n.link = "UP" THEN flush_pending(n, hop) ELSE n

-----------------------------------------------------------------------------
(* The neighbour cache.                                                    *)

arp_tick(n) ==
    [n EXCEPT !.cache = [k \in 1 .. CacheSize |->
        IF @[k].state # "EMPTY" /\ now >= @[k].expires THEN Empty ELSE @[k]]]

find_entry(n, hop) == {k \in 1 .. CacheSize : n.cache[k].state # "EMPTY" /\ n.cache[k].hop = hop}

\* The place of hop, else an empty one, else the one longest without an update.
allocate_entry(n, hop) ==
    LET empty == {k \in 1 .. CacheSize : n.cache[k].state = "EMPTY"}
        oldest == {k \in 1 .. CacheSize : \A j \in 1 .. CacheSize : n.cache[k].updated <= n.cache[j].updated}
        pick == IF find_entry(n, hop) # {} THEN find_entry(n, hop) ELSE IF empty # {} THEN empty ELSE oldest
    IN  CHOOSE k \in pick : \A j \in pick : k <= j

learn(n, hop) ==
    Given(allocate_entry(n, hop), LAMBDA k :
      neighbor_updated(
        [n EXCEPT !.cache[k] = Entry(hop, "REACHABLE", now, now + CacheTtl,
            IF find_entry(n, hop) = {} THEN now - RequestInterval ELSE @.last)], hop))

\* The entry of hop expires as a side effect of the look.
arp_lookup(n, hop) == \E k \in find_entry(n, hop) : n.cache[k].state = "REACHABLE" /\ now < n.cache[k].expires

\* Ask for hop unless it was asked for a moment ago; ok is FALSE when the
\* request could not be sent.
arp_resolve(n, hop) ==
    Given(allocate_entry(n, hop), LAMBDA k :
      Given(IF find_entry(n, hop) # {} THEN n
            ELSE [n EXCEPT !.cache[k] = Entry(hop, "PENDING", now, now + CacheTtl, now - RequestInterval)],
            LAMBDA m :
        IF now - m.cache[k].last < RequestInterval THEN [net |-> m, ok |-> TRUE]
        ELSE Given(transmit_arp(m), LAMBDA p :
               IF Published(m, p)
               THEN [net |-> [p EXCEPT !.cache[k] = Entry(hop, "PENDING", now, now + CacheTtl, now)],
                     ok |-> TRUE]
               ELSE [net |-> p, ok |-> FALSE])))

\* A request for this address teaches its sender and is answered, a bounded
\* number of times a window; a reply teaches its sender.
arp_ethernet_handler(n, frame) ==
    CASE frame.kind = "data" \/ ~n.ready -> n
      [] frame.kind = "reply" /\ n.ready -> learn(n, frame.hop)
      [] frame.kind = "request" /\ n.ready ->
           Given(learn(n, frame.hop), LAMBDA m :
             Given(IF now - m.window >= ReplyWindow THEN [m EXCEPT !.window = now, !.replies = 0] ELSE m,
                   LAMBDA p :
               IF p.replies >= ReplyMax THEN p ELSE transmit_arp([p EXCEPT !.replies = @ + 1])))

-----------------------------------------------------------------------------
(* Sending.                                                                *)

\* The packet in buffer id, for hop: to the ring when hop is known, else to
\* the packets that wait.  ok is FALSE when it could do neither.
net_interface_send_ipv4(n, id, hop) ==
    LET fail(m) == [net |-> m, ok |-> FALSE]
        free == {i \in 1 .. PendingMax : n.pending[i] = None}
    IN  IF n.link # "UP" \/ ~n.ready THEN fail(n)
        ELSE Given(arp_tick(n), LAMBDA m :
          IF arp_lookup(m, hop)
          THEN Given(publish_frame(m, id), LAMBDA p : [net |-> p, ok |-> Published(m, p)])
          ELSE IF free = {} THEN fail(m)
          ELSE Given(CHOOSE i \in free : \A j \in free : i <= j, LAMBDA i :
                 Given(arp_resolve([m EXCEPT !.pending[i] =
                         [id |-> id, hop |-> hop, expires |-> now + PendingLife]], hop), LAMBDA r :
                   IF r.ok THEN r ELSE fail([r.net EXCEPT !.pending[i] = None]))))

\* ipv4_tx_reserve, the payload, ipv4_tx_commit: under the net lock.  Without
\* an address to send from there is no header.
ipv4_tx(hop) ==
    /\ \E a \in {packet_pool_acquire(net.pool, "TX")} :
         /\ a.id # None
         /\ \E r \in {IF net.address THEN net_interface_send_ipv4([net EXCEPT !.pool = a.pool], a.id, hop)
                      ELSE [net |-> [net EXCEPT !.pool = a.pool], ok |-> FALSE]} :
              net' = IF r.ok THEN r.net
                     ELSE [r.net EXCEPT !.pool = packet_pool_release(@, a.id, "TX")]
    /\ UNCHANGED <<now, box, carry, driver, got, routes, gen, gone>>

\* The part of net_interface_tick that concerns packets: a packet that waited
\* too long is dropped, one whose neighbour is known goes to the ring.
net_interface_tick ==
    LET Turn(n, i) ==
          IF n.pending[i] = None THEN n
          ELSE IF now >= n.pending[i].expires
          THEN [n EXCEPT !.pool = packet_pool_release(@, n.pending[i].id, "TX"), !.pending[i] = None]
          ELSE IF arp_lookup(n, n.pending[i].hop) THEN flush_pending(n, n.pending[i].hop)
          ELSE n
    IN  /\ net.link \in {"DOWN", "UP"}
        /\ net' = FoldLeft(Turn, arp_tick(net), [i \in 1 .. PendingMax |-> i])
        /\ UNCHANGED <<now, box, carry, driver, got, routes, gen, gone>>

-----------------------------------------------------------------------------
(* Reception.                                                              *)

\* A frame reaches the stack.
receive_frame_ctx(n, frame) ==
    arp_ethernet_handler(
      IF now - n.swept >= RxTick THEN [arp_tick(n) EXCEPT !.swept = now] ELSE n, frame)

Deliver(id, frame) ==
    /\ net' = [receive_frame_ctx(net, frame) EXCEPT !.pool = packet_pool_release(@, id, "DRIVER_RX")]
    /\ got' = IF frame.kind = "data" THEN Append(got, frame.number) ELSE got

net_interface_driver_acquire_rx ==
    /\ driver.pc = "run" /\ net.link = "UP"
    /\ \E a \in {packet_pool_acquire(net.pool, "DRIVER_RX")} :
         /\ a.id # None
         /\ net' = [net EXCEPT !.pool = a.pool]
         /\ driver' = [driver EXCEPT !.filled = @ \union {a.id}, !.batch = FALSE]
    /\ UNCHANGED <<now, box, carry, got, routes, gen, gone>>

\* The mailbox takes one frame, and refuses another until it is drained.
net_rx_post(id, frame) == box = None /\ box' = [id |-> id, frame |-> frame]

\* A frame off the wire is in buffer id.  On the interface's own processor it
\* is delivered; elsewhere it goes into the mailbox, and when that is taken it
\* is delivered all the same.
net_interface_driver_receive(id, kind, hop, elsewhere) ==
    /\ driver.pc = "run" /\ net.link = "UP" /\ id \in driver.filled
    /\ kind = "data" => driver.seen < MaxFrames
    /\ driver' = [driver EXCEPT !.filled = @ \ {id}, !.seen = IF kind = "data" THEN @ + 1 ELSE @,
                                !.batch = IF elsewhere THEN box # None ELSE @]
    /\ \E frame \in {[kind |-> kind, hop |-> hop, number |-> driver.seen + 1]} :
         \/ elsewhere /\ net_rx_post(id, frame) /\ UNCHANGED <<net, got>>
         \/ /\ ~(elsewhere /\ box = None)
            /\ packet_pool_data(net.pool, id, "DRIVER_RX")
            /\ Deliver(id, frame)
            /\ UNCHANGED box
    /\ UNCHANGED <<now, carry, routes, gen, gone>>

\* The frames of a batch after one that was delivered are delivered as well:
\* only the first is offered to the mailbox, and an offer it takes ends the
\* batch.
net_interface_driver_receive_batch(id, kind, hop) ==
    driver.batch /\ net_interface_driver_receive(id, kind, hop, FALSE)

\* The drain takes the frame under the mailbox lock ...
net_rx_drain ==
    /\ box # None /\ carry = None
    /\ carry' = box /\ box' = None
    /\ UNCHANGED <<net, now, driver, got, routes, gen, gone>>

\* ... and delivers it under the net lock.
net_interface_receive_buffer ==
    /\ carry # None
    /\ IF net.link = "UP" /\ packet_pool_data(net.pool, carry.id, "DRIVER_RX")
       THEN Deliver(carry.id, carry.frame) ELSE UNCHANGED <<net, got>>
    /\ carry' = None
    /\ UNCHANGED <<now, box, driver, routes, gen, gone>>

net_interface_driver_release_rx(id) ==
    /\ driver.pc = "run" /\ id \in driver.filled
    /\ net' = [net EXCEPT !.pool = packet_pool_release(@, id, "DRIVER_RX")]
    /\ driver' = [driver EXCEPT !.filled = @ \ {id}]
    /\ UNCHANGED <<now, box, carry, got, routes, gen, gone>>

-----------------------------------------------------------------------------
(* The driver's side of the transmit ring.  The driver dequeues until      *)
(* there is nothing more and then waits for the event of the interface.    *)

net_interface_driver_dequeue_tx ==
    /\ driver.pc = "run" /\ net.link = "UP" /\ net.ring.queue # <<>>
    /\ \E id \in {Head(net.ring.queue)} :
         /\ buffer_for(net.pool, id, "TX_QUEUED")
         /\ net' = [net EXCEPT !.pool = packet_pool_transition(@, id, "TX_QUEUED", "DRIVER_TX"),
                               !.ring = ring_resource_consume(@)]
         /\ driver' = [driver EXCEPT !.sending = @ \union {id}]
    /\ UNCHANGED <<now, box, carry, got, routes, gen, gone>>

net_interface_driver_complete_tx(id) ==
    /\ driver.pc = "run" /\ id \in driver.sending
    /\ net' = [net EXCEPT !.pool = packet_pool_release(@, id, "DRIVER_TX")]
    /\ driver' = [driver EXCEPT !.sending = @ \ {id}]
    /\ UNCHANGED <<now, box, carry, got, routes, gen, gone>>

\* The dequeue finds nothing: the driver makes up its mind to wait ...
net_interface_driver_dequeue_none ==
    /\ driver.pc = "run" /\ (net.link # "UP" \/ net.ring.queue = <<>>)
    /\ driver' = [driver EXCEPT !.pc = "found"]
    /\ UNCHANGED <<net, now, box, carry, got, routes, gen, gone>>

\* ... and waits for the event, which resets when it lets a waiter go.
event_wait ==
    /\ driver.pc = "found" \/ (driver.pc = "asleep" /\ net.bell)
    /\ driver' = [driver EXCEPT !.pc = IF net.bell THEN "run" ELSE "asleep"]
    /\ net' = [net EXCEPT !.bell = FALSE]
    /\ UNCHANGED <<now, box, carry, got, routes, gen, gone>>

\* Another member of its wait set, the interrupt of the card or a timer.
OtherWake ==
    /\ driver.pc = "asleep"
    /\ driver' = [driver EXCEPT !.pc = "run"]
    /\ UNCHANGED <<net, now, box, carry, got, routes, gen, gone>>

-----------------------------------------------------------------------------
(* The life of the interface.                                              *)

net_interface_set_link(up) ==
    /\ net.link \in {"DOWN", "UP"}
    /\ net' = [net EXCEPT !.link = IF up THEN "UP" ELSE "DOWN", !.bell = TRUE]
    /\ UNCHANGED <<now, box, carry, driver, got, routes, gen, gone>>

route_deactivate_nothing(g) == UNCHANGED routes

route_deactivate_interface(g) == routes' = routes \ {g}

\* The interface gets its address, its neighbour cache and two routes, one to
\* its network and one through its gateway, under its present generation.  A
\* route or a binding that does not fit takes the routes and the address back.
net_interface_configure_ipv4(fits) ==
    /\ net.link # "REMOVED" /\ ~net.address
    /\ IF fits THEN routes' = routes \union {gen} ELSE route_deactivate_interface(gen)
    /\ net' = [net EXCEPT !.ready = TRUE, !.address = fits, !.bell = TRUE,
                          !.cache = arp_init]
    /\ UNCHANGED <<now, box, carry, driver, got, gen, gone>>

revoke_interface ==
    LET Drop(n, i) == IF n.pending[i] = None THEN n
                      ELSE [n EXCEPT !.pool = packet_pool_release(@, n.pending[i].id, "TX"),
                                     !.pending[i] = None]
    IN  /\ net.link \in {"DOWN", "UP"}
        /\ \E n \in {FoldLeft(Drop, net, [i \in 1 .. PendingMax |-> i])} :
             net' = [n EXCEPT !.pool = packet_pool_revoke(@), !.ring = revoke_ring(@),
                              !.bell = TRUE, !.link = "REVOKED"]
        /\ route_deactivate_interface(gen)
        /\ gone' = gone \union {gen} /\ gen' = gen + 1
        /\ UNCHANGED <<now, box, carry, driver, got>>

\* The last step of net_interface_remove and of net_interface_task_died.
net_interface_remove ==
    /\ net.link = "REVOKED"
    /\ net' = [net EXCEPT !.link = "REMOVED"]
    /\ UNCHANGED <<now, box, carry, driver, got, routes, gen, gone>>

Clock ==
    /\ now < MaxNow /\ now' = now + 1
    /\ UNCHANGED <<net, box, carry, driver, got, routes, gen, gone>>

-----------------------------------------------------------------------------
(* Properties.                                                             *)

\* Every buffer of an interface in use is in exactly one place, the one its
\* state names: with a packet that waits for its neighbour, on the transmit
\* ring, with the driver, in the mailbox, or in a drain.  No error path of
\* publish_frame, arp_resolve, ipv4_tx_commit or flush_pending loses a buffer or
\* hands it out twice, and the head of the ring can always be dequeued.
BuffersExact ==
    ~net.pool.revoked =>
      LET held ==
            {<<"waits", i, net.pending[i].id, "TX">> : i \in {j \in 1 .. PendingMax : net.pending[j] # None}}
            \union {<<"ring", k, net.ring.queue[k], "TX_QUEUED">> : k \in 1 .. Len(net.ring.queue)}
            \union {<<"fill", 0, id, "DRIVER_RX">> : id \in driver.filled}
            \union {<<"send", 0, id, "DRIVER_TX">> : id \in driver.sending}
            \union {<<"box", 0, b.id, "DRIVER_RX">> : b \in {box} \ {None}}
            \union {<<"carry", 0, b.id, "DRIVER_RX">> : b \in {carry} \ {None}}
      IN  /\ \A h \in held : buffer_for(net.pool, h[3], h[4])
          /\ \A b \in Buffers : net.pool.state[b] # "FREE" =>
               \E h \in held : h[3][1] = b /\ \A g \in held : g[3][1] = b => g = h

\* A driver that sleeps on the event of an interface that is up has nothing to
\* send: publish_frame rings the bell for every frame, whatever path it took.
DriverSleepsForCause ==
    driver.pc = "asleep" /\ ~net.bell /\ net.link = "UP" => net.ring.queue = <<>>

\* No active route names a generation of the interface that was revoked.
RoutesFollowRevoke == routes \cap gone = {}

\* The stack gets no frame twice.
FramesOnce == \A i, j \in DOMAIN got : i # j => got[i] # got[j]
=============================================================================
